----------------------------- MODULE MCConformance -----------------------------
(******************************************************************************)
(* Conformance of a component the policy of the throwaway kernel knows, of    *)
(* one it does not, and of one with nothing to gate.                          *)
(******************************************************************************)
EXTENDS Conformance

Action(a, c) == [action |-> a, class |-> c, max |-> 1]

Known == <<Action("get", "read"), Action("create", "consequential")>>
ReadOnly == <<Action("get", "read")>>
Stranger == <<Action("look", "read"), Action("make", "consequential")>>

MCByAction == [a \in {"get", "create", "delete"} |->
                 CASE a = "get" -> "read" [] a = "create" -> "consequential"
                   [] a = "delete" -> "prohibited"]

Move(n, from, signers) == [name |-> n, from |-> from, signers |-> signers]

(* None; one; a person's decision; and two entries of one name.               *)
MCTables ==
  {<<>>, <<Move("open", <<>>, <<"agent">>), Move("close", <<"opened">>, <<"human">>)>>}
  \cup {<<Move("close", f, r), Move("close", g, <<"human">>)>> :
          f, g \in {<<"opened">>, <<"opened", "held">>, <<"held", "opened">>},
          r \in {<<"agent">>, <<"human", "agent">>}}

MCManifests == {Known, ReadOnly, Stranger}
================================================================================

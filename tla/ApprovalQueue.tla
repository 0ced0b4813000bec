----------------------------- MODULE ApprovalQueue -----------------------------
(******************************************************************************)
(* What the pending queue promises the component that asked and the human who *)
(* is asked: a question is put once and never edited, the argument values are *)
(* shown with it from the start or not at all, and it is answered once, by    *)
(* someone who may answer it.  GateQueue implements it.                       *)
(******************************************************************************)
CONSTANTS
  Question,  \* what can be asked
  Verdict,     \* what can be answered
  Fits       \* <<question, reply>>: the replies that may answer a question

VARIABLES
  asked,     \* the questions put
  shown,     \* those whose argument values an approver can read
  answered   \* <<question, reply>>: the answers given

queueVars == <<asked, shown, answered>>

QueueInit == asked = {} /\ shown = {} /\ answered = {}

Put(q) == /\ q \notin asked
          /\ asked' = asked \cup {q}
          /\ shown' \in {shown, shown \cup {q}}
          /\ UNCHANGED answered

Settle(q, r) == /\ q \in asked /\ <<q, r>> \in Fits
                /\ \A x \in answered : x[1] # q
                /\ answered' = answered \cup {<<q, r>>}
                /\ UNCHANGED <<asked, shown>>

(* Values may stop being shown; which, is not promised. *)
Withdraw == /\ shown' \subseteq shown
            /\ UNCHANGED <<asked, answered>>

QueueNext == \/ \E q \in Question : Put(q) \/ \E r \in Verdict : Settle(q, r)
             \/ Withdraw

QueueSpec == QueueInit /\ [][QueueNext]_queueVars
================================================================================

------------------------------ MODULE MCGateQueue ------------------------------
(******************************************************************************)
(* GateQueue with one agent that may park one request per window, two humans, *)
(* one of whom is the agent's own subject under a second key, and two policy  *)
(* versions that name different approvers.                                    *)
(******************************************************************************)
EXTENDS GateQueue

Asked == [q1 |-> [subject |-> "bot", key |-> "A", until |-> 1],
          q2 |-> [subject |-> "bot", key |-> "A", until |-> 3]]

Sub(r, args, flaw) == [req |-> r, args |-> args, by |-> "gw", flaw |-> flaw]
Offers == [s1 |-> Sub("q1", "match", None),
           s1b |-> Sub("q1", None, None),
           s2 |-> Sub("q2", "match", None),
           s2x |-> Sub("q2", "mismatch", None)]

Dec(r, k, at, until) == [req |-> r, key |-> k, at |-> at, until |-> until, flaw |-> None]
Answers == [a1 |-> Dec("q1", "R", 0, 3),
            d1 |-> Dec("q1", "S", 1, 3),
            own |-> Dec("q1", "B", 1, 3)]

Rules == [v1 |-> [any |-> {"R", "B"}, of |-> [q1 |-> {"R", "B"}, q2 |-> {"R"}]],
          v2 |-> [any |-> {"S"}, of |-> [q1 |-> {"S"}, q2 |-> {"S"}]]]

Subjects == [R |-> "ann", S |-> "eve", B |-> "bot", A |-> "bot"]

(* TLC evaluates a definition another one names once, and one a configuration *)
(* names at every use.                                                        *)
MCAsk == Asked
MCOffer == Offers
MCAnswer == Answers
MCRule == Rules
MCSubject == Subjects
================================================================================

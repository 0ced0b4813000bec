----------------------------- MODULE MCCheckpointer ----------------------------
(******************************************************************************)
(* Checkpointer over two streams that commit to one payload, one of them      *)
(* again and for longer, with both loops; or, with a request to either route  *)
(* besides, each of them once.                                                *)
(******************************************************************************)
EXTENDS Checkpointer

Holds(p, t) == [payload |-> p, until |-> t]

Streams == << "core", "gw" >>
Shared   == [core |-> << Holds("bytes", 1) >>,
             gw   |-> << Holds("bytes", 1), Holds("bytes", 2) >>]
Once     == [core |-> << Holds("bytes", 1) >>, gw |-> << Holds("bytes", 1) >>]
Loops    == [attestor |-> {"attest"}, decayer |-> {"decay"}]
Requests == [attestor |-> {"attest"}, decayer |-> {"decay"},
             client |-> {"attest one", "decay"}]

MCStreamOrder == Streams
SharedEnvelopes == Shared
OnceEnvelopes == Once
LoopDuty == Loops
RequestDuty == Requests
================================================================================

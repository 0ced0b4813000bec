--------------------------- MODULE MCGatewayDelivery ---------------------------
(******************************************************************************)
(* GatewayDelivery on the streams of one gateway: on `gw:a' ingest may refuse *)
(* the first row, and a root may resume the stream; with `gw:b' nothing is    *)
(* wrong.  A cfg takes one of the two tables below.                           *)
(******************************************************************************)
EXTENDS GatewayDelivery

MCStream == {"core", "gw:a", "gw:b"}
OneStream == <<"gw:a">>
TwoStreams == <<"gw:a", "gw:b">>
NoLines == [m \in {} |-> {}]

Chained(s, n, p, raw) ==
  [stream |-> s, seq |-> n, prev |-> p, raw |-> raw, skind |-> "effect",
   auth |-> None, outcome |-> "applied", kind |-> "effect", proj |-> NoProj,
   mandate |-> None, cost |-> 0, keep |-> {}, at |-> 1]

Resume == [Chained("core", 0, None, "h_k0") EXCEPT
             !.proj = [tag |-> "resume", stream |-> "gw:a", seq |-> 0,
                       bridge |-> "h_a0"]]

(* Two calls compete for position 0. *)
Contended ==
  [ a0 |-> Chained("gw:a", 0, None, "h_a0"),
    x0 |-> Chained("gw:a", 0, None, "h_x0"),
    a1 |-> Chained("gw:a", 1, "a0", "h_a1"),
    k0 |-> Resume ]

(* Two streams, and rows held back behind the refused one. *)
Neighbours ==
  [ a0 |-> Chained("gw:a", 0, None, "h_a0"),
    a1 |-> Chained("gw:a", 1, "a0", "h_a1"),
    a2 |-> Chained("gw:a", 2, "a1", "h_a2"),
    b0 |-> Chained("gw:b", 0, None, "h_b0"),
    b1 |-> Chained("gw:b", 1, "b0", "h_b1"),
    k0 |-> Resume ]

(* TLC evaluates a definition another one names once, and one a configuration *)
(* names at every use.                                                        *)
MCLine == NoLines
ContendedEnv == Contended
NeighbourEnv == Neighbours
================================================================================

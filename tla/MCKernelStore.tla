----------------------------- MODULE MCKernelStore -----------------------------
(******************************************************************************)
(* KernelStore on a small deployment: the kernel's core stream, a gateway     *)
(* stream whose position 1 is contested, refused and bridged, a stream whose  *)
(* very first envelope is, and an approval several envelopes carry.           *)
(******************************************************************************)
EXTENDS KernelStore

MCStream == {"core", "gw", "hx"}
Lines == [m1 |-> {"m1"}, m2 |-> {"m1", "m2"}]
MCMandate == {"m1", "m2"}
MCInstant == 0..3

Blank == [stream |-> "gw", seq |-> 0, prev |-> None, raw |-> "r", skind |-> "effect",
          auth |-> None, outcome |-> "applied", kind |-> "effect", proj |-> NoProj,
          mandate |-> None, cost |-> 0, keep |-> {}, at |-> 1]

At(s, n, p, raw) == [Blank EXCEPT !.stream = s, !.seq = n, !.prev = p, !.raw = raw]

OneUse == [req |-> "q", single |-> TRUE]
ManyUse == [req |-> "q", single |-> FALSE]

Envelopes ==
  [ g0 |-> [At("gw", 0, None, "h_g0") EXCEPT !.mandate = "m2", !.cost = 1,
                                             !.keep = {[hash |-> "p", until |-> 2]}],
    g1 |-> [At("gw", 1, "g0", "h_g1") EXCEPT !.auth = OneUse,
                                             !.keep = {[hash |-> "p", until |-> 3]}],
    g1d |-> At("gw", 1, "g0", "h_g1d"),
    g2s |-> [At("gw", 2, "g1", "h_g2s") EXCEPT !.skind = "signal"],
    g2b |-> [At("gw", 2, "h_g1", "h_g2b") EXCEPT !.mandate = "m1", !.cost = 2,
                                                 !.auth = ManyUse],
    h0 |-> At("hx", 0, None, "h_h0"),
    h1b |-> At("hx", 1, "h_h0", "h_h1b"),
    k0 |-> [At("core", 0, None, "h_k0") EXCEPT
              !.proj = [tag |-> "resume", stream |-> "gw", seq |-> 1, bridge |-> "h_g1"]],
    k0h |-> [At("core", 0, None, "h_k0h") EXCEPT
              !.proj = [tag |-> "resume", stream |-> "hx", seq |-> 0, bridge |-> "h_h0"]],
    k1 |-> [At("core", 1, "k0", "h_k1") EXCEPT
              !.proj = [tag |-> "checkpoint", stream |-> "gw", from |-> 0, to |-> 0,
                        head |-> "g0"],
              !.auth = ManyUse],
    k2 |-> [At("core", 2, "k1", "h_k2") EXCEPT
              !.proj = [tag |-> "checkpoint", stream |-> "gw", from |-> 1, to |-> 2,
                        head |-> "g2b"]] ]

(* TLC evaluates a definition another one names once, and one a configuration *)
(* names at every use.                                                        *)
MCEnv == Envelopes
MCLine == Lines
================================================================================

----------------------------- MODULE MCKernelIngest -----------------------------
(******************************************************************************)
(* KernelIngest from a kernel with one configured root and nothing else: the  *)
(* ceremony's two envelopes, and one of several cases.  Each case is a set of *)
(* envelopes two handlers may be given, in any order and any number of times. *)
(******************************************************************************)
EXTENDS KernelIngest, TLC

Handlers == Permutations(Worker)

MCStream == {"core", "gw", "hx"}
MCInstant == 0..3

(* m1 is the bootstrap mandate, m2 a delegated one under it, m3 lets root R   *)
(* act in person under a mandate root S would have to grant.                  *)
MCMandate == {"m1", "m2", "m3"}
Lines == [m1 |-> {"m1"}, m2 |-> {"m1", "m2"}, m3 |-> {"m3"}]
AnyAction == RootApprovedActions \cup {"act", "think"}
Documents ==
  [m1 |-> [kind |-> "interactive", parent |-> None, grantor |-> "R", grantee |-> "K",
           holder |-> "ops", actions |-> AnyAction, issued |-> 1, from |-> 1, to |-> 3,
           cap |-> 1],
   m2 |-> [kind |-> "delegated", parent |-> "m1", grantor |-> "K", grantee |-> "A",
           holder |-> "bot", actions |-> {"act", "think"}, issued |-> 1, from |-> 1,
           to |-> 2, cap |-> None],
   m3 |-> [kind |-> "standing", parent |-> None, grantor |-> "S", grantee |-> "R",
           holder |-> "ann", actions |-> AnyAction, issued |-> 1, from |-> 1, to |-> 3,
           cap |-> None]]

Subjects == [R |-> "ann", S |-> "eve", T |-> "tom", K |-> "ops", A |-> "bot"]

(* v1 gates everything, v2 lets `act' through, v3 forbids it. *)
Gates(decision, class) ==
  [decision |-> [a \in AnyAction \cup {"any"} |-> IF a = "act" THEN decision ELSE "gate"],
   class |-> [a \in AnyAction |-> IF a = "act" THEN class ELSE 2],
   approvers |-> {"ann"}]
Versions == [v1 |-> Gates("gate", 2), v2 |-> Gates("allow", 1), v3 |-> Gates("deny", 2)]

Requests == [q2 |-> [key |-> "K", subject |-> "ops"]]

Blank == [stream |-> "gw", seq |-> 0, prev |-> None, raw |-> "r", skind |-> "effect",
          kind |-> "effect", action |-> "act", class |-> 2, outcome |-> "applied",
          signer |-> "K", subject |-> "ops", mandate |-> "m1", at |-> 1, flaw |-> None,
          auth |-> None, proj |-> NoProj, cost |-> 0, keep |-> {}, tested |-> None]

At(s, n, p, raw) == [Blank EXCEPT !.stream = s, !.seq = n, !.prev = p, !.raw = raw]
Approval(q) == [req |-> q, single |-> TRUE, by |-> "R", verdict |-> "approve",
                flaw |-> None]
Kernel(s, n, p, raw, action, r, q) ==
  [At(s, n, p, raw) EXCEPT !.action = action, !.proj = r, !.auth = Approval(q)]

(* The ceremony: the root's mandate, and the first policy. *)
Ceremony ==
  [k0 |-> [At("core", 0, None, "h_k0") EXCEPT
             !.kind = "mandate", !.mandate = None, !.action = "-",
             !.proj = [tag |-> "mandate", id |-> "m1"]],
   k1 |-> [Kernel("core", 1, "k0", "h_k1", "kernel.publish_policy",
                  [tag |-> "policy", version |-> "v1"], "q1") EXCEPT
             !.kind = "policy-change"]]

(* One approval carried by two envelopes of two streams, policies that stop   *)
(* requiring it and then forbid the act, and a resume that reports it was not *)
(* applied.                                                                   *)
ApprovalCase ==
  [e0 |-> [At("gw", 0, None, "h_e0") EXCEPT !.auth = Approval("q2")],
   f0 |-> [At("hx", 0, None, "h_f0") EXCEPT !.auth = Approval("q2")],
   e1 |-> At("gw", 1, "e0", "h_e1"),
   k2 |-> [Kernel("core", 2, "k1", "h_k2", "kernel.publish_policy",
                  [tag |-> "policy", version |-> "v2"], "q3") EXCEPT
             !.kind = "policy-change"],
   k2b |-> [Kernel("core", 2, "k1", "h_k2b", "kernel.publish_policy",
                   [tag |-> "policy", version |-> "v3"], "q4") EXCEPT
              !.kind = "policy-change"],
   k2d |-> [At("core", 2, "k1", "h_k2d") EXCEPT
              !.action = "kernel.resume_stream", !.outcome = "denied",
              !.proj = [tag |-> "resume", stream |-> "gw", seq |-> 0,
                        bridge |-> "h_e0"]]]

(* A component registered after its conformance run, or after one that did    *)
(* not pass.                                                                  *)
ComponentCase ==
  [c0 |-> [Kernel("hx", 0, None, "h_c0", "kernel.conformance_run", NoProj, "q2")
             EXCEPT !.tested = <<"notes", 1>>],
   c0d |-> [At("hx", 0, None, "h_c0d") EXCEPT !.action = "kernel.conformance_run",
              !.outcome = "denied", !.tested = <<"notes", 1>>],
   c2 |-> Kernel("core", 2, "k1", "h_c2", "kernel.register_component",
                 [tag |-> "manifest", name |-> "notes", version |-> 1, key |-> "A"],
                 "q3")]

(* A root enrolled and another retired, each by a root acting in person under *)
(* the mandate of another, or approving itself; and a policy approved by the  *)
(* retired root.                                                              *)
By(k, e) == [e EXCEPT !.auth.by = k]
InPerson(e) == [e EXCEPT !.signer = "R", !.subject = "ann", !.mandate = "m3"]
RootCase ==
  [j0 |-> [At("gw", 0, None, "h_j0") EXCEPT !.kind = "mandate", !.mandate = None,
             !.proj = [tag |-> "mandate", id |-> "m3"]],
   r2 |-> InPerson(By("S", Kernel("core", 2, "k1", "h_r2", "kernel.enroll_root",
                                  [tag |-> "enroll", key |-> "T"], "q4"))),
   r2x |-> InPerson(Kernel("core", 2, "k1", "h_r2x", "kernel.enroll_root",
                           [tag |-> "enroll", key |-> "T"], "q4")),
   r3 |-> [InPerson(By("T", Kernel("core", 3, "r2", "h_r3", "kernel.retire_root",
                                   [tag |-> "retire", key |-> "S"], "q5")))
             EXCEPT !.at = 2],
   r4 |-> [By("S", Kernel("core", 4, "r3", "h_r4", "kernel.publish_policy",
                          [tag |-> "policy", version |-> "v2"], "q6")) EXCEPT
             !.kind = "policy-change", !.at = 2]]

(* Two decisions over a queued request; and a first policy that reports that  *)
(* it was not applied.                                                        *)
DecisionCase ==
  [k1d |-> [Kernel("core", 1, "k0", "h_k1d", "kernel.publish_policy",
                   [tag |-> "policy", version |-> "v1"], "q4") EXCEPT
              !.kind = "policy-change", !.outcome = "denied"],
   d2 |-> [At("core", 2, "k1", "h_d2") EXCEPT
             !.kind = "gate-decision", !.mandate = None,
             !.proj = [tag |-> "decision", req |-> "q2", verdict |-> "approve",
                       by |-> "R"]],
   d3 |-> [At("core", 3, "d2", "h_d3") EXCEPT
             !.kind = "gate-decision", !.mandate = None,
             !.proj = [tag |-> "decision", req |-> "q2", verdict |-> "deny",
                       by |-> "R"]]]

(* A delegated mandate and its revocation, what is done under it, a           *)
(* checkpoint, a signal.                                                      *)
RecordCase ==
  [g0 |-> [At("gw", 0, None, "h_g0") EXCEPT !.kind = "mandate", !.mandate = None,
             !.proj = [tag |-> "mandate", id |-> "m2"]],
   g1 |-> [At("hx", 0, None, "h_g1") EXCEPT !.kind = "cognition", !.action = "think",
             !.signer = "A", !.mandate = "m2", !.cost = 1],
   x0 |-> [At("gw", 1, "g0", "h_x0") EXCEPT !.kind = "revocation", !.mandate = None,
             !.proj = [tag |-> "revocation", of |-> "m2", at |-> 1, by |-> "K"]],
   p0 |-> [At("hx", 0, None, "h_p0") EXCEPT !.kind = "checkpoint", !.mandate = None,
             !.proj = [tag |-> "checkpoint", stream |-> "gw", from |-> 0, to |-> 0,
                       head |-> "g0"]],
   s0 |-> [At("hx", 0, None, "h_s0") EXCEPT !.kind = "signal", !.skind = "signal",
             !.mandate = None]]

Envelopes == Ceremony @@ ApprovalCase @@ ComponentCase @@ RootCase @@ DecisionCase
             @@ RecordCase

After(case) == DOMAIN Ceremony \cup DOMAIN case

(* What the configurations name.  TLC evaluates a definition another one      *)
(* names once, and one a configuration names at every use.                    *)
MCLine == Lines
MCDoc == Documents
MCPolicy == Versions
MCSubject == Subjects
MCQueued == Requests
MCReason == Codes
MCEnv == Envelopes
MCOffers == {After(ApprovalCase), After(ComponentCase), After(RootCase),
             After(DecisionCase), After(RecordCase)}
CeremonyOffers == {DOMAIN Ceremony}
================================================================================

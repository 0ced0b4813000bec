------------------------------ MODULE KernelIngest ------------------------------
(******************************************************************************)
(* Ingest::submit over the store of KernelStore: several request handlers,    *)
(* each reading the database step by step to judge one envelope and then      *)
(* asking for one append transaction, with other handlers' commits falling    *)
(* between any two of those reads (kernel/stozher-kernel/src/ingest.rs).      *)
(*                                                                            *)
(* A handler reads, in the code's order: is the envelope held; the policy in  *)
(* force; the root set at emitted-at; the kind's own documents; the spender   *)
(* of the approval.  What it keeps of them are the fields of its worker       *)
(* record, and they may be stale when they are used.                          *)
(*                                                                            *)
(* Env[e].flaw is the refusal an envelope's bytes alone earn it (parsing,     *)
(* signature, schema, payload binding, the approval's binding and windows),   *)
(* or None.  Envelopes with a commitment-ref or a trigger are not offered.    *)
(******************************************************************************)
EXTENDS KernelStore

CONSTANTS
  Worker,    \* request handlers running at once
  Doc,       \* [Mandate -> record]: what a mandate document says
  Policy,    \* [Version -> record]: what a policy document says
  Subject,   \* [Key -> subject]: the human an enrolled root key belongs to
  Queued,    \* [request hash -> record]: the requests in the kernel's queue
  Received,  \* the instants requests arrive at
  Offers,    \* bound: the sets of envelopes one behaviour may involve
  Skew       \* max_future_skew_seconds

VARIABLES
  worker,    \* [Worker -> record]: the submission each handler is judging
  flagged,   \* held envelopes whose policy_violation column is set
  offered    \* bound: the envelopes that may be submitted, chosen once

ingestVars == <<storeVars, worker, flagged, offered>>

(* The reason codes a submission can be refused with here. *)
Codes ==
  {"jcs-malformed-json", "envelope-emitted-in-future", "mandate-unresolved",
   "mandate-grantee-key-mismatch", "mandate-expired", "mandate-revoked",
   "mandate-scope-not-permitted", "mandate-root-not-enrolled",
   "policy-component-override-attempt", "manifest-name-key-conflict",
   "manifest-version-retained", "manifest-conformance-not-green",
   "policy-version-reused", "policy-not-published", "gate-authorization-missing",
   "gate-self-approval", "gate-approver-not-permitted", "gate-denied",
   "gate-authorization-replayed", "revocation-before-issue",
   "revocation-not-authorized", "checkpoint-stream-unknown",
   "checkpoint-head-mismatch", "stream-kind-mixed", "chain-genesis-prev-not-null",
   "chain-seq-gap", "chain-seq-duplicate", "chain-prev-hash-mismatch",
   "gate-decision-already-recorded", "stream-resume-position-unknown",
   "checkpoint-range-discontinuous"}

(* The kinds of envelope, aggregates apart: none is offered. *)
Kinds == {"effect", "policy-change", "cognition", "signal", "mandate", "revocation",
          "gate-decision", "checkpoint"}

(* kernel.* actions and policy changes answer to the root set, whatever the   *)
(* policy in force says of them.                                              *)
RootApprovedActions ==
  {"kernel.publish_policy", "kernel.register_component", "kernel.enroll_root",
   "kernel.retire_root", "kernel.conformance_run", "kernel.resume_stream"}

Privileged(e) == Env[e].action \in RootApprovedActions \/ Env[e].kind = "policy-change"

IsEffect(e) == Env[e].kind \in {"effect", "policy-change"}

(* The rows only an approved effect may write. *)
RootTags == {"policy", "manifest", "enroll", "retire", "resume"}

(* What an envelope says is of the type its schema gives it: only an effect   *)
(* has an action, and only a privileged one writes the rows of RootTags.  A   *)
(* flaw is some other refusal than a replay; request bodies are told apart by *)
(* their hash; a policy decides on every action.                              *)
ASSUME IngestAssumption ==
  /\ Offers \subseteq SUBSET Id
  /\ Codes \subseteq Reason /\ "ok" \notin Reason
  /\ Instant \subseteq Nat /\ Never \in Nat /\ \A t \in Instant : t < Never
  /\ \A e \in Id :
       /\ Env[e].kind \in Kinds /\ Env[e].at \in Instant
       /\ Env[e].flaw \in (Reason \cup {None}) \ {"gate-authorization-replayed"}
       /\ Env[e].auth # None =>
            /\ Env[e].auth.flaw \in (Reason \cup {None}) \ {"gate-authorization-replayed"}
            /\ Env[e].auth.verdict \in {"approve", "deny"}
       /\ Env[e].proj.tag = "policy" => Env[e].proj.version \in DOMAIN Policy
       /\ Env[e].proj.tag \in {"enroll", "retire"} => Env[e].proj.key \in Key
       /\ Env[e].proj.tag \in RootTags => IsEffect(e) /\ Privileged(e)
       /\ Env[e].action \in RootApprovedActions => IsEffect(e)
       /\ IsEffect(e) => \A v \in DOMAIN Policy :
                           Policy[v].decision[Env[e].action] \in {"allow", "gate", "deny"}
  /\ \A e, f \in Id : Env[e].raw = Env[f].raw => e = f

Idle == [pc |-> "idle", env |-> None, policy |-> None, roots |-> {}, keys |-> {},
         flag |-> FALSE, code |-> None]

--------------------------------------------------------------------------------
(* Handlers *)

(* The next read of handler w. *)
Goto(w, pc) == worker' = [worker EXCEPT ![w].pc = pc]
Refuse(w, code) == worker' = [worker EXCEPT ![w].pc = "reject", ![w].code = code]
Answer(w) == worker' = [worker EXCEPT ![w] = Idle]

Judge(w, code, next) == IF code = "ok" THEN Goto(w, next) ELSE Refuse(w, code)

ReadOnly == UNCHANGED <<storeVars, flagged, offered>>

Submit(w, e) ==
  /\ worker[w].pc = "idle"
  /\ worker' = [worker EXCEPT ![w].pc = "identify", ![w].env = e]
  /\ ReadOnly

(* An envelope the store already holds is answered at once, as accepted. *)
AlreadyHeld(w) ==
  /\ worker[w].pc = "identify"
  /\ worker[w].env \in envelopes
  /\ Answer(w)
  /\ ReadOnly

Identify(w) == LET e == worker[w].env IN
  /\ worker[w].pc = "identify"
  /\ e \notin envelopes
  /\ IF Env[e].flaw # None THEN Refuse(w, Env[e].flaw)
     ELSE \E t \in Received :
            Judge(w, IF Env[e].at > t + Skew THEN "envelope-emitted-in-future" ELSE "ok",
                  "policy")
  /\ ReadOnly

ReadPolicy(w) ==
  /\ worker[w].pc = "policy"
  /\ worker' = [worker EXCEPT ![w].pc = "roots",
                              ![w].policy = IF policies = <<>> THEN None
                                            ELSE policies[Len(policies)]]
  /\ ReadOnly

RootsAt(t) == {k \in Key : roots[k].from <= t /\ t < roots[k].to}

FirstRead(e) == CASE IsEffect(e) \/ Env[e].kind = "cognition" -> "mandate"
                  [] Env[e].kind = "signal" -> "append"
                  [] Env[e].kind = "mandate" -> "grant"
                  [] OTHER -> Env[e].kind

ReadRoots(w) == LET e == worker[w].env IN
  /\ worker[w].pc = "roots"
  /\ worker' = [worker EXCEPT
       ![w].pc = IF worker[w].policy = None THEN "genesis" ELSE FirstRead(e),
       ![w].roots = RootsAt(Env[e].at)]
  /\ ReadOnly

--------------------------------------------------------------------------------
(* §03: the mandate chain. *)

ValidAt(m, t) == Doc[m].from <= t /\ t <= Doc[m].to

MandateCode(e, rts) == LET m == Env[e].mandate IN
  CASE m \notin mandates -> "mandate-unresolved"
    [] Doc[m].grantee # Env[e].signer -> "mandate-grantee-key-mismatch"
    [] \E a \in Line[m] : ~ValidAt(a, Env[e].at) -> "mandate-expired"
    [] \E a \in Line[m], r \in revocations : r.of = a /\ r.at <= Env[e].at
         -> "mandate-revoked"
    [] \E a \in Line[m] : Env[e].action \notin Doc[a].actions
         -> "mandate-scope-not-permitted"
    [] \E a \in Line[m] : a \notin mandates -> "mandate-unresolved"
    [] \A a \in Line[m] : Doc[a].parent = None => Doc[a].grantor \notin rts
         -> "mandate-root-not-enrolled"
    [] OTHER -> "ok"

Consequential == 2
Prohibited == 3

(* Nothing may claim a class weaker than the policy's; an applied prohibited  *)
(* effect is kept and flagged.                                                *)
Underclaims(e, v) == IsEffect(e) /\ Env[e].class < Policy[v].class[Env[e].action]

(* Mutant: only effects answer to a mandate. *)
ReadEffectMandate(w) == LET e == worker[w].env  v == worker[w].policy IN
  /\ worker[w].pc = "mandate"
  /\ IF IsEffect(e) /\ MandateCode(e, worker[w].roots) # "ok"
     THEN Refuse(w, MandateCode(e, worker[w].roots))
     ELSE Goto(w, IF v = None THEN "gate" ELSE "budget")
  /\ ReadOnly

ReadMandate(w) == LET e == worker[w].env  v == worker[w].policy IN
  /\ worker[w].pc = "mandate"
  /\ IF v # None /\ Underclaims(e, v) THEN Refuse(w, "policy-component-override-attempt")
     ELSE IF MandateCode(e, worker[w].roots) # "ok"
     THEN Refuse(w, MandateCode(e, worker[w].roots))
     ELSE worker' = [worker EXCEPT
            ![w].pc = IF v = None THEN "gate" ELSE "budget",
            ![w].flag = /\ v # None /\ IsEffect(e) /\ Applied(e)
                        /\ Policy[v].class[Env[e].action] = Prohibited]
  /\ ReadOnly

(* §03 §4.3: over a cap the envelope is flagged and appended, never refused.  *)
OverBudget(e) ==
  \E m \in Charged(e) : /\ Env[e].cost > 0
                        /\ Doc[m].cap # None
                        /\ spend[m] + Env[e].cost > Doc[m].cap

ReadSpend(w) == LET e == worker[w].env IN
  /\ worker[w].pc = "budget"
  /\ worker' = [worker EXCEPT ![w].pc = IF IsEffect(e) THEN "documents" ELSE "append",
                              ![w].flag = @ \/ OverBudget(e)]
  /\ ReadOnly

--------------------------------------------------------------------------------
(* A root mandate is granted by an enrolled root, a delegated one under a     *)
(* mandate the store holds (the grant's own contents are judged by its bytes).*)
GrantCode(e, rts) == LET m == Env[e].proj.id IN
  IF Doc[m].parent = None
  THEN IF Doc[m].grantor \in rts THEN "ok" ELSE "mandate-root-not-enrolled"
  ELSE IF Doc[m].parent \in mandates THEN "ok" ELSE "mandate-unresolved"

(* The documents an effect carries: a policy, a manifest, a root change.      *)

(* Mutant: any conformance run will do, also one that did not pass. *)
UntestedCode(r) ==
  CASE \E i \in DOMAIN manifests : manifests[i].name = r.name /\ manifests[i].key # r.key
         -> "manifest-name-key-conflict"
    [] \A e \in envelopes : Env[e].tested # <<r.name, r.version>>
         -> "manifest-conformance-not-green"
    [] OTHER -> "ok"

RegistrationCode(r) ==
  CASE \E i \in DOMAIN manifests : manifests[i].name = r.name /\ manifests[i].key # r.key
         -> "manifest-name-key-conflict"
    [] \E i \in DOMAIN manifests :
         manifests[i].name = r.name /\ manifests[i].version = r.version
         -> "manifest-version-retained"
    [] \A e \in envelopes :
         ~(/\ Env[e].action = "kernel.conformance_run" /\ Env[e].outcome = "applied"
           /\ Env[e].tested = <<r.name, r.version>>)
         -> "manifest-conformance-not-green"
    [] OTHER -> "ok"

DocumentCode(e, rts) == LET r == Env[e].proj IN
  CASE r.tag = "policy" /\ \E i \in DOMAIN policies : policies[i] = r.version
         -> "policy-version-reused"
    [] r.tag = "manifest" -> RegistrationCode(r)
    [] r.tag \in {"enroll", "retire"} /\ Env[e].signer \notin rts
         -> "mandate-root-not-enrolled"
    [] OTHER -> "ok"

ReadDocuments(w) ==
  /\ worker[w].pc = "documents"
  /\ Judge(w, DocumentCode(worker[w].env, worker[w].roots),
           IF worker[w].policy = None THEN "mandate" ELSE "approvers")
  /\ ReadOnly

(* Before any policy: an interactive root mandate at (core, 0), and the first *)
(* policy change at (core, 1), judged by its document, its mandate and a      *)
(* root's approval.                                                           *)
Genesis0(e) == /\ Env[e].stream = CoreStream /\ Env[e].kind = "mandate"
               /\ Env[e].seq = 0
               /\ Doc[Env[e].proj.id].kind = "interactive"

EnterGenesis(w) == LET e == worker[w].env IN
  /\ worker[w].pc = "genesis"
  /\ CASE Genesis0(e) -> Judge(w, GrantCode(e, worker[w].roots), "append")
       [] FirstPolicy(e) -> Judge(w, IF Env[e].class = Consequential THEN "ok"
                                     ELSE "policy-component-override-attempt",
                                  "documents")
       [] OTHER -> Refuse(w, "policy-not-published")
  /\ ReadOnly

--------------------------------------------------------------------------------
(* The gate: who may approve, has the approval been spent, is it good (§06).  *)

RootApprovers(t) == {[key |-> k, subject |-> Subject[k]] : k \in RootsAt(t)}

(* Named approvers: enrolled roots of that name, and whoever holds a mandate  *)
(* covering the action in that name.  Revocations are not consulted here.     *)
NamedApprovers(v, t, action) ==
  {a \in RootApprovers(t) : a.subject \in Policy[v].approvers}
  \cup {[key |-> Doc[m].grantee, subject |-> Doc[m].holder] :
          m \in {n \in mandates : /\ Doc[n].holder \in Policy[v].approvers
                                  /\ ValidAt(n, t)
                                  /\ action \in Doc[n].actions \cup {"any"}}}

Decision(e, v) == Policy[v].decision[Env[e].action]

RequiresGate(e, v) == /\ Applied(e)
                      /\ Decision(e, v) = "gate" \/ Privileged(e)

(* Mutant: an applied effect the policy denies is not flagged. *)
ReadApproversOnly(w) == LET e == worker[w].env  v == worker[w].policy IN
  /\ worker[w].pc = "approvers"
  /\ worker' = [worker EXCEPT
       ![w].pc = "gate",
       ![w].keys = IF Privileged(e) THEN RootApprovers(Env[e].at)
                   ELSE NamedApprovers(v, Env[e].at, Env[e].action)]
  /\ ReadOnly

ReadApprovers(w) == LET e == worker[w].env  v == worker[w].policy IN
  /\ worker[w].pc = "approvers"
  /\ worker' = [worker EXCEPT
       ![w].pc = "gate",
       ![w].keys = IF Privileged(e) THEN RootApprovers(Env[e].at)
                   ELSE IF Decision(e, v) = "gate"
                        THEN NamedApprovers(v, Env[e].at, Env[e].action)
                        ELSE {},
       ![w].flag = @ \/ (Decision(e, v) = "deny" /\ Applied(e))]
  /\ ReadOnly

(* Mutant: the spender is not compared. *)
SpentByAnyone(e) == \E u \in uses : u.req = Env[e].auth.req /\ u.single

(* Spent by some other envelope; this very envelope arriving twice is not a   *)
(* replay.                                                                    *)
SpentByAnother(e) == \E u \in uses : /\ u.req = Env[e].auth.req
                                     /\ u.single
                                     /\ u.id # e

(* verify_authorization; flaw stands for its steps that compare bytes alone.  *)
GateCode(e, required, approvers, seen) == LET a == Env[e].auth IN
  IF a = None THEN IF required THEN "gate-authorization-missing" ELSE "ok"
  ELSE
  CASE \/ a.by = Env[e].signer
       \/ \E k \in approvers : k.key = a.by /\ k.subject = Env[e].subject
         -> "gate-self-approval"
    [] \A k \in approvers : k.key # a.by -> "gate-approver-not-permitted"
    [] a.verdict = "deny" -> "gate-denied"
    [] a.flaw # None -> a.flaw
    [] a.single /\ seen -> "gate-authorization-replayed"
    [] OTHER -> "ok"

(* In genesis the approvers are read here, the approval is required and       *)
(* nothing counts as seen.  A signed denial carried by an envelope that       *)
(* applied nothing is a record, not an authorization.                         *)
ReadGate(w) == LET e == worker[w].env  v == worker[w].policy
                   code == IF v = None
                           THEN GateCode(e, TRUE, RootApprovers(Env[e].at), FALSE)
                           ELSE GateCode(e, RequiresGate(e, v), worker[w].keys,
                                         Env[e].auth # None /\ SpentByAnother(e)) IN
  /\ worker[w].pc = "gate"
  /\ Judge(w, IF v # None /\ code = "gate-denied" /\ ~Applied(e) THEN "ok" ELSE code,
           "append")
  /\ ReadOnly

--------------------------------------------------------------------------------
(* The kinds that carry no effect. *)

ReadGrant(w) ==
  /\ worker[w].pc = "grant"
  /\ Judge(w, GrantCode(worker[w].env, worker[w].roots), "append")
  /\ ReadOnly

(* A root may revoke anything; a grantor what it, or someone above it, gave.  *)
RevocationCode(r, rts) ==
  IF \/ r.by \in rts
     \/ /\ r.of \in mandates
        /\ \E a \in Line[r.of] : a \in mandates /\ Doc[a].grantor = r.by
  THEN IF r.of \in mandates /\ r.at < Doc[r.of].issued THEN "revocation-before-issue"
       ELSE "ok"
  ELSE "revocation-not-authorized"

ReadRevocation(w) ==
  /\ worker[w].pc = "revocation"
  /\ Judge(w, RevocationCode(Env[worker[w].env].proj, worker[w].roots), "append")
  /\ ReadOnly

(* The subject a key acts as: as an enrolled root, else by a mandate it holds *)
(* (any one of them, when it holds several).                                  *)
ActsAs(k, who, t) ==
  IF k \in RootsAt(t) THEN Subject[k] = who
  ELSE \E m \in mandates : Doc[m].grantee = k /\ ValidAt(m, t) /\ Doc[m].holder = who

(* Who may decide at all here: the approvers of the consequential gate rule,  *)
(* or the roots; and for a request the kernel queued, never its requester.    *)
GateDecisionCode(e, v, rts) == LET r == Env[e].proj
                                   t == Env[e].at
                                   permitted == IF Policy[v].decision["any"] = "gate"
                                                THEN NamedApprovers(v, t, "any")
                                                ELSE RootApprovers(t) IN
  CASE r.by \notin rts /\ \A a \in permitted : a.key # r.by -> "gate-approver-not-permitted"
    [] r.req \in DOMAIN Queued /\ (\/ Queued[r.req].key = r.by
                                   \/ ActsAs(r.by, Queued[r.req].subject, t))
         -> "gate-self-approval"
    [] OTHER -> "ok"

ReadDecision(w) ==
  /\ worker[w].pc = "gate-decision"
  /\ Judge(w, GateDecisionCode(worker[w].env, worker[w].policy, worker[w].roots),
           "append")
  /\ ReadOnly

CheckpointCode(r) ==
  CASE streams[r.stream].kind = None -> "checkpoint-stream-unknown"
    [] \A e \in Held(r.stream) : Env[e].seq # r.to \/ e # r.head
         -> "checkpoint-head-mismatch"
    [] OTHER -> "ok"

ReadCheckpoint(w) ==
  /\ worker[w].pc = "checkpoint"
  /\ Judge(w, CheckpointCode(Env[worker[w].env].proj), "append")
  /\ ReadOnly

--------------------------------------------------------------------------------
(* The transaction, and what its caller is told. *)

(* Mutant: the projection is written whatever the outcome says. *)
AppliedPlanOf(e, v) == [id |-> e, proj |-> Env[e].proj]

(* An envelope that says its action did not apply must not apply it; and only *)
(* a decision over a queued request is projected.                             *)
PlanOf(e, v) == LET r == Env[e].proj IN
  [id |-> e,
   proj |-> IF \/ v # None /\ Privileged(e) /\ ~Applied(e)
               \/ r.tag = "decision" /\ r.req \notin DOMAIN Queued
            THEN NoProj ELSE r]

AppendEnvelope(w) == LET e == worker[w].env IN
  /\ worker[w].pc = "append"
  /\ AppendPlan(PlanOf(e, worker[w].policy))
  /\ flagged' = IF worker[w].flag THEN flagged \cup {e} ELSE flagged
  /\ Answer(w)
  /\ UNCHANGED offered

(* Another handler appended this very envelope meanwhile: idempotent success. *)
AppendHeld(w) ==
  /\ worker[w].pc = "append"
  /\ worker[w].env \in envelopes
  /\ Answer(w)
  /\ ReadOnly

(* Mutant: the violation is recorded although the append was refused. *)
FlagRefused(w) == LET e == worker[w].env
                      code == RefusalCode(PlanOf(e, worker[w].policy)) IN
  /\ worker[w].pc = "append"
  /\ e \notin envelopes
  /\ code # "ok"
  /\ Refuse(w, code)
  /\ flagged' = IF worker[w].flag THEN flagged \cup {e} ELSE flagged
  /\ UNCHANGED <<storeVars, offered>>

AppendRefused(w) == LET e == worker[w].env
                        code == RefusalCode(PlanOf(e, worker[w].policy)) IN
  /\ worker[w].pc = "append"
  /\ e \notin envelopes
  /\ code # "ok"
  /\ Refuse(w, code)
  /\ ReadOnly

(* A refusal is recorded before it is answered; it stands, and is answered,   *)
(* also when the record cannot be written.                                    *)
Reject(w) ==
  /\ worker[w].pc = "reject"
  /\ RecordRejection(worker[w].env, worker[w].code)
  /\ Answer(w)
  /\ UNCHANGED <<flagged, offered>>

RejectUnrecorded(w) ==
  /\ worker[w].pc = "reject"
  /\ Answer(w)
  /\ ReadOnly

(* The database is unavailable at some read or at the commit, the connection  *)
(* drops, or the kernel restarts: nothing is recorded.                        *)
Unavailable(w) ==
  /\ worker[w].pc \notin {"idle", "reject"}
  /\ Answer(w)
  /\ ReadOnly

IngestInit == /\ StoreInit
              /\ worker = [w \in Worker |-> Idle]
              /\ flagged = {}
              /\ offered \in Offers

Step(w) ==
  \/ \E e \in offered : Submit(w, e)
  \/ AlreadyHeld(w) \/ Identify(w)
  \/ ReadPolicy(w) \/ ReadRoots(w) \/ EnterGenesis(w)
  \/ ReadMandate(w) \/ ReadSpend(w) \/ ReadDocuments(w)
  \/ ReadApprovers(w) \/ ReadGate(w)
  \/ ReadGrant(w) \/ ReadRevocation(w) \/ ReadDecision(w) \/ ReadCheckpoint(w)
  \/ AppendEnvelope(w) \/ AppendHeld(w) \/ AppendRefused(w)
  \/ Reject(w) \/ RejectUnrecorded(w) \/ Unavailable(w)

IngestNext == \E w \in Worker : Step(w)

IngestSpec == IngestInit /\ [][IngestNext]_ingestVars

--------------------------------------------------------------------------------
(* What no interleaving of handlers may break. *)

Stages == {"idle", "identify", "policy", "roots", "genesis", "mandate", "budget",
           "documents", "approvers", "gate", "grant", "revocation", "gate-decision",
           "checkpoint", "append", "reject"}

IngestTypeOK ==
  /\ TypeOK
  /\ flagged \subseteq envelopes /\ offered \in Offers
  /\ \A w \in Worker : /\ worker[w].pc \in Stages
                       /\ worker[w].pc # "idle" => worker[w].env \in Id
                       /\ worker[w].pc = "reject" => worker[w].code \in Reason

(* DEF-7: a refusal recorded as a replay is of bytes whose approval another   *)
(* held envelope carries; one envelope arriving twice is never called one.    *)
ReplayNamesAnother ==
  \A i \in DOMAIN rejections :
    rejections[i].reason = "gate-authorization-replayed" =>
      \A e \in Id : Env[e].raw = rejections[i].object =>
        \E f \in envelopes : /\ f # e /\ SpendsApproval(f)
                             /\ Env[f].auth.req = Env[e].auth.req

RootApproved(e) == /\ Env[e].auth # None
                   /\ Env[e].auth.verdict = "approve"
                   /\ Env[e].auth.by # Env[e].signer
                   /\ Env[e].auth.by \in Key
                   /\ roots[Env[e].auth.by].from <= Env[e].at

Published(e, tag) == /\ e \in envelopes /\ Env[e].proj.tag = tag
                     /\ Applied(e) \/ FirstPolicy(e)
                     /\ RootApproved(e)

(* DEF-9: whatever changes what the kernel will accept - a policy, a          *)
(* component, a root, a resume - was applied, under the signature of a key    *)
(* enrolled as root when it was emitted, by someone other than its author.    *)
(* (Of the first policy change the code does not ask what became of it.)      *)
PrivilegedRowsAreApproved ==
  /\ \A i \in DOMAIN policies : \E e \in envelopes :
       Published(e, "policy") /\ Env[e].proj.version = policies[i]
  /\ \A i \in DOMAIN manifests : \E e \in envelopes :
       /\ Published(e, "manifest")
       /\ Env[e].proj.name = manifests[i].name
       /\ Env[e].proj.version = manifests[i].version
  /\ \A k \in Key \ SeededRoots : roots[k].from # Never =>
       \E e \in envelopes : Published(e, "enroll") /\ Env[e].proj.key = k
  /\ \A k \in Key : roots[k].to # Never =>
       \E e \in envelopes : Published(e, "retire") /\ Env[e].proj.key = k
  /\ \A r \in resumes : \E e \in envelopes :
       Published(e, "resume") /\ Env[e].proj.stream = r.stream /\ Env[e].proj.seq = r.seq

(* A component is registered only on the strength of a run the store holds    *)
(* and a root approved.                                                       *)
RegisteredRanGreen ==
  \A i \in DOMAIN manifests : \E e \in envelopes :
    /\ Env[e].action = "kernel.conformance_run" /\ Applied(e)
    /\ Env[e].tested = <<manifests[i].name, manifests[i].version>>
    /\ RootApproved(e)

(* An applied effect that no policy version ever published would have let     *)
(* through is never held without either an approval or a violation flag,      *)
(* whichever version was in force when it was judged and when it was written. *)
NoSilentEffect ==
  \A e \in envelopes :
    /\ Env[e].kind = "effect" /\ Applied(e)
    /\ \A i \in DOMAIN policies :
         \/ Decision(e, policies[i]) # "allow"
         \/ Policy[policies[i]].class[Env[e].action] = Prohibited
    => e \in flagged \/ (Env[e].auth # None /\ Env[e].auth.verdict = "approve")

(* Whoever acts does so under a mandate chain the store still holds in full,  *)
(* each link valid at the moment of the act and the leaf held by the actor.   *)
ActsUnderMandate ==
  \A e \in envelopes :
    IsEffect(e) \/ Env[e].kind = "cognition" =>
      /\ Line[Env[e].mandate] \subseteq mandates
      /\ \A a \in Line[Env[e].mandate] : ValidAt(a, Env[e].at)
      /\ Doc[Env[e].mandate].grantee = Env[e].signer

(* Re-submitting an envelope the store holds is answered as success: ingest   *)
(* records no refusal of bytes it holds (§04 §3: "Ingest is idempotent by     *)
(* id(envelope)").                                                            *)
HeldIsNotRefused ==
  [][ rejections' # rejections =>
        \A e \in envelopes : Env[e].raw # rejections'[Len(rejections')].object
    ]_ingestVars

================================================================================

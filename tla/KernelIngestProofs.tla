--------------------------- MODULE KernelIngestProofs ---------------------------
(******************************************************************************)
(* What submissions keep, for any handlers, envelopes, mandates and policies  *)
(* and any order of the handlers' reads and transactions.                     *)
(******************************************************************************)
EXTENDS KernelIngest, KernelStoreProofs

Approver == {[key |-> k, subject |-> Subject[k]] : k \in Key}
            \cup {[key |-> Doc[m].grantee, subject |-> Doc[m].holder] : m \in Mandate}

Handler == [pc : Stages, env : Id \cup {None}, policy : DOMAIN Policy \cup {None},
            roots : SUBSET Key, keys : SUBSET Approver, flag : BOOLEAN,
            code : Reason \cup {None}]

(* A handler at work has an envelope, and one that refuses has a reason. *)
Fit(r) == /\ r \in Handler
          /\ r.pc # "idle" => r.env \in Id
          /\ r.pc = "reject" => r.code \in Reason

Handling == /\ IngestTypeOK
            /\ worker \in [Worker -> Handler]
            /\ policies \in Seq(DOMAIN Policy)

Becomes(w, r) == Fit(r) /\ worker' = [worker EXCEPT ![w] = r]

LEMMA HandlersFit ==
  ASSUME Handling, NEW w \in Worker
  PROVE  Fit(worker[w])
BY DEF Handling, IngestTypeOK, Fit

--------------------------------------------------------------------------------
(* The codes. *)

LEMMA CodesAreReasons ==
  /\ \A e, rts : MandateCode(e, rts) \in Codes \cup {"ok"}
  /\ \A e, rts : GrantCode(e, rts) \in Codes \cup {"ok"}
  /\ \A e, rts : DocumentCode(e, rts) \in Codes \cup {"ok"}
  /\ \A r, rts : RevocationCode(r, rts) \in Codes \cup {"ok"}
  /\ \A e, v, rts : GateDecisionCode(e, v, rts) \in Codes \cup {"ok"}
  /\ \A r : CheckpointCode(r) \in Codes \cup {"ok"}
<1>1. ASSUME NEW e, NEW rts PROVE MandateCode(e, rts) \in Codes \cup {"ok"}
  BY DEF MandateCode, Codes
<1>2. ASSUME NEW e, NEW rts PROVE GrantCode(e, rts) \in Codes \cup {"ok"}
  BY DEF GrantCode, Codes
<1>3. ASSUME NEW r PROVE RegistrationCode(r) \in Codes \cup {"ok"}
  BY DEF RegistrationCode, Codes
<1>4. ASSUME NEW e, NEW rts PROVE DocumentCode(e, rts) \in Codes \cup {"ok"}
  BY <1>3 DEF DocumentCode, Codes
<1>5. ASSUME NEW r, NEW rts PROVE RevocationCode(r, rts) \in Codes \cup {"ok"}
  BY DEF RevocationCode, Codes
<1>6. ASSUME NEW e, NEW v, NEW rts
      PROVE  GateDecisionCode(e, v, rts) \in Codes \cup {"ok"}
  BY DEF GateDecisionCode, Codes
<1>7. ASSUME NEW r PROVE CheckpointCode(r) \in Codes \cup {"ok"}
  BY DEF CheckpointCode, Codes
<1> QED
  BY <1>1, <1>2, <1>4, <1>5, <1>6, <1>7

LEMMA GateCodeIsReason ==
  ASSUME NEW e \in Id, NEW required, NEW approvers, NEW seen
  PROVE  GateCode(e, required, approvers, seen) \in Reason \cup {"ok"}
<1>1. /\ "gate-authorization-missing" \in Reason /\ "gate-self-approval" \in Reason
      /\ "gate-approver-not-permitted" \in Reason /\ "gate-denied" \in Reason
      /\ "gate-authorization-replayed" \in Reason
  BY IngestAssumption DEF Codes
<1>2. Env[e].auth = None \/ Env[e].auth.flaw = None \/ Env[e].auth.flaw \in Reason
  BY IngestAssumption
<1>3. CASE Env[e].auth = None
  BY <1>1, <1>3 DEF GateCode
<1>4. CASE Env[e].auth # None
  BY <1>1, <1>2, <1>4 DEF GateCode
<1> QED
  BY <1>3, <1>4

LEMMA RefusalIsReason ==
  ASSUME NEW p PROVE RefusalCode(p) \in Codes \cup {"ok"}
<1>1. PositionCode(p.id) \in Codes
  BY DEF PositionCode, Codes
<1>2. ProjectionCode(p.proj) \in Codes \cup {"ok"}
  BY DEF ProjectionCode, Codes
<1> QED
  BY <1>1, <1>2 DEF RefusalCode, Codes
--------------------------------------------------------------------------------
(* A handler's step. *)

LEMMA GoesOn ==
  ASSUME Handling, NEW w \in Worker, worker[w].pc # "idle",
         NEW pc \in Stages \ {"idle", "reject"}, Goto(w, pc)
  PROVE  Becomes(w, [worker[w] EXCEPT !.pc = pc])
BY HandlersFit DEF Fit, Handling, Handler, Goto, Becomes

LEMMA Refuses ==
  ASSUME Handling, NEW w \in Worker, worker[w].pc # "idle",
         NEW code \in Reason, Refuse(w, code)
  PROVE  Becomes(w, [worker[w] EXCEPT !.pc = "reject", !.code = code])
BY HandlersFit DEF Fit, Handling, Handler, Refuse, Becomes, Stages

LEMMA Answers ==
  ASSUME NEW w \in Worker, Answer(w)
  PROVE  Becomes(w, Idle)
BY DEF Answer, Becomes, Idle, Fit, Handler, Stages

LEMMA Judges ==
  ASSUME Handling, NEW w \in Worker, worker[w].pc # "idle",
         NEW pc \in Stages \ {"idle", "reject"}, NEW code \in Reason \cup {"ok"},
         Judge(w, code, pc)
  PROVE  \E r : Becomes(w, r)
BY GoesOn, Refuses DEF Judge

LEMMA FirstReadIsStage ==
  ASSUME NEW e \in Id
  PROVE  FirstRead(e) \in Stages \ {"idle", "reject"}
<1>1. Env[e].kind \in Kinds
  BY IngestAssumption
<1> QED
  BY <1>1 DEF FirstRead, IsEffect, Kinds, Stages

LEMMA RootsAreKeys ==
  ASSUME NEW t PROVE RootsAt(t) \subseteq Key /\ RootApprovers(t) \subseteq Approver
BY DEF RootsAt, RootApprovers, Approver

LEMMA ApproversTyped ==
  ASSUME Handling, NEW v, NEW t, NEW action
  PROVE  NamedApprovers(v, t, action) \subseteq Approver
<1>1. mandates \subseteq Mandate
  BY DEF Handling, IngestTypeOK, TypeOK
<1> QED
  BY <1>1, RootsAreKeys DEF NamedApprovers, Approver

(* The reads that keep something. *)
LEMMA KeepingReadsFit ==
  ASSUME Handling, NEW w \in Worker,
         \/ \E e \in offered : Submit(w, e)
         \/ ReadPolicy(w) \/ ReadRoots(w) \/ ReadMandate(w) \/ ReadSpend(w)
         \/ ReadApprovers(w)
  PROVE  \E r : Becomes(w, r)
<1> DEFINE h == worker[w]
           e == h.env
           v == h.policy
<1>0. Fit(h) /\ h \in Handler /\ worker \in [Worker -> Handler]
  BY HandlersFit DEF Fit, Handling
<1>1. ASSUME NEW x \in offered, Submit(w, x) PROVE \E r : Becomes(w, r)
  <2>1. x \in Id
    BY IngestAssumption DEF Handling, IngestTypeOK
  <2> QED
    BY <1>0, <1>1, <2>1 DEF Submit, Becomes, Fit, Handler, Stages
<1>2. CASE ReadPolicy(w)
  <2> DEFINE new == IF policies = <<>> THEN None ELSE policies[Len(policies)]
  <2>1. new \in DOMAIN Policy \cup {None}
    BY DEF Handling
  <2>2. worker' = [worker EXCEPT ![w] = [h EXCEPT !.pc = "roots", !.policy = new]]
    BY <1>0, <1>2 DEF ReadPolicy, Handler
  <2>3. Fit([h EXCEPT !.pc = "roots", !.policy = new])
    BY <1>0, <1>2, <2>1 DEF ReadPolicy, Fit, Handler, Stages
  <2> QED
    BY <2>2, <2>3 DEF Becomes
<1>3. CASE ReadRoots(w)
  <2> DEFINE pc == IF h.policy = None THEN "genesis" ELSE FirstRead(e)
  <2>1. /\ pc \in Stages \ {"idle", "reject"} /\ RootsAt(Env[e].at) \in SUBSET Key
        /\ e \in Id
    BY <1>0, <1>3, FirstReadIsStage, RootsAreKeys DEF ReadRoots, Fit, Stages
  <2>2. worker' = [worker EXCEPT ![w] = [h EXCEPT !.pc = pc, !.roots = RootsAt(Env[e].at)]]
    BY <1>0, <1>3 DEF ReadRoots, Handler
  <2>3. Fit([h EXCEPT !.pc = pc, !.roots = RootsAt(Env[e].at)])
    BY <1>0, <2>1 DEF Fit, Handler
  <2> QED
    BY <2>2, <2>3 DEF Becomes
<1>4. CASE ReadMandate(w)
  <2>1. h.pc # "idle" /\ e \in Id
    BY <1>0, <1>4 DEF ReadMandate, Fit
  <2>2. CASE \E code \in Reason : Refuse(w, code)
    BY <2>1, <2>2, Refuses
  <2>3. CASE ~\E code \in Reason : Refuse(w, code)
    <3> DEFINE pc == IF v = None THEN "gate" ELSE "budget"
               flag == /\ v # None /\ IsEffect(e) /\ Applied(e)
                       /\ Policy[v].class[Env[e].action] = Prohibited
    <3>1. MandateCode(e, h.roots) \in Reason \cup {"ok"}
          /\ "policy-component-override-attempt" \in Reason
      BY CodesAreReasons, IngestAssumption DEF Codes
    <3>2. worker' = [worker EXCEPT ![w].pc = pc, ![w].flag = flag]
      BY <1>4, <2>3, <3>1 DEF ReadMandate
    <3>3. worker' = [worker EXCEPT ![w] = [h EXCEPT !.pc = pc, !.flag = flag]]
      BY <1>0, <3>2 DEF Handler
    <3>4. Fit([h EXCEPT !.pc = pc, !.flag = flag])
      BY <1>0, <2>1 DEF Fit, Handler, Stages
    <3> QED
      BY <3>3, <3>4 DEF Becomes
  <2> QED
    BY <2>2, <2>3
<1>5. CASE ReadSpend(w)
  <2> DEFINE pc == IF IsEffect(e) THEN "documents" ELSE "append"
             flag == h.flag \/ OverBudget(e)
  <2>1. h.pc # "idle" /\ e \in Id
    BY <1>0, <1>5 DEF ReadSpend, Fit
  <2>2. worker' = [worker EXCEPT ![w] = [h EXCEPT !.pc = pc, !.flag = flag]]
    BY <1>0, <1>5 DEF ReadSpend, Handler
  <2>3. Fit([h EXCEPT !.pc = pc, !.flag = flag])
    BY <1>0, <2>1 DEF Fit, Handler, Stages
  <2> QED
    BY <2>2, <2>3 DEF Becomes
<1>6. CASE ReadApprovers(w)
  <2> DEFINE keys == IF Privileged(e) THEN RootApprovers(Env[e].at)
                     ELSE IF Decision(e, v) = "gate"
                          THEN NamedApprovers(v, Env[e].at, Env[e].action)
                          ELSE {}
             flag == h.flag \/ (Decision(e, v) = "deny" /\ Applied(e))
  <2>1. h.pc # "idle" /\ e \in Id /\ keys \in SUBSET Approver
    BY <1>0, <1>6, RootsAreKeys, ApproversTyped DEF ReadApprovers, Fit
  <2>2. worker' = [worker EXCEPT ![w] = [h EXCEPT !.pc = "gate", !.keys = keys, !.flag = flag]]
    BY <1>0, <1>6 DEF ReadApprovers, Handler
  <2>3. Fit([h EXCEPT !.pc = "gate", !.keys = keys, !.flag = flag])
    BY <1>0, <2>1 DEF Fit, Handler, Stages
  <2> QED
    BY <2>2, <2>3 DEF Becomes
<1> QED
  BY <1>1, <1>2, <1>3, <1>4, <1>5, <1>6

(* The reads that only judge. *)
LEMMA JudgingReadsFit ==
  ASSUME Handling, NEW w \in Worker,
         \/ Identify(w) \/ EnterGenesis(w) \/ ReadDocuments(w) \/ ReadGate(w)
         \/ ReadGrant(w) \/ ReadRevocation(w) \/ ReadDecision(w) \/ ReadCheckpoint(w)
  PROVE  \E r : Becomes(w, r)
<1> DEFINE h == worker[w]
           e == h.env
           v == h.policy
           Going == Stages \ {"idle", "reject"}
<1>0. h.pc # "idle" /\ e \in Id
  BY HandlersFit DEF Fit, Identify, EnterGenesis, ReadDocuments, ReadGate, ReadGrant,
                     ReadRevocation, ReadDecision, ReadCheckpoint
<1>1. {"policy", "append", "documents", "mandate", "approvers"} \subseteq Going
  BY DEF Stages
<1>2. /\ Codes \subseteq Reason /\ Env[e].flaw \in Reason \cup {None}
      /\ "envelope-emitted-in-future" \in Reason
      /\ "policy-component-override-attempt" \in Reason
      /\ "policy-not-published" \in Reason
  BY <1>0, IngestAssumption DEF Codes
<1>3. CASE Identify(w)
  <2>1. CASE Env[e].flaw # None
    BY <1>0, <1>2, <1>3, <2>1, Refuses DEF Identify
  <2>2. CASE Env[e].flaw = None
    <3>1. PICK t \in Received :
            Judge(w, IF Env[e].at > t + Skew THEN "envelope-emitted-in-future" ELSE "ok",
                  "policy")
      BY <1>3, <2>2 DEF Identify
    <3> QED
      BY <1>0, <1>1, <1>2, <3>1, Judges
  <2> QED
    BY <2>1, <2>2
<1>4. CASE EnterGenesis(w)
  <2>1. \/ Judge(w, GrantCode(e, h.roots), "append")
        \/ Judge(w, IF Env[e].class = Consequential THEN "ok"
                    ELSE "policy-component-override-attempt", "documents")
        \/ Refuse(w, "policy-not-published")
    BY <1>4 DEF EnterGenesis
  <2> QED
    BY <1>0, <1>1, <1>2, <2>1, CodesAreReasons, Judges, Refuses
<1>5. CASE ReadDocuments(w)
  BY <1>0, <1>1, <1>2, <1>5, CodesAreReasons, Judges DEF ReadDocuments
<1>6. CASE ReadGate(w)
  <2> DEFINE code == IF v = None
                     THEN GateCode(e, TRUE, RootApprovers(Env[e].at), FALSE)
                     ELSE GateCode(e, RequiresGate(e, v), h.keys,
                                   Env[e].auth # None /\ SpentByAnother(e))
             told == IF v # None /\ code = "gate-denied" /\ ~Applied(e) THEN "ok" ELSE code
  <2>1. told \in Reason \cup {"ok"}
    BY <1>0, GateCodeIsReason
  <2>2. Judge(w, told, "append")
    BY <1>6 DEF ReadGate
  <2> HIDE DEF told
  <2> QED
    BY <1>0, <1>1, <2>1, <2>2, Judges
<1>7. CASE ReadGrant(w) \/ ReadRevocation(w) \/ ReadDecision(w) \/ ReadCheckpoint(w)
  <2>1. \/ Judge(w, GrantCode(e, h.roots), "append")
        \/ Judge(w, RevocationCode(Env[e].proj, h.roots), "append")
        \/ Judge(w, GateDecisionCode(e, v, h.roots), "append")
        \/ Judge(w, CheckpointCode(Env[e].proj), "append")
    BY <1>7 DEF ReadGrant, ReadRevocation, ReadDecision, ReadCheckpoint
  <2> QED
    BY <1>0, <1>1, <1>2, <2>1, CodesAreReasons, Judges
<1> QED
  BY <1>3, <1>4, <1>5, <1>6, <1>7

LEMMA EndsFit ==
  ASSUME Handling, NEW w \in Worker,
         \/ AlreadyHeld(w) \/ AppendEnvelope(w) \/ AppendHeld(w) \/ AppendRefused(w)
         \/ Reject(w) \/ RejectUnrecorded(w) \/ Unavailable(w)
  PROVE  \E r : Becomes(w, r)
<1>1. CASE AppendRefused(w)
  <2>1. RefusalCode(PlanOf(worker[w].env, worker[w].policy)) \in Reason
    BY <1>1, RefusalIsReason, IngestAssumption DEF AppendRefused
  <2> QED
    BY <1>1, <2>1, Refuses DEF AppendRefused
<1>2. CASE ~AppendRefused(w)
  <2>1. Answer(w)
    BY <1>2 DEF AlreadyHeld, AppendEnvelope, AppendHeld, Reject, RejectUnrecorded,
                Unavailable
  <2> QED
    BY <2>1, Answers
<1> QED
  BY <1>1, <1>2

LEMMA StepsFit ==
  ASSUME Handling, NEW w \in Worker, Step(w)
  PROVE  \E r : Becomes(w, r)
BY KeepingReadsFit, JudgingReadsFit, EndsFit DEF Step

(* Only a transaction touches the store. *)
LEMMA ReadsOnlyRead ==
  ASSUME NEW w \in Worker, Step(w)
  PROVE  AppendEnvelope(w) \/ Reject(w) \/ UNCHANGED <<storeVars, flagged, offered>>
BY DEF Step, Submit, AlreadyHeld, Identify, ReadPolicy, ReadRoots, EnterGenesis,
       ReadMandate, ReadSpend, ReadDocuments, ReadApprovers, ReadGate, ReadGrant,
       ReadRevocation, ReadDecision, ReadCheckpoint, AppendHeld, AppendRefused,
       RejectUnrecorded, Unavailable, ReadOnly

LEMMA PlansArePlans ==
  ASSUME NEW e \in Id, NEW v
  PROVE  PlanOf(e, v) \in Plan /\ PlanOf(e, v).id = e
BY DEF PlanOf, Plan

(* Whatever the handlers do is a step of the store or leaves it alone. *)
LEMMA StepsOfTheStore ==
  ASSUME Handling, [IngestNext]_ingestVars
  PROVE  [StoreNext]_storeVars
<1>1. ASSUME NEW w \in Worker, AppendEnvelope(w) PROVE StoreNext
  <2>1. worker[w].env \in Id
    BY <1>1, HandlersFit DEF AppendEnvelope, Fit
  <2> QED
    BY <1>1, <2>1, PlansArePlans DEF AppendEnvelope, StoreNext
<1>2. ASSUME NEW w \in Worker, Reject(w) PROVE StoreNext
  <2>1. worker[w].env \in Id /\ worker[w].code \in Reason
    BY <1>2, HandlersFit DEF Reject, Fit
  <2> QED
    BY <1>2, <2>1 DEF Reject, StoreNext
<1> QED
  BY <1>1, <1>2, ReadsOnlyRead DEF IngestNext, ingestVars

LEMMA HandlingStarts == IngestInit => Handling
<1> SUFFICES ASSUME IngestInit PROVE Handling
  OBVIOUS
<1>1. TypeOK /\ envelopes = {} /\ policies = <<>>
  BY InitTyped DEF IngestInit, StoreInit
<1>2. Idle \in Handler
  BY DEF Idle, Handler, Stages
<1>3. worker \in [Worker -> Handler] /\ \A w \in Worker : worker[w] = Idle
  BY <1>2 DEF IngestInit
<1>4. flagged \subseteq envelopes /\ offered \in Offers
  BY DEF IngestInit
<1> QED
  BY <1>1, <1>3, <1>4 DEF Handling, IngestTypeOK, Idle, Stages

LEMMA HandlersStayFit ==
  ASSUME Handling, [IngestNext]_ingestVars
  PROVE  worker' \in [Worker -> Handler] /\ \A w \in Worker : Fit(worker'[w])
<1>1. ASSUME NEW w \in Worker, NEW r, Becomes(w, r)
      PROVE  worker' \in [Worker -> Handler] /\ \A x \in Worker : Fit(worker'[x])
  BY <1>1, HandlersFit DEF Becomes, Fit, Handling
<1>2. CASE UNCHANGED worker
  BY <1>2, HandlersFit DEF Handling
<1> QED
  BY <1>1, <1>2, StepsFit DEF IngestNext, ingestVars

LEMMA PoliciesTyped ==
  ASSUME Handling, [IngestNext]_ingestVars
  PROVE  policies' \in Seq(DOMAIN Policy)
<1>1. ASSUME NEW p \in Plan, AppendPlan(p)
      PROVE  policies' \in Seq(DOMAIN Policy)
  <2>1. p.id \in Id /\ (p.proj = NoProj \/ p.proj = Env[p.id].proj)
    BY <1>1, Accepted DEF AppendPlan
  <2>2. policies' = IF p.proj.tag = "policy" THEN Append(policies, p.proj.version)
                    ELSE policies
    BY <1>1 DEF AppendPlan, WriteProjection
  <2>3. p.proj.tag = "policy" => p.proj.version \in DOMAIN Policy
    BY <2>1, IngestAssumption DEF NoProj
  <2>4. policies \in Seq(DOMAIN Policy)
    BY DEF Handling
  <2>5. CASE p.proj.tag = "policy"
    <3> DEFINE v == p.proj.version
    <3>1. v \in DOMAIN Policy /\ policies' = Append(policies, v)
      BY <2>2, <2>3, <2>5
    <3> HIDE DEF v
    <3> QED
      BY <2>4, <3>1
  <2> QED
    BY <2>2, <2>4, <2>5
<1>2. CASE UNCHANGED policies
  BY <1>2 DEF Handling
<1> QED
  BY <1>1, <1>2, StepsOfTheStore
  DEF StoreNext, storeVars, tables, RecordRejection, DecayPayloads, RebuildSpend

LEMMA HandlingKept == Handling /\ [IngestNext]_ingestVars => Handling'
<1> SUFFICES ASSUME Handling, [IngestNext]_ingestVars PROVE Handling'
  OBVIOUS
<1>1. TypeOK'
  BY NextTyped, StepsOfTheStore DEF Handling, IngestTypeOK
<1>2. (flagged \subseteq envelopes /\ offered \in Offers)'
  <2>1. flagged \subseteq envelopes /\ offered \in Offers
    BY DEF Handling, IngestTypeOK
  <2>2. ASSUME NEW w \in Worker, AppendEnvelope(w)
        PROVE  (flagged \subseteq envelopes /\ offered \in Offers)'
    <3>1. envelopes' = envelopes \cup {worker[w].env}
      BY <2>2 DEF AppendEnvelope, AppendPlan, PlanOf
    <3> QED
      BY <2>1, <2>2, <3>1 DEF AppendEnvelope
  <2>3. ASSUME NEW w \in Worker, Reject(w)
        PROVE  UNCHANGED <<envelopes, flagged, offered>>
    BY <2>3 DEF Reject, RecordRejection, tables
  <2> QED
    BY <2>1, <2>2, <2>3, ReadsOnlyRead DEF IngestNext, ingestVars, storeVars, tables
<1>3. worker' \in [Worker -> Handler] /\ \A w \in Worker : Fit(worker'[w])
  BY HandlersStayFit
<1>4. \A w \in Worker : worker'[w].pc \in Stages
  BY <1>3 DEF Handler
<1>5. IngestTypeOK'
  BY <1>1, <1>2, <1>3, <1>4 DEF IngestTypeOK, Fit
<1> QED
  BY <1>3, <1>5, PoliciesTyped DEF Handling

--------------------------------------------------------------------------------
(* Every handler is at a stage of the judgement, with the envelope and, when  *)
(* it refuses, the registered reason that stage needs; only held envelopes    *)
(* are flagged (ingest.rs, validate; store.rs, append).                       *)
THEOREM IngestTyped == IngestSpec => []IngestTypeOK
<1>1. Handling => IngestTypeOK
  BY DEF Handling
<1> QED
  BY <1>1, HandlingStarts, HandlingKept, PTL DEF IngestSpec

(* The pipeline adds nothing to what the store allows: whatever handlers      *)
(* judge, on however stale reads, what they do to the database is what the    *)
(* store alone could do, so all that is proved of the store holds here.       *)
THEOREM IngestKeepsStore == IngestSpec => StoreSpec
<1>1. IngestInit => StoreInit
  BY DEF IngestInit
<1>2. Handling /\ [IngestNext]_ingestVars => [StoreNext]_storeVars
  BY StepsOfTheStore
<1> QED
  BY <1>1, <1>2, HandlingStarts, HandlingKept, PTL DEF IngestSpec, StoreSpec

(* So the service, pipeline and store, implements the abstract audit log, and *)
(* an approval backs one envelope whatever handlers read before it was spent. *)
THEOREM IngestImplementsAuditLog ==
  IngestSpec => ImplementsAuditLog /\ []SingleUse
BY IngestKeepsStore, StoreImplementsAuditLog, ApprovalsUsedOnce, PTL

--------------------------------------------------------------------------------
(* Replays. *)

Replay == "gate-authorization-replayed"

AnotherSpent(e) == \E f \in envelopes : /\ f # e /\ SpendsApproval(f)
                                         /\ Env[f].auth.req = Env[e].auth.req

(* A row of `uses' names an envelope that used the approval. *)
UsesSpent == \A u \in uses : /\ u.id \in envelopes /\ SpendsApproval(u.id)
                              /\ Env[u.id].auth.req = u.req

Accuses(r) == r.pc = "reject" /\ r.code = Replay

Replaying == /\ Handling
             /\ UsesSpent
             /\ \A w \in Worker : Accuses(worker[w]) => AnotherSpent(worker[w].env)
             /\ ReplayNamesAnother

(* Only the gate and the transaction call anything a replay. *)
LEMMA OthersNeverAccuse ==
  /\ \A e, rts : MandateCode(e, rts) # Replay
  /\ \A e, rts : GrantCode(e, rts) # Replay
  /\ \A e, rts : DocumentCode(e, rts) # Replay
  /\ \A r, rts : RevocationCode(r, rts) # Replay
  /\ \A e, v, rts : GateDecisionCode(e, v, rts) # Replay
  /\ \A r : CheckpointCode(r) # Replay
<1>1. ASSUME NEW e, NEW rts PROVE MandateCode(e, rts) # Replay
  BY DEF MandateCode, Replay
<1>2. ASSUME NEW e, NEW rts PROVE GrantCode(e, rts) # Replay
  BY DEF GrantCode, Replay
<1>3. ASSUME NEW r PROVE RegistrationCode(r) # Replay
  BY DEF RegistrationCode, Replay
<1>4. ASSUME NEW e, NEW rts PROVE DocumentCode(e, rts) # Replay
  BY <1>3 DEF DocumentCode, Replay
<1>5. ASSUME NEW r, NEW rts PROVE RevocationCode(r, rts) # Replay
  BY DEF RevocationCode, Replay
<1>6. ASSUME NEW e, NEW v, NEW rts PROVE GateDecisionCode(e, v, rts) # Replay
  BY DEF GateDecisionCode, Replay
<1>7. ASSUME NEW r PROVE CheckpointCode(r) # Replay
  BY DEF CheckpointCode, Replay
<1> QED
  BY <1>1, <1>2, <1>4, <1>5, <1>6, <1>7

LEMMA GateAccusesSpent ==
  ASSUME NEW e \in Id, NEW required, NEW approvers, NEW seen,
         GateCode(e, required, approvers, seen) = Replay
  PROVE  seen
<1>1. Env[e].auth = None \/ Env[e].auth.flaw # Replay
  BY IngestAssumption DEF Replay
<1> QED
  BY <1>1 DEF GateCode, Replay

LEMMA AppendAccusesSpent ==
  ASSUME NEW p, RefusalCode(p) = Replay
  PROVE  Replayed(p.id)
<1>1. PositionCode(p.id) # Replay
  BY DEF PositionCode, Replay
<1>2. ProjectionCode(p.proj) # Replay
  BY DEF ProjectionCode, Replay
<1> QED
  BY <1>1, <1>2 DEF RefusalCode, Replay

LEMMA UsersSpent ==
  ASSUME UsesSpent, NEW e \in Id,
         SpentByAnother(e) \/ (Replayed(e) /\ e \notin envelopes)
  PROVE  AnotherSpent(e)
BY DEF UsesSpent, SpentByAnother, Replayed, AnotherSpent

LEMMA JudgesOtherwise ==
  ASSUME Handling, NEW w \in Worker, NEW pc, NEW code, pc # "reject", code # Replay,
         Judge(w, code, pc) \/ Refuse(w, code) \/ Goto(w, pc)
  PROVE  ~Accuses(worker'[w])
<1>1. worker[w] \in Handler /\ worker \in [Worker -> Handler]
  BY DEF Handling
<1>2. CASE Goto(w, pc)
  BY <1>1, <1>2 DEF Goto, Accuses, Handler
<1>3. CASE Refuse(w, code)
  BY <1>1, <1>3 DEF Refuse, Accuses, Handler
<1> QED
  BY <1>2, <1>3 DEF Judge

(* Who is called a replay has found the approval spent by another. *)
LEMMA KeepingNeverAccuses ==
  ASSUME Handling, NEW w \in Worker,
         \/ \E e \in offered : Submit(w, e)
         \/ ReadPolicy(w) \/ ReadRoots(w) \/ ReadMandate(w) \/ ReadSpend(w)
         \/ ReadApprovers(w)
  PROVE  ~Accuses(worker'[w])
<1>0. worker[w] \in Handler /\ worker \in [Worker -> Handler] /\ Fit(worker[w])
  BY HandlersFit DEF Handling
<1>1. CASE (\E e \in offered : Submit(w, e)) \/ ReadPolicy(w) \/ ReadSpend(w)
           \/ ReadApprovers(w)
  BY <1>0, <1>1 DEF Submit, ReadPolicy, ReadSpend, ReadApprovers, Accuses, Handler
<1>2. CASE ReadRoots(w)
  <2>1. FirstRead(worker[w].env) # "reject"
    BY <1>0, <1>2, FirstReadIsStage DEF ReadRoots, Fit
  <2> QED
    BY <1>0, <1>2, <2>1 DEF ReadRoots, Accuses, Handler
<1>3. CASE ReadMandate(w)
  <2> DEFINE code == MandateCode(worker[w].env, worker[w].roots)
  <2>1. code # Replay /\ "policy-component-override-attempt" # Replay
    BY OthersNeverAccuse DEF Replay
  <2>2. CASE Refuse(w, "policy-component-override-attempt") \/ Refuse(w, code)
    <3> HIDE DEF code
    <3> QED
      BY <1>0, <2>1, <2>2 DEF Refuse, Accuses, Handler
  <2>3. CASE ~(Refuse(w, "policy-component-override-attempt") \/ Refuse(w, code))
    BY <1>0, <1>3, <2>3 DEF ReadMandate, Accuses, Handler
  <2> QED
    BY <2>2, <2>3
<1> QED
  BY <1>1, <1>2, <1>3

LEMMA AccusationsHold ==
  ASSUME Replaying, NEW w \in Worker, Step(w), Accuses(worker'[w])
  PROVE  AnotherSpent(worker[w].env) /\ worker'[w].env = worker[w].env
<1> DEFINE h == worker[w]
           e == h.env
           v == h.policy
<1>0. /\ Handling /\ UsesSpent /\ Fit(h)
      /\ h \in Handler /\ worker \in [Worker -> Handler]
  BY HandlersFit DEF Replaying, Handling
<1>1. ~((\E x \in offered : Submit(w, x)) \/ ReadPolicy(w) \/ ReadRoots(w)
        \/ ReadMandate(w) \/ ReadSpend(w) \/ ReadApprovers(w))
  BY <1>0, KeepingNeverAccuses
<1>2. ~Identify(w)
  <2>1. SUFFICES ASSUME Identify(w) PROVE FALSE
    OBVIOUS
  <2>2. e \in Id /\ Env[e].flaw # Replay /\ "envelope-emitted-in-future" # Replay
    BY <1>0, <2>1, IngestAssumption DEF Identify, Fit, Replay
  <2>3. CASE Env[e].flaw # None
    BY <1>0, <2>1, <2>2, <2>3, JudgesOtherwise DEF Identify
  <2>4. CASE Env[e].flaw = None
    <3>1. PICK t \in Received :
            Judge(w, IF Env[e].at > t + Skew THEN "envelope-emitted-in-future" ELSE "ok",
                  "policy")
      BY <2>1, <2>4 DEF Identify
    <3>2. "ok" # Replay
      BY DEF Replay
    <3> QED
      BY <1>0, <2>2, <3>1, <3>2, JudgesOtherwise
  <2> QED
    BY <2>3, <2>4
<1>3. ~(EnterGenesis(w) \/ ReadDocuments(w) \/ ReadGrant(w) \/ ReadRevocation(w)
        \/ ReadDecision(w) \/ ReadCheckpoint(w))
  <2>1. SUFFICES ASSUME EnterGenesis(w) \/ ReadDocuments(w) \/ ReadGrant(w)
                        \/ ReadRevocation(w) \/ ReadDecision(w) \/ ReadCheckpoint(w)
                 PROVE  FALSE
    OBVIOUS
  <2>2. PICK code, pc : /\ code # Replay /\ pc # "reject"
                        /\ Judge(w, code, pc) \/ Refuse(w, code)
    <3>1. "ok" # Replay /\ "policy-not-published" # Replay
          /\ "policy-component-override-attempt" # Replay
      BY DEF Replay
    <3>2. \/ Judge(w, GrantCode(e, h.roots), "append")
          \/ Judge(w, IF Env[e].class = Consequential THEN "ok"
                      ELSE "policy-component-override-attempt", "documents")
          \/ Refuse(w, "policy-not-published")
          \/ Judge(w, DocumentCode(e, h.roots), IF v = None THEN "mandate" ELSE "approvers")
          \/ Judge(w, RevocationCode(Env[e].proj, h.roots), "append")
          \/ Judge(w, GateDecisionCode(e, v, h.roots), "append")
          \/ Judge(w, CheckpointCode(Env[e].proj), "append")
      BY <2>1 DEF EnterGenesis, ReadDocuments, ReadGrant, ReadRevocation, ReadDecision,
                  ReadCheckpoint
    <3> QED
      BY <3>1, <3>2, OthersNeverAccuse
  <2> QED
    BY <1>0, <2>2, JudgesOtherwise
<1>4. CASE ReadGate(w)
  <2> DEFINE seen == Env[e].auth # None /\ SpentByAnother(e)
             genesis == GateCode(e, TRUE, RootApprovers(Env[e].at), FALSE)
             later == GateCode(e, RequiresGate(e, v), h.keys, seen)
             code == IF v = None THEN genesis ELSE later
             told == IF v # None /\ code = "gate-denied" /\ ~Applied(e) THEN "ok" ELSE code
  <2>1. e \in Id /\ h.pc # "idle" /\ Judge(w, told, "append")
    BY <1>0, <1>4 DEF ReadGate, Fit
  <2>2. told = Replay
    <3> HIDE DEF told
    <3> QED
      BY <1>0, <2>1, JudgesOtherwise
  <2>3. "ok" # Replay /\ genesis # Replay
    BY <2>1, GateAccusesSpent DEF Replay
  <2>4. later = Replay
    <3> HIDE DEF genesis, later
    <3> QED
      BY <2>2, <2>3
  <2>5. SpentByAnother(e)
    BY <2>1, <2>4, GateAccusesSpent
  <2>6. Refuse(w, told)
    BY <2>1, <2>2, <2>3 DEF Judge
  <2> QED
    BY <1>0, <2>1, <2>5, <2>6, UsersSpent DEF Refuse, Handler
<1>5. CASE AppendRefused(w)
  <2> DEFINE code == RefusalCode(PlanOf(e, v))
  <2>1. e \in Id /\ e \notin envelopes /\ Refuse(w, code)
    BY <1>0, <1>5 DEF AppendRefused, Fit
  <2>2. code = Replay
    <3> HIDE DEF code
    <3> QED
      BY <1>0, <2>1 DEF Refuse, Accuses, Handler
  <2>3. Replayed(e)
    BY <2>1, <2>2, AppendAccusesSpent, PlansArePlans
  <2> QED
    BY <1>0, <2>1, <2>3, UsersSpent DEF Refuse, Handler
<1>6. CASE AlreadyHeld(w) \/ AppendEnvelope(w) \/ AppendHeld(w) \/ Reject(w)
           \/ RejectUnrecorded(w) \/ Unavailable(w)
  BY <1>0, <1>6 DEF AlreadyHeld, AppendEnvelope, AppendHeld, Reject, RejectUnrecorded,
                    Unavailable, Answer, Accuses, Idle
<1> QED
  BY <1>1, <1>2, <1>3, <1>4, <1>5, <1>6 DEF Step

LEMMA SpentStaysSpent ==
  ASSUME NEW e, AnotherSpent(e), envelopes \subseteq envelopes'
  PROVE  AnotherSpent(e)'
BY DEF AnotherSpent, SpendsApproval, FirstPolicy, Applied

LEMMA HeldStaysHeld ==
  ASSUME [StoreNext]_storeVars
  PROVE  envelopes \subseteq envelopes' /\ mandates \subseteq mandates'
BY DEF StoreNext, AppendPlan, WriteProjection, RecordRejection, DecayPayloads, RebuildSpend,
       storeVars, tables

LEMMA UsesStaySpent ==
  ASSUME UsesSpent, [StoreNext]_storeVars
  PROVE  UsesSpent'
<1>1. ASSUME NEW p \in Plan, AppendPlan(p) PROVE UsesSpent'
  BY <1>1 DEF AppendPlan, RecordUse, UsesSpent, SpendsApproval, FirstPolicy, Applied
<1>2. CASE UNCHANGED <<envelopes, uses>>
  BY <1>2 DEF UsesSpent, SpendsApproval, FirstPolicy, Applied
<1> QED
  BY <1>1, <1>2, OnlyAppendChains DEF chainTables

LEMMA ReplayingKept == Replaying /\ [IngestNext]_ingestVars => Replaying'
<1> SUFFICES ASSUME Replaying, [IngestNext]_ingestVars PROVE Replaying'
  OBVIOUS
<1>1. /\ Handling /\ Handling' /\ UsesSpent /\ [StoreNext]_storeVars
      /\ envelopes \subseteq envelopes'
  BY HandlingKept, StepsOfTheStore, HeldStaysHeld DEF Replaying
<1>2. UsesSpent'
  BY <1>1, UsesStaySpent
<1>3. (\A w \in Worker : Accuses(worker[w]) => AnotherSpent(worker[w].env))'
  <2> SUFFICES ASSUME NEW x \in Worker, Accuses(worker[x])'
               PROVE  AnotherSpent(worker[x].env)'
    OBVIOUS
  <2>0. PICK e : e = worker'[x].env
    OBVIOUS
  <2>1. CASE worker'[x] = worker[x]
    <3>1. AnotherSpent(e)
      BY <2>0, <2>1 DEF Replaying, Accuses
    <3> QED
      BY <1>1, <2>0, <3>1, SpentStaysSpent
  <2>2. CASE worker'[x] # worker[x]
    <3>1. PICK w \in Worker : Step(w)
      BY <2>2 DEF IngestNext, ingestVars
    <3>2. PICK r : worker' = [worker EXCEPT ![w] = r]
      BY <1>1, <3>1, StepsFit DEF Becomes
    <3>3. x = w
      BY <1>1, <2>2, <3>2 DEF Handling
    <3>4. AnotherSpent(e)
      BY <2>0, <3>1, <3>3, AccusationsHold DEF Accuses
    <3> QED
      BY <1>1, <2>0, <3>4, SpentStaysSpent
  <2> QED
    BY <2>1, <2>2
<1>4. ReplayNamesAnother'
  <2> SUFFICES ASSUME NEW i \in DOMAIN rejections', rejections'[i].reason = Replay,
                      NEW e \in Id, Env[e].raw = rejections'[i].object
               PROVE  AnotherSpent(e)'
    BY DEF ReplayNamesAnother, Replay, AnotherSpent
  <2>1. CASE i \in DOMAIN rejections /\ rejections'[i] = rejections[i]
    <3>1. AnotherSpent(e)
      BY <2>1 DEF Replaying, ReplayNamesAnother, Replay, AnotherSpent
    <3> QED
      BY <1>1, <3>1, SpentStaysSpent
  <2>2. ASSUME NEW w \in Worker, Reject(w) PROVE AnotherSpent(e)'
    <3> DEFINE h == worker[w]
               row == [reason |-> h.code, object |-> Env[h.env].raw,
                       stream |-> Env[h.env].stream, seq |-> Env[h.env].seq]
    <3>1. rejections' = Append(rejections, row) /\ h.pc = "reject" /\ h.env \in Id
      BY <1>1, <2>2, HandlersFit DEF Reject, RecordRejection, Fit
    <3>2. /\ Len(rejections) \in Nat /\ DOMAIN rejections = 1..Len(rejections)
          /\ DOMAIN rejections' = 1..(Len(rejections) + 1)
          /\ \A j \in DOMAIN rejections : rejections'[j] = rejections[j]
          /\ rejections'[Len(rejections) + 1] = row
      <4>1. rejections \in Seq([reason : Reason, object : {Env[f].raw : f \in Id},
                                stream : Stream, seq : {Env[f].seq : f \in Id}])
        BY <1>1 DEF Handling, IngestTypeOK, TypeOK
      <4> HIDE DEF row
      <4> QED
        BY <3>1, <4>1
    <3>3. CASE i = Len(rejections) + 1
      <4>1. h.code = Replay /\ Env[e].raw = Env[h.env].raw
        BY <3>2, <3>3
      <4>2. e = h.env
        BY <3>1, <4>1, IngestAssumption
      <4>3. AnotherSpent(e)
        BY <3>1, <4>1, <4>2 DEF Replaying, Accuses
      <4> QED
        BY <1>1, <4>3, SpentStaysSpent
    <3>4. CASE i # Len(rejections) + 1
      <4>1. i \in DOMAIN rejections /\ rejections'[i] = rejections[i]
        BY <3>2, <3>4
      <4> QED
        BY <2>1, <4>1
    <3> QED
      BY <3>3, <3>4
  <2>3. CASE UNCHANGED rejections
    BY <2>1, <2>3
  <2> QED
    BY <2>2, <2>3, ReadsOnlyRead
    DEF IngestNext, ingestVars, storeVars, AppendEnvelope, AppendPlan
<1> QED
  BY <1>1, <1>2, <1>3, <1>4 DEF Replaying

(* A retry that races its own first submission is never recorded as a replay  *)
(* (DEF-7), however the reads of the two handlers fall.                       *)
THEOREM ReplaysNameAnother == IngestSpec => []ReplayNamesAnother
<1>1. IngestInit => Replaying
  BY HandlingStarts
  DEF IngestInit, StoreInit, Replaying, UsesSpent, Accuses, Idle, ReplayNamesAnother
<1>2. Replaying => ReplayNamesAnother
  BY DEF Replaying
<1> QED
  BY <1>1, <1>2, ReplayingKept, PTL DEF IngestSpec

--------------------------------------------------------------------------------
(* Mandates. *)

Acts(e) == IsEffect(e) \/ Env[e].kind = "cognition"

Mandated(e) == /\ Line[Env[e].mandate] \subseteq mandates
               /\ \A a \in Line[Env[e].mandate] : ValidAt(a, Env[e].at)
               /\ Doc[Env[e].mandate].grantee = Env[e].signer

Judged(h) == \/ h.pc \in {"budget", "approvers", "gate", "append"}
             \/ h.pc = "documents" /\ h.policy # None

(* Past the mandate check, who acts is mandated; and no act is judged as one  *)
(* of the kinds that have none, or enters genesis under a policy.             *)
Sanctioned(h) ==
  /\ Judged(h) /\ Acts(h.env) => Mandated(h.env)
  /\ h.pc = "genesis" => h.policy = None
  /\ h.pc \in {"grant", "revocation", "gate-decision", "checkpoint"} => ~Acts(h.env)

Sanctioning == /\ Handling
               /\ \A w \in Worker : Sanctioned(worker[w])
               /\ ActsUnderMandate

LEMMA MandateChecked ==
  ASSUME NEW e, NEW rts, MandateCode(e, rts) = "ok"
  PROVE  Mandated(e)
BY DEF MandateCode, Mandated

LEMMA KindsDiffer ==
  ASSUME NEW e \in Id
  PROVE  /\ FirstRead(e) \in {"grant", "revocation", "gate-decision", "checkpoint", "append"}
              => ~Acts(e)
         /\ FirstRead(e) \in {"mandate", "append", "grant", "revocation", "gate-decision",
                              "checkpoint"}
         /\ Genesis0(e) => ~Acts(e)
<1>1. Env[e].kind \in Kinds
  BY IngestAssumption
<1> QED
  BY <1>1 DEF FirstRead, IsEffect, Kinds, Acts, Genesis0

LEMMA ReadsSanction ==
  ASSUME Sanctioning, NEW w \in Worker,
         \/ \E e \in offered : Submit(w, e)
         \/ ReadPolicy(w) \/ ReadRoots(w) \/ ReadMandate(w) \/ ReadSpend(w)
         \/ ReadApprovers(w)
  PROVE  Sanctioned(worker'[w])
<1> DEFINE h == worker[w]
           e == h.env
           v == h.policy
           n == worker'[w]
<1>0. /\ Handling /\ Sanctioned(h) /\ Fit(h) /\ h \in Handler
      /\ worker \in [Worker -> Handler]
  BY HandlersFit DEF Sanctioning, Handling
<1>1. CASE (\E x \in offered : Submit(w, x)) \/ ReadPolicy(w)
  <2>1. n.pc \in {"identify", "roots"}
    BY <1>0, <1>1 DEF Submit, ReadPolicy, Handler
  <2> QED
    BY <2>1 DEF Sanctioned, Judged
<1>2. CASE ReadRoots(w)
  <2>1. /\ n.env = e /\ e \in Id
        /\ (n.pc = "genesis" /\ n.policy = None) \/ n.pc = FirstRead(e)
    BY <1>0, <1>2 DEF ReadRoots, Handler, Fit
  <2> QED
    BY <2>1, KindsDiffer DEF Sanctioned, Judged
<1>3. CASE ReadMandate(w)
  <2>1. n.env = e
    BY <1>0, <1>3 DEF ReadMandate, Refuse, Handler
  <2>2. CASE MandateCode(e, h.roots) = "ok"
    <3>1. n.pc \in {"reject", "gate", "budget"}
      BY <1>0, <1>3 DEF ReadMandate, Refuse, Handler
    <3> QED
      BY <2>1, <2>2, <3>1, MandateChecked DEF Sanctioned
  <2>3. CASE MandateCode(e, h.roots) # "ok"
    <3>1. n.pc = "reject"
      BY <1>0, <1>3, <2>3 DEF ReadMandate, Refuse, Handler
    <3> QED
      BY <3>1 DEF Sanctioned, Judged
  <2> QED
    BY <2>2, <2>3
<1>4. CASE ReadSpend(w) \/ ReadApprovers(w)
  <2>1. n.env = e /\ n.pc \in {"documents", "append", "gate"} /\ Judged(h)
    BY <1>0, <1>4 DEF ReadSpend, ReadApprovers, Handler, Judged
  <2> QED
    BY <1>0, <2>1 DEF Sanctioned
<1> QED
  BY <1>1, <1>2, <1>3, <1>4

LEMMA JudgeMoves ==
  ASSUME Handling, NEW w \in Worker, NEW pc, NEW code, Judge(w, code, pc)
  PROVE  /\ worker'[w].env = worker[w].env /\ worker'[w].policy = worker[w].policy
         /\ (code = "ok" /\ worker'[w].pc = pc) \/ worker'[w].pc = "reject"
<1>1. worker[w] \in Handler /\ worker \in [Worker -> Handler]
  BY DEF Handling
<1> QED
  BY <1>1 DEF Judge, Goto, Refuse, Handler

LEMMA RefuseMoves ==
  ASSUME Handling, NEW w \in Worker, NEW code, Refuse(w, code)
  PROVE  worker'[w].pc = "reject"
<1>1. worker[w] \in Handler /\ worker \in [Worker -> Handler]
  BY DEF Handling
<1> QED
  BY <1>1 DEF Refuse, Handler

LEMMA JudgementsSanction ==
  ASSUME Sanctioning, NEW w \in Worker,
         \/ Identify(w) \/ EnterGenesis(w) \/ ReadDocuments(w) \/ ReadGate(w)
         \/ ReadGrant(w) \/ ReadRevocation(w) \/ ReadDecision(w) \/ ReadCheckpoint(w)
  PROVE  Sanctioned(worker'[w])
<1> DEFINE h == worker[w]
           e == h.env
           v == h.policy
           n == worker'[w]
<1>0. Handling /\ Sanctioned(h) /\ Fit(h)
  BY HandlersFit DEF Sanctioning
<1>1. CASE n.pc = "reject"
  BY <1>1 DEF Sanctioned, Judged
<1>2. CASE n.pc # "reject"
  <2>1. CASE Identify(w)
    <3>1. n.pc = "policy"
      BY <1>0, <1>2, <2>1, JudgeMoves, RefuseMoves DEF Identify
    <3> QED
      BY <3>1 DEF Sanctioned, Judged
  <2>2. CASE EnterGenesis(w)
    <3>1. \/ Genesis0(e) /\ Judge(w, GrantCode(e, h.roots), "append")
          \/ Judge(w, IF Env[e].class = Consequential THEN "ok"
                      ELSE "policy-component-override-attempt", "documents")
          \/ Refuse(w, "policy-not-published")
      BY <2>2 DEF EnterGenesis
    <3>2. CASE Genesis0(e) /\ Judge(w, GrantCode(e, h.roots), "append")
      <4>1. n.pc = "append" /\ n.env = e /\ e \in Id
        BY <1>0, <1>2, <2>2, <3>2, JudgeMoves DEF EnterGenesis, Fit
      <4> QED
        BY <3>2, <4>1, KindsDiffer DEF Sanctioned
    <3>3. CASE Judge(w, IF Env[e].class = Consequential THEN "ok"
                        ELSE "policy-component-override-attempt", "documents")
      <4>1. n.pc = "documents" /\ n.policy = v
        BY <1>0, <1>2, <3>3, JudgeMoves
      <4>2. v = None
        BY <1>0, <2>2 DEF EnterGenesis, Sanctioned
      <4> QED
        BY <4>1, <4>2 DEF Sanctioned, Judged
    <3> QED
      BY <1>0, <1>2, <3>1, <3>2, <3>3, RefuseMoves
  <2>3. CASE ReadDocuments(w)
    <3>1. /\ n.pc = (IF v = None THEN "mandate" ELSE "approvers")
          /\ n.env = e /\ h.pc = "documents"
      BY <1>0, <1>2, <2>3, JudgeMoves DEF ReadDocuments
    <3> QED
      BY <1>0, <3>1 DEF Sanctioned, Judged
  <2>4. CASE ReadGate(w)
    <3>1. n.pc = "append" /\ n.env = e /\ h.pc = "gate"
      <4> DEFINE code == IF v = None
                         THEN GateCode(e, TRUE, RootApprovers(Env[e].at), FALSE)
                         ELSE GateCode(e, RequiresGate(e, v), h.keys,
                                       Env[e].auth # None /\ SpentByAnother(e))
                 told == IF v # None /\ code = "gate-denied" /\ ~Applied(e)
                         THEN "ok" ELSE code
      <4>1. Judge(w, told, "append") /\ h.pc = "gate"
        BY <2>4 DEF ReadGate
      <4> HIDE DEF told
      <4> QED
        BY <1>0, <1>2, <4>1, JudgeMoves
    <3> QED
      BY <1>0, <3>1 DEF Sanctioned, Judged
  <2>5. CASE ReadGrant(w) \/ ReadRevocation(w) \/ ReadDecision(w) \/ ReadCheckpoint(w)
    <3>1. /\ n.env = e /\ n.pc = "append"
          /\ h.pc \in {"grant", "revocation", "gate-decision", "checkpoint"}
      BY <1>0, <1>2, <2>5, JudgeMoves
      DEF ReadGrant, ReadRevocation, ReadDecision, ReadCheckpoint
    <3> QED
      BY <1>0, <3>1 DEF Sanctioned
  <2> QED
    BY <2>1, <2>2, <2>3, <2>4, <2>5
<1> QED
  BY <1>1, <1>2

LEMMA StepsSanction ==
  ASSUME Sanctioning, NEW w \in Worker, Step(w)
  PROVE  Sanctioned(worker'[w])
<1>0. Handling
  BY DEF Sanctioning
<1>1. CASE AlreadyHeld(w) \/ AppendEnvelope(w) \/ AppendHeld(w) \/ Reject(w)
           \/ RejectUnrecorded(w) \/ Unavailable(w)
  <2>1. worker'[w].pc = "idle"
    BY <1>0, <1>1 DEF AlreadyHeld, AppendEnvelope, AppendHeld, Reject, RejectUnrecorded,
                      Unavailable, Answer, Idle, Handling
  <2> QED
    BY <2>1 DEF Sanctioned, Judged
<1>2. CASE AppendRefused(w)
  <2>1. worker'[w].pc = "reject"
    BY <1>0, <1>2, RefuseMoves DEF AppendRefused
  <2> QED
    BY <2>1 DEF Sanctioned, Judged
<1> QED
  BY <1>1, <1>2, ReadsSanction, JudgementsSanction DEF Step

LEMMA SanctionStays ==
  ASSUME NEW h, Sanctioned(h), mandates \subseteq mandates'
  PROVE  Sanctioned(h)'
BY DEF Sanctioned, Judged, Acts, Mandated, IsEffect, ValidAt

LEMMA SanctioningKept == Sanctioning /\ [IngestNext]_ingestVars => Sanctioning'
<1> SUFFICES ASSUME Sanctioning, [IngestNext]_ingestVars PROVE Sanctioning'
  OBVIOUS
<1>1. /\ Handling /\ Handling' /\ envelopes \subseteq envelopes'
      /\ mandates \subseteq mandates'
  BY HandlingKept, StepsOfTheStore, HeldStaysHeld DEF Sanctioning
<1>2. (\A w \in Worker : Sanctioned(worker[w]))'
  <2> SUFFICES ASSUME NEW x \in Worker PROVE Sanctioned(worker[x])'
    OBVIOUS
  <2>1. PICK h : h = worker'[x]
    OBVIOUS
  <2>2. Sanctioned(h)
    <3>1. CASE h = worker[x]
      BY <3>1 DEF Sanctioning
    <3>2. CASE h # worker[x]
      <4>1. PICK w \in Worker : Step(w)
        BY <2>1, <3>2 DEF IngestNext, ingestVars
      <4>2. PICK r : worker' = [worker EXCEPT ![w] = r]
        BY <1>1, <4>1, StepsFit DEF Becomes
      <4>3. x = w
        BY <1>1, <2>1, <3>2, <4>2 DEF Handling
      <4> QED
        BY <2>1, <4>1, <4>3, StepsSanction
    <3> QED
      BY <3>1, <3>2
  <2>3. Sanctioned(h)'
    BY <1>1, <2>2, SanctionStays
  <2> QED
    BY <2>1, <2>3 DEF Sanctioned, Judged
<1>3. ActsUnderMandate'
  <2> SUFFICES ASSUME NEW e \in envelopes', Acts(e) PROVE Mandated(e)'
    BY DEF ActsUnderMandate, Acts, Mandated, IsEffect, ValidAt
  <2>1. Mandated(e)
    <3>1. CASE e \in envelopes
      BY <3>1 DEF Sanctioning, ActsUnderMandate, Acts, Mandated
    <3>2. CASE e \notin envelopes
      <4>1. PICK w \in Worker : AppendEnvelope(w)
        BY <3>2, ReadsOnlyRead
        DEF IngestNext, ingestVars, storeVars, tables, Reject, RecordRejection
      <4>2. envelopes' = envelopes \cup {worker[w].env} /\ worker[w].pc = "append"
        BY <4>1 DEF AppendEnvelope, AppendPlan, PlanOf
      <4> QED
        BY <3>2, <4>2 DEF Sanctioning, Sanctioned, Judged
    <3> QED
      BY <3>1, <3>2
  <2> QED
    BY <1>1, <2>1 DEF Mandated, ValidAt
<1> QED
  BY <1>1, <1>2, <1>3 DEF Sanctioning

(* Whatever mandates and revocations other handlers write meanwhile, what is  *)
(* held as an act was judged under a chain of mandates the store holds.       *)
THEOREM ActsAreMandated == IngestSpec => []ActsUnderMandate
<1>1. IngestInit => Sanctioning
  BY HandlingStarts
  DEF IngestInit, StoreInit, Sanctioning, Sanctioned, Judged, Idle, ActsUnderMandate
<1>2. Sanctioning => ActsUnderMandate
  BY DEF Sanctioning
<1> QED
  BY <1>1, <1>2, SanctioningKept, PTL DEF IngestSpec

--------------------------------------------------------------------------------
(******************************************************************************)
(* What an approval stands behind, for any handlers, envelopes and policies:  *)
(* the rows only a root may cause, the registrations only a passed run may,   *)
(* and the effects a policy did not let through.                              *)
(******************************************************************************)

(* The root set is a table of instants, and an enrolment is never undone.     *)
RootsTyped == roots \in [Key -> [from : Nat, to : Nat]]

Enrolled(k, t) == k \in Key /\ roots[k].from <= t

Ran(name, version) ==
  \E e \in envelopes : /\ Env[e].action = "kernel.conformance_run"
                       /\ Env[e].outcome = "applied"
                       /\ Env[e].tested = <<name, version>>

InForce(v) == \E i \in DOMAIN policies : policies[i] = v

(* Where a handler stands past the checks of genesis, and past the documents. *)
Entered == {"documents", "mandate", "budget", "approvers", "gate", "append"}
PastDocuments(h) == \/ h.pc \in {"approvers", "gate", "append"}
                    \/ h.pc = "mandate" /\ h.policy = None
PastMandate == {"budget", "documents", "approvers", "gate", "append"}

Forbidden(e, v) == Policy[v].class[Env[e].action] = Prohibited

(* What a handler has settled about the effect it judges, stage by stage.     *)
Vetted(h) == LET e == h.env  v == h.policy IN
  /\ v # None => InForce(v)
  /\ v = None /\ h.pc \in Entered /\ IsEffect(e) => FirstPolicy(e)
  /\ v # None /\ h.pc = "gate" /\ Privileged(e) =>
       \A a \in h.keys : Enrolled(a.key, Env[e].at)
  /\ h.pc = "append" /\ Privileged(e) /\ (Applied(e) \/ (v = None /\ IsEffect(e)))
       => RootApproved(e)
  /\ PastDocuments(h) /\ Env[e].proj.tag = "manifest" =>
       Ran(Env[e].proj.name, Env[e].proj.version)
  /\ v # None /\ IsEffect(e) /\ Applied(e) =>
       /\ h.pc \in PastMandate /\ Forbidden(e, v) => h.flag
       /\ h.pc \in {"gate", "append"} /\ Decision(e, v) = "deny" => h.flag
       /\ h.pc = "append" /\ Decision(e, v) = "gate" =>
            Env[e].auth # None /\ Env[e].auth.verdict = "approve"

Vetting == /\ Sanctioning
           /\ RootsTyped
           /\ \A w \in Worker : Vetted(worker[w])

--------------------------------------------------------------------------------
(* What a transaction leaves standing. *)

LEMMA RootsStand ==
  ASSUME RootsTyped, NEW p \in Plan, AppendPlan(p)
  PROVE  /\ RootsTyped'
         /\ \A k \in Key, t \in Instant : roots[k].from <= t => roots'[k].from <= t
<1> DEFINE r == p.proj
           t == Env[p.id].at
<1>1. p.id \in Id /\ (r = NoProj \/ r = Env[p.id].proj)
  BY Accepted DEF AppendPlan
<1>2. t \in Instant /\ t \in Nat
  BY <1>1, IngestAssumption
<1>8. r.tag \in {"enroll", "retire"} => r.key \in Key
  BY <1>1, IngestAssumption DEF NoProj
<1>3. \/ /\ r.tag = "enroll" /\ roots[r.key].from = Never
         /\ roots' = [roots EXCEPT ![r.key].from = t]
      \/ /\ r.tag = "retire"
         /\ roots' = [roots EXCEPT ![r.key].to = t]
      \/ roots' = roots
  BY DEF AppendPlan, WriteProjection
<1> HIDE DEF r, t
<1>4. Never \in Nat /\ Instant \subseteq Nat /\ \A u \in Instant : u < Never
  BY IngestAssumption
<1>5. CASE r.tag = "enroll" /\ roots[r.key].from = Never
           /\ roots' = [roots EXCEPT ![r.key].from = t]
  BY <1>2, <1>4, <1>5, <1>8 DEF RootsTyped
<1>6. CASE r.tag = "retire" /\ roots' = [roots EXCEPT ![r.key].to = t]
  BY <1>2, <1>6, <1>8 DEF RootsTyped
<1> QED
  BY <1>3, <1>5, <1>6 DEF RootsTyped

LEMMA PoliciesStand ==
  ASSUME Handling, NEW p \in Plan, AppendPlan(p)
  PROVE  \A v : InForce(v) => InForce(v)'
<1>1. policies' = policies \/ \E v \in DOMAIN Policy : policies' = Append(policies, v)
  <2>1. p.id \in Id /\ (p.proj = NoProj \/ p.proj = Env[p.id].proj)
    BY Accepted DEF AppendPlan
  <2>2. p.proj.tag = "policy" => p.proj.version \in DOMAIN Policy
    BY <2>1, IngestAssumption DEF NoProj
  <2> QED
    BY <2>2 DEF AppendPlan, WriteProjection
<1>2. policies \in Seq(DOMAIN Policy)
  BY DEF Handling
<1>3. \A i \in DOMAIN policies : i \in DOMAIN policies' /\ policies'[i] = policies[i]
  BY <1>1, <1>2
<1> QED
  BY <1>3 DEF InForce

(* Roots stay enrolled, runs stay held, versions stay published. *)
LEMMA StepsStand ==
  ASSUME Handling, RootsTyped, [IngestNext]_ingestVars
  PROVE  /\ RootsTyped'
         /\ \A k \in Key, t \in Instant : Enrolled(k, t) => Enrolled(k, t)'
         /\ envelopes \subseteq envelopes'
         /\ \A v : InForce(v) => InForce(v)'
<1>1. ASSUME NEW p \in Plan, AppendPlan(p)
      PROVE  /\ RootsTyped'
             /\ \A k \in Key, t \in Instant : Enrolled(k, t) => Enrolled(k, t)'
             /\ envelopes \subseteq envelopes'
             /\ \A v : InForce(v) => InForce(v)'
  BY <1>1, RootsStand, PoliciesStand DEF Enrolled, AppendPlan
<1>2. CASE UNCHANGED <<envelopes, roots, policies>>
  BY <1>2 DEF RootsTyped, Enrolled, InForce
<1> QED
  BY <1>1, <1>2, StepsOfTheStore
  DEF StoreNext, storeVars, tables, RecordRejection, DecayPayloads, RebuildSpend

LEMMA VettedStays ==
  ASSUME Handling, RootsTyped, [IngestNext]_ingestVars, NEW h, Vetted(h),
         h.pc # "idle" => h.env \in Id
  PROVE  Vetted(h)'
<1> DEFINE e == h.env
           t == Env[e].at
<1>1. /\ \A k \in Key, u \in Instant : Enrolled(k, u) => Enrolled(k, u)'
      /\ \A v : InForce(v) => InForce(v)'
      /\ \A n, v : Ran(n, v) => Ran(n, v)'
  BY StepsStand DEF Ran
<1>2. h.pc # "idle" => t \in Instant
  BY IngestAssumption
<1>3. h.pc \in {"gate", "append"} => h.pc # "idle"
  OBVIOUS
<1>4. RootApproved(e) /\ h.pc = "append" => RootApproved(e)'
  BY <1>1, <1>2 DEF RootApproved, Enrolled
<1>5. h.pc = "gate" =>
        \A a \in h.keys : Enrolled(a.key, t) => Enrolled(a.key, t)'
  BY <1>1, <1>2 DEF Enrolled
<1> QED
  BY <1>1, <1>2, <1>3, <1>4, <1>5
  DEF Vetted, FirstPolicy, IsEffect, Privileged, Applied, PastDocuments, Forbidden, Decision

--------------------------------------------------------------------------------
(* What each step settles. *)

LEMMA Waiting ==
  ASSUME NEW n, n.pc \notin Entered, n.policy # None => InForce(n.policy)
  PROVE  Vetted(n)
BY DEF Vetted, Entered, PastDocuments, PastMandate

LEMMA Plain ==
  ASSUME NEW n, n.env \in Id, ~IsEffect(n.env), n.policy # None => InForce(n.policy)
  PROVE  Vetted(n)
<1>1. ~Privileged(n.env) /\ Env[n.env].proj.tag # "manifest"
  BY IngestAssumption DEF Privileged, IsEffect, RootTags
<1> QED
  BY <1>1 DEF Vetted

LEMMA JudgeKeeps ==
  ASSUME Handling, NEW w \in Worker, NEW pc, NEW code, Judge(w, code, pc)
  PROVE  /\ worker'[w].env = worker[w].env /\ worker'[w].policy = worker[w].policy
         /\ worker'[w].keys = worker[w].keys /\ worker'[w].flag = worker[w].flag
         /\ (code = "ok" /\ worker'[w].pc = pc) \/ worker'[w].pc = "reject"
<1>1. worker[w] \in Handler /\ worker \in [Worker -> Handler]
  BY DEF Handling
<1> QED
  BY <1>1 DEF Judge, Goto, Refuse, Handler

LEMMA RefuseKeeps ==
  ASSUME Handling, NEW w \in Worker, NEW code, Refuse(w, code)
  PROVE  worker'[w].policy = worker[w].policy /\ worker'[w].pc = "reject"
<1>1. worker[w] \in Handler /\ worker \in [Worker -> Handler]
  BY DEF Handling
<1> QED
  BY <1>1 DEF Refuse, Handler

(* One of the approvers other than its author approved e. *)
Backed(e, approvers) == /\ Env[e].auth.verdict = "approve"
                        /\ Env[e].auth.by # Env[e].signer
                        /\ \E k \in approvers : k.key = Env[e].auth.by

LEMMA GateApproves ==
  ASSUME NEW e \in Id, NEW required, NEW approvers, NEW seen,
         GateCode(e, required, approvers, seen) = "ok"
  PROVE  /\ required => Env[e].auth # None
         /\ Env[e].auth # None => Backed(e, approvers)
<1> DEFINE a == Env[e].auth
<1>1. CASE a = None
  BY <1>1 DEF GateCode
<1>2. CASE a # None
  <2>0. a.flaw # None => a.flaw # "ok"
    BY <1>2, IngestAssumption
  <2>1. a.by # Env[e].signer /\ (\E k \in approvers : k.key = a.by) /\ a.verdict # "deny"
    BY <1>2, <2>0 DEF GateCode
  <2>2. a.verdict \in {"approve", "deny"}
    BY <1>2, IngestAssumption
  <2> QED
    BY <1>2, <2>1, <2>2 DEF Backed
<1> QED
  BY <1>1, <1>2

LEMMA DocumentsRan ==
  ASSUME NEW e, NEW rts, DocumentCode(e, rts) = "ok", Env[e].proj.tag = "manifest"
  PROVE  Ran(Env[e].proj.name, Env[e].proj.version)
<1> DEFINE r == Env[e].proj
<1>1. RegistrationCode(r) = "ok"
  BY DEF DocumentCode
<1> QED
  BY <1>1 DEF RegistrationCode, Ran

LEMMA RootsApprove ==
  ASSUME NEW t, NEW a \in RootApprovers(t)
  PROVE  Enrolled(a.key, t)
BY DEF RootApprovers, RootsAt, Enrolled
LEMMA FirstReadsVetted ==
  ASSUME Vetting, NEW w \in Worker,
         \/ \E e \in offered : Submit(w, e)
         \/ Identify(w) \/ ReadPolicy(w) \/ ReadRoots(w)
  PROVE  Vetted(worker'[w])
<1> DEFINE h == worker[w]
           n == worker'[w]
<1>0. /\ Handling /\ Vetted(h) /\ Fit(h) /\ h \in Handler
      /\ worker \in [Worker -> Handler] /\ policies \in Seq(DOMAIN Policy)
      /\ h.policy # None => InForce(h.policy)
  BY HandlersFit DEF Vetting, Sanctioning, Handling, Vetted
<1>1. CASE \E x \in offered : Submit(w, x)
  <2>0. PICK x \in offered : Submit(w, x)
    BY <1>1
  <2>1. n.pc = "identify" /\ n.policy = h.policy
    BY <1>0, <2>0 DEF Submit, Handler
  <2> QED
    BY <1>0, <2>1, Waiting DEF Entered
<1>2. CASE Identify(w)
  <2>1. n.pc \in {"policy", "reject"} /\ n.policy = h.policy
    BY <1>0, <1>2, JudgeKeeps, RefuseKeeps DEF Identify
  <2> QED
    BY <1>0, <2>1, Waiting DEF Entered
<1>3. CASE ReadPolicy(w)
  <2>1. /\ n.pc = "roots"
        /\ n.policy = IF policies = <<>> THEN None ELSE policies[Len(policies)]
    BY <1>0, <1>3 DEF ReadPolicy, Handler
  <2>2. policies # <<>> => Len(policies) \in DOMAIN policies
    BY <1>0
  <2> QED
    BY <2>1, <2>2, Waiting DEF Entered, InForce
<1>4. CASE ReadRoots(w)
  <2>1. /\ n.pc = (IF h.policy = None THEN "genesis" ELSE FirstRead(h.env))
        /\ n.policy = h.policy /\ n.env = h.env /\ n.env \in Id
    BY <1>0, <1>4 DEF ReadRoots, Handler, Fit
  <2>2. FirstRead(h.env) \in {"mandate", "append", "grant", "revocation",
                              "gate-decision", "checkpoint"}
    BY <2>1, KindsDiffer
  <2>3. CASE n.pc = "append"
    <3>1. ~IsEffect(n.env)
      BY <2>1, <2>3, KindsDiffer DEF Acts
    <3> QED
      BY <1>0, <2>1, <3>1, Plain
  <2>4. CASE n.pc = "mandate"
    BY <1>0, <2>1, <2>4 DEF Vetted, PastDocuments, PastMandate
  <2> QED
    BY <1>0, <2>1, <2>2, <2>3, <2>4, Waiting DEF Entered
<1> QED
  BY <1>1, <1>2, <1>3, <1>4

LEMMA MandateReadsVetted ==
  ASSUME Vetting, NEW w \in Worker, ReadMandate(w) \/ ReadSpend(w) \/ ReadApprovers(w)
  PROVE  Vetted(worker'[w])
<1> DEFINE h == worker[w]
           e == h.env
           v == h.policy
           n == worker'[w]
<1>0. /\ Handling /\ Vetted(h) /\ Fit(h) /\ h \in Handler
      /\ worker \in [Worker -> Handler]
      /\ v # None => InForce(v)
  BY HandlersFit DEF Vetting, Sanctioning, Handling, Vetted
<1>1. CASE ReadMandate(w)
  <2>1. h.pc = "mandate" /\ n.env = e /\ n.policy = v
    BY <1>0, <1>1 DEF ReadMandate, Refuse, Handler
  <2> DEFINE marked == /\ v # None /\ IsEffect(e) /\ Applied(e)
                       /\ Policy[v].class[Env[e].action] = Prohibited
  <2>2. \/ n.pc = "reject"
        \/ n.pc = "gate" /\ v = None
        \/ n.pc = "budget" /\ v # None /\ n.flag = marked
    <3>1. \/ \E code : Refuse(w, code)
          \/ worker' = [worker EXCEPT ![w].pc = IF v = None THEN "gate" ELSE "budget",
                                      ![w].flag = marked]
      BY <1>1 DEF ReadMandate
    <3> HIDE DEF marked
    <3> QED
      BY <1>0, <3>1 DEF Refuse, Handler
  <2>3. CASE n.pc = "reject"
    BY <1>0, <2>1, <2>3, Waiting DEF Entered
  <2>4. CASE n.pc = "gate" /\ v = None
    BY <1>0, <2>1, <2>4 DEF Vetted, Entered, PastDocuments
  <2>5. CASE n.pc = "budget" /\ v # None
    <3>1. IsEffect(e) /\ Applied(e) /\ Forbidden(e, v) => n.flag
      BY <2>2, <2>5, Zenon DEF Forbidden
    <3> QED
      BY <1>0, <2>1, <2>5, <3>1 DEF Vetted, PastDocuments
  <2> QED
    BY <2>2, <2>3, <2>4, <2>5
<1>2. CASE ReadSpend(w)
  <2>1. /\ h.pc = "budget" /\ n.env = e /\ n.policy = v /\ e \in Id
        /\ n.pc = (IF IsEffect(e) THEN "documents" ELSE "append")
        /\ h.flag => n.flag
    BY <1>0, <1>2 DEF ReadSpend, Handler, Fit
  <2>2. CASE IsEffect(e)
    BY <1>0, <2>1, <2>2 DEF Vetted, Entered, PastDocuments, PastMandate
  <2>3. CASE ~IsEffect(e)
    BY <1>0, <2>1, <2>3, Plain
  <2> QED
    BY <2>2, <2>3
<1>3. CASE ReadApprovers(w)
  <2>1. /\ h.pc = "approvers" /\ n.env = e /\ n.policy = v /\ n.pc = "gate"
        /\ Privileged(e) => n.keys = RootApprovers(Env[e].at)
        /\ h.flag \/ (Decision(e, v) = "deny" /\ Applied(e)) => n.flag
    BY <1>0, <1>3 DEF ReadApprovers, Handler
  <2>2. Privileged(e) => \A a \in n.keys : Enrolled(a.key, Env[e].at)
    BY <2>1, RootsApprove
  <2> QED
    BY <1>0, <2>1, <2>2 DEF Vetted, Entered, PastDocuments, PastMandate
<1> QED
  BY <1>1, <1>2, <1>3
(* The gate: what leaves it towards the transaction was approved, wherever    *)
(* the policy or the root set asked for it.                                   *)
LEMMA GateVetted ==
  ASSUME Vetting, NEW w \in Worker, ReadGate(w)
  PROVE  Vetted(worker'[w])
<1> DEFINE h == worker[w]
           e == h.env
           v == h.policy
           n == worker'[w]
           by == Env[e].auth.by
           code == IF v = None
                   THEN GateCode(e, TRUE, RootApprovers(Env[e].at), FALSE)
                   ELSE GateCode(e, RequiresGate(e, v), h.keys,
                                 Env[e].auth # None /\ SpentByAnother(e))
           told == IF v # None /\ code = "gate-denied" /\ ~Applied(e)
                   THEN "ok" ELSE code
<1>0. /\ Handling /\ Vetted(h) /\ h.pc = "gate" /\ e \in Id
      /\ v # None => InForce(v) /\ v \in DOMAIN Policy
  BY HandlersFit DEF Vetting, Sanctioning, Vetted, ReadGate, Fit, Handler
<1>1. /\ n.env = e /\ n.policy = v /\ n.flag = h.flag
      /\ (told = "ok" /\ n.pc = "append") \/ n.pc = "reject"
  <2>1. Judge(w, told, "append")
    BY DEF ReadGate
  <2> HIDE DEF told
  <2> QED
    BY <1>0, <2>1, JudgeKeeps
<1>2. CASE n.pc = "reject"
  BY <1>0, <1>1, <1>2, Waiting DEF Entered
<1>3. CASE told = "ok" /\ n.pc = "append"
  <2>1. Applied(e) \/ v = None => code = "ok"
    BY <1>3
  <2>2. Applied(e) /\ v # None /\ IsEffect(e) /\ (Privileged(e) \/ Decision(e, v) = "gate")
          => RequiresGate(e, v)
    BY DEF RequiresGate
  <2>3. (Applied(e) \/ v = None) /\ (v = None \/ RequiresGate(e, v))
          => /\ Env[e].auth # None
             /\ v = None => Backed(e, RootApprovers(Env[e].at))
             /\ v # None => Backed(e, h.keys)
    <3> SUFFICES ASSUME Applied(e) \/ v = None, v = None \/ RequiresGate(e, v)
                 PROVE  /\ Env[e].auth # None
                        /\ v = None => Backed(e, RootApprovers(Env[e].at))
                        /\ v # None => Backed(e, h.keys)
      OBVIOUS
    <3>1. CASE v = None
      <4>1. GateCode(e, TRUE, RootApprovers(Env[e].at), FALSE) = "ok"
        BY <2>1, <3>1
      <4>2. e \in Id
        BY <1>0
      <4>3. Env[e].auth # None
        BY <4>1, <4>2, GateApproves
      <4>4. Backed(e, RootApprovers(Env[e].at))
        BY <4>1, <4>2, <4>3, GateApproves
      <4> QED
        BY <3>1, <4>3, <4>4
    <3>2. CASE v # None
      <4> DEFINE required == RequiresGate(e, v)
                 spent == Env[e].auth # None /\ SpentByAnother(e)
      <4>1. GateCode(e, required, h.keys, spent) = "ok" /\ required
        BY <2>1, <3>2
      <4> HIDE DEF required, spent
      <4>2. e \in Id
        BY <1>0
      <4>3. Env[e].auth # None
        BY <4>1, <4>2, GateApproves
      <4>4. Backed(e, h.keys)
        BY <4>1, <4>2, <4>3, GateApproves
      <4> QED
        BY <3>2, <4>3, <4>4
    <3> QED
      BY <3>1, <3>2
  <2>4. Privileged(e) /\ (Applied(e) \/ (v = None /\ IsEffect(e)))
          => RootApproved(e)
    <3>1. Privileged(e) => IsEffect(e)
      BY <1>0, IngestAssumption DEF Privileged, IsEffect
    <3>2. Privileged(e) /\ v # None => \A a \in h.keys : Enrolled(a.key, Env[e].at)
      BY <1>0 DEF Vetted
    <3>3. Privileged(e) /\ (Applied(e) \/ (v = None /\ IsEffect(e)))
            => Enrolled(by, Env[e].at)
      BY <2>2, <2>3, <3>1, <3>2, RootsApprove DEF Backed
    <3> QED
      BY <2>2, <2>3, <3>1, <3>3 DEF RootApproved, Enrolled, Backed
  <2>5. v # None /\ IsEffect(e) /\ Applied(e) =>
          /\ Forbidden(e, v) => n.flag
          /\ Decision(e, v) = "deny" => n.flag
          /\ Decision(e, v) = "gate" =>
               Env[e].auth # None /\ Env[e].auth.verdict = "approve"
    BY <1>0, <1>1, <2>2, <2>3 DEF Vetted, PastMandate, Backed
  <2> HIDE DEF code, told
  <2> QED
    BY <1>0, <1>1, <1>3, <2>4, <2>5 DEF Vetted, Entered, PastDocuments
<1> QED
  BY <1>1, <1>2, <1>3

LEMMA JudgementsVetted ==
  ASSUME Vetting, NEW w \in Worker,
         \/ EnterGenesis(w) \/ ReadDocuments(w)
         \/ ReadGrant(w) \/ ReadRevocation(w) \/ ReadDecision(w) \/ ReadCheckpoint(w)
  PROVE  Vetted(worker'[w])
<1> DEFINE h == worker[w]
           e == h.env
           v == h.policy
           n == worker'[w]
<1>0. /\ Handling /\ Vetted(h) /\ Sanctioned(h) /\ Fit(h)
      /\ v # None => InForce(v)
  BY HandlersFit DEF Vetting, Sanctioning, Vetted
<1>1. CASE EnterGenesis(w)
  <2>1. h.pc = "genesis" /\ v = None /\ e \in Id
    BY <1>0, <1>1 DEF EnterGenesis, Sanctioned, Fit
  <2>2. \/ Genesis0(e) /\ Judge(w, GrantCode(e, h.roots), "append")
        \/ FirstPolicy(e) /\ Judge(w, IF Env[e].class = Consequential THEN "ok"
                                      ELSE "policy-component-override-attempt",
                                   "documents")
        \/ Refuse(w, "policy-not-published")
    BY <1>1 DEF EnterGenesis
  <2>3. /\ n.policy = v
        /\ \/ n.pc = "reject"
           \/ n.pc = "append" /\ n.env = e /\ Genesis0(e)
           \/ n.pc = "documents" /\ n.env = e /\ FirstPolicy(e)
    BY <1>0, <2>2, JudgeKeeps, RefuseKeeps
  <2>4. CASE n.pc = "reject"
    BY <2>1, <2>3, <2>4, Waiting DEF Entered
  <2>5. CASE n.pc = "append" /\ n.env = e /\ Genesis0(e)
    <3>1. ~IsEffect(n.env)
      BY <2>5 DEF Genesis0, IsEffect
    <3> QED
      BY <2>1, <2>3, <2>5, <3>1, Plain
  <2>6. CASE n.pc = "documents" /\ n.env = e /\ FirstPolicy(e)
    BY <2>1, <2>3, <2>6 DEF Vetted, PastDocuments
  <2> QED
    BY <2>3, <2>4, <2>5, <2>6
<1>2. CASE ReadDocuments(w)
  <2>1. /\ h.pc = "documents" /\ n.env = e /\ n.policy = v /\ n.flag = h.flag
        /\ \/ n.pc = "reject"
           \/ /\ n.pc = IF v = None THEN "mandate" ELSE "approvers"
              /\ DocumentCode(e, h.roots) = "ok"
    BY <1>0, <1>2, JudgeKeeps DEF ReadDocuments
  <2>2. CASE n.pc = "reject"
    BY <1>0, <2>1, <2>2, Waiting DEF Entered
  <2>3. CASE n.pc # "reject"
    <3>1. Env[e].proj.tag = "manifest" => Ran(Env[e].proj.name, Env[e].proj.version)
      BY <2>1, <2>3, DocumentsRan
    <3> QED
      BY <1>0, <2>1, <2>3, <3>1 DEF Vetted, Entered, PastDocuments, PastMandate
  <2> QED
    BY <2>2, <2>3
<1>3. CASE ReadGrant(w) \/ ReadRevocation(w) \/ ReadDecision(w) \/ ReadCheckpoint(w)
  <2>1. /\ n.env = e /\ n.policy = v
        /\ h.pc \in {"grant", "revocation", "gate-decision", "checkpoint"}
    BY <1>0, <1>3, JudgeKeeps DEF ReadGrant, ReadRevocation, ReadDecision, ReadCheckpoint
  <2>2. e \in Id /\ ~IsEffect(e)
    BY <1>0, <2>1 DEF Sanctioned, Acts, Fit
  <2> QED
    BY <1>0, <2>1, <2>2, Plain
<1> QED
  BY <1>1, <1>2, <1>3

LEMMA StepsVetted ==
  ASSUME Vetting, NEW w \in Worker, Step(w)
  PROVE  Vetted(worker'[w])
<1>0. /\ Handling
      /\ worker[w].policy # None => InForce(worker[w].policy)
      /\ worker \in [Worker -> Handler]
  BY DEF Vetting, Sanctioning, Handling, Vetted
<1>1. CASE AlreadyHeld(w) \/ AppendEnvelope(w) \/ AppendHeld(w) \/ Reject(w)
           \/ RejectUnrecorded(w) \/ Unavailable(w)
  <2>1. worker'[w].pc = "idle" /\ worker'[w].policy = None
    BY <1>0, <1>1 DEF AlreadyHeld, AppendEnvelope, AppendHeld, Reject, RejectUnrecorded,
                      Unavailable, Answer, Idle
  <2> QED
    BY <2>1, Waiting DEF Entered
<1>2. CASE AppendRefused(w)
  <2>1. worker'[w].pc = "reject" /\ worker'[w].policy = worker[w].policy
    BY <1>0, <1>2, RefuseKeeps DEF AppendRefused
  <2> QED
    BY <1>0, <2>1, Waiting DEF Entered
<1> QED
  BY <1>1, <1>2, FirstReadsVetted, MandateReadsVetted, GateVetted, JudgementsVetted DEF Step

LEMMA VettingKept == Vetting /\ [IngestNext]_ingestVars => Vetting'
<1> SUFFICES ASSUME Vetting, [IngestNext]_ingestVars PROVE Vetting'
  OBVIOUS
<1>1. /\ Sanctioning' /\ Handling /\ Handling' /\ RootsTyped /\ RootsTyped'
  BY SanctioningKept, StepsStand DEF Vetting, Sanctioning
<1>2. ASSUME NEW x \in Worker PROVE Vetted(worker[x])'
  <2>1. PICK h : h = worker'[x]
    OBVIOUS
  <2>2. Vetted(h) /\ (h.pc # "idle" => h.env \in Id)
    <3>1. h.pc # "idle" => h.env \in Id
      BY <1>1, <2>1, HandlersStayFit DEF Fit
    <3>2. CASE h = worker[x]
      BY <3>1, <3>2 DEF Vetting
    <3>3. CASE h # worker[x]
      <4>1. PICK w \in Worker : Step(w)
        BY <2>1, <3>3 DEF IngestNext, ingestVars
      <4>2. PICK r : worker' = [worker EXCEPT ![w] = r]
        BY <1>1, <4>1, StepsFit DEF Becomes
      <4>3. x = w
        BY <1>1, <2>1, <3>3, <4>2 DEF Handling
      <4> QED
        BY <2>1, <3>1, <4>1, <4>3, StepsVetted
    <3> QED
      BY <3>2, <3>3
  <2>3. Vetted(h)'
    BY <1>1, <2>2, VettedStays
  <2> QED
    BY <2>1, <2>3 DEF Vetted, PastDocuments
<1> QED
  BY <1>1, <1>2 DEF Vetting

LEMMA VettingStarts == IngestInit => Vetting
<1> SUFFICES ASSUME IngestInit PROVE Vetting
  OBVIOUS
<1>1. Handling
  BY HandlingStarts
<1>2. Sanctioning
  BY <1>1 DEF IngestInit, StoreInit, Sanctioning, Sanctioned, Judged, Idle, ActsUnderMandate
<1>3. RootsTyped
  BY IngestAssumption DEF IngestInit, StoreInit, RootsTyped
<1>4. \A w \in Worker : worker[w] = Idle
  BY DEF IngestInit
<1>5. Vetted(Idle)
  BY Waiting DEF Idle, Entered
<1> QED
  BY <1>2, <1>3, <1>4, <1>5 DEF Vetting
--------------------------------------------------------------------------------
(* What the store holds. *)

(* A privileged effect that is held and applied was approved by a root. *)
ApprovedActs == \A e \in envelopes : Privileged(e) /\ Applied(e) => RootApproved(e)

Manifests == {[name |-> Env[e].proj.name, version |-> Env[e].proj.version,
               key |-> Env[e].proj.key] : e \in Id}

Ledger == /\ Vetting
          /\ manifests \in Seq(Manifests)
          /\ ApprovedActs /\ PrivilegedRowsAreApproved
          /\ RegisteredRanGreen /\ NoSilentEffect

LEMMA ApprovalStands ==
  ASSUME Handling, RootsTyped, [IngestNext]_ingestVars, NEW e \in Id
  PROVE  /\ RootApproved(e) => RootApproved(e)'
         /\ \A tag : Published(e, tag) => Published(e, tag)'
<1>1. Env[e].at \in Instant
  BY IngestAssumption
<1> QED
  BY <1>1, StepsStand DEF RootApproved, Enrolled, Published, Applied, FirstPolicy

(* The row a transaction writes for a root-approved action is one its         *)
(* envelope, held from then on, answers for.                                  *)
LEMMA AppendPublishes ==
  ASSUME Vetting, NEW w \in Worker, AppendEnvelope(w), [IngestNext]_ingestVars,
         NEW e, NEW v, NEW p,
         e = worker[w].env, v = worker[w].policy, p = PlanOf(e, v)
  PROVE  /\ e \in Id /\ p \in Plan /\ AppendPlan(p)
         /\ envelopes' = envelopes \cup {e}
         /\ Privileged(e) /\ Applied(e) => RootApproved(e)'
         /\ p.proj.tag \in RootTags =>
              p.proj = Env[e].proj /\ Published(e, p.proj.tag)'
         /\ p.proj.tag = "manifest" => Ran(p.proj.name, p.proj.version)
<1>1. /\ Handling /\ RootsTyped /\ Vetted(worker[w])
      /\ worker[w].pc = "append" /\ e \in Id /\ AppendPlan(p)
  BY HandlersFit DEF Vetting, Sanctioning, AppendEnvelope, Fit
<1>2. p \in Plan /\ p.id = e
  BY <1>1, PlansArePlans
<1>3. envelopes' = envelopes \cup {e}
  BY <1>1, <1>2 DEF AppendPlan
<1>4. Privileged(e) /\ (Applied(e) \/ (v = None /\ IsEffect(e))) => RootApproved(e)'
  BY <1>1, ApprovalStands DEF Vetted
<1>5. p.proj.tag \in RootTags =>
        p.proj = Env[e].proj /\ (v = None \/ ~Privileged(e) \/ Applied(e))
  BY DEF PlanOf, NoProj, RootTags
<1>6. p.proj.tag \in RootTags => Published(e, p.proj.tag)'
  <2> SUFFICES ASSUME p.proj.tag \in RootTags PROVE Published(e, p.proj.tag)'
    OBVIOUS
  <2>1. IsEffect(e) /\ Privileged(e) /\ p.proj = Env[e].proj
    BY <1>1, <1>5, IngestAssumption
  <2>2. Applied(e) \/ (v = None /\ FirstPolicy(e))
    BY <1>1, <1>5, <2>1 DEF Vetted, Entered
  <2> QED
    BY <1>3, <1>4, <2>1, <2>2 DEF Published, Applied, FirstPolicy
<1>7. p.proj.tag = "manifest" => Ran(p.proj.name, p.proj.version)
  BY <1>1, <1>5 DEF Vetted, PastDocuments, RootTags
<1> QED
  BY <1>1, <1>2, <1>3, <1>4, <1>5, <1>6, <1>7
(* A step that is no append writes no row of these tables. *)
LEMMA OthersWriteNothing ==
  ASSUME [IngestNext]_ingestVars
  PROVE  \/ \E w \in Worker : AppendEnvelope(w)
         \/ UNCHANGED <<envelopes, policies, manifests, roots, resumes, flagged>>
BY ReadsOnlyRead DEF IngestNext, ingestVars, storeVars, tables, Reject, RecordRejection

LEMMA ApprovedActsKept ==
  ASSUME Ledger, [IngestNext]_ingestVars
  PROVE  ApprovedActs'
<1>0. Handling /\ RootsTyped /\ Vetting /\ envelopes \subseteq Id
  BY DEF Ledger, Vetting, Sanctioning, Handling, IngestTypeOK, TypeOK
<1> SUFFICES ASSUME NEW e \in envelopes', Privileged(e), Applied(e)
             PROVE  RootApproved(e)'
  BY DEF ApprovedActs, Privileged, Applied
<1>1. CASE e \in envelopes
  BY <1>0, <1>1, ApprovalStands DEF Ledger, ApprovedActs
<1>2. CASE e \notin envelopes
  <2>1. PICK w \in Worker : AppendEnvelope(w)
    BY <1>2, OthersWriteNothing
  <2>2. PICK f, v : f = worker[w].env /\ v = worker[w].policy
    OBVIOUS
  <2>3. /\ envelopes' = envelopes \cup {f}
        /\ Privileged(f) /\ Applied(f) => RootApproved(f)'
    BY <1>0, <2>1, <2>2, AppendPublishes
  <2> QED
    BY <1>2, <2>3
<1> QED
  BY <1>1, <1>2

LEMMA AppendedRows ==
  ASSUME NEW S, NEW s \in Seq(S), NEW x \in S, NEW i \in DOMAIN Append(s, x)
  PROVE  \/ i \in DOMAIN s /\ Append(s, x)[i] = s[i]
         \/ Append(s, x)[i] = x
OBVIOUS

LEMMA PrivilegedRowsKept ==
  ASSUME Ledger, [IngestNext]_ingestVars
  PROVE  PrivilegedRowsAreApproved' /\ (manifests \in Seq(Manifests))'
<1>0. /\ Handling /\ RootsTyped /\ RootsTyped' /\ Vetting /\ envelopes \subseteq Id
      /\ PrivilegedRowsAreApproved /\ manifests \in Seq(Manifests)
  BY StepsStand DEF Ledger, Vetting, Sanctioning, Handling, IngestTypeOK, TypeOK
<1>1. \A e, tag : Published(e, tag) => Published(e, tag)'
  BY <1>0, ApprovalStands DEF Published
<1>2. CASE UNCHANGED <<envelopes, policies, manifests, roots, resumes, flagged>>
  BY <1>0, <1>1, <1>2 DEF PrivilegedRowsAreApproved
<1>3. CASE \E w \in Worker : AppendEnvelope(w)
  <2>1. PICK w \in Worker : AppendEnvelope(w)
    BY <1>3
  <2>2. PICK f, v, p : f = worker[w].env /\ v = worker[w].policy /\ p = PlanOf(f, v)
    OBVIOUS
  <2> DEFINE r == p.proj
  <2>3. /\ p \in Plan /\ AppendPlan(p)
        /\ r.tag \in RootTags => r = Env[f].proj /\ Published(f, r.tag)'
    BY <1>0, <2>1, <2>2, AppendPublishes
  <2>9. f \in Id
    BY <1>0, <2>1, <2>2, AppendPublishes
  <2>4. /\ policies' = (IF r.tag = "policy" THEN Append(policies, r.version)
                        ELSE policies)
        /\ manifests' = (IF r.tag = "manifest"
                         THEN Append(manifests, [name |-> r.name, version |-> r.version,
                                                 key |-> r.key])
                         ELSE manifests)
        /\ \/ /\ r.tag = "enroll" /\ roots[r.key].from = Never
              /\ roots' = [roots EXCEPT ![r.key].from = Env[p.id].at]
           \/ /\ r.tag = "retire"
              /\ roots' = [roots EXCEPT ![r.key].to = Env[p.id].at]
           \/ roots' = roots
        /\ \/ resumes' = resumes
           \/ /\ r.tag = "resume"
              /\ resumes' = resumes \cup {[stream |-> r.stream, seq |-> r.seq,
                                           bridge |-> r.bridge]}
    BY <2>3 DEF AppendPlan, WriteProjection
  <2> HIDE DEF r
  <2>5. r.tag = "policy" => r.version \in DOMAIN Policy
    BY <2>3, <2>9, IngestAssumption DEF RootTags
  <2>6. r.tag = "manifest" =>
          [name |-> r.name, version |-> r.version, key |-> r.key] \in Manifests
    BY <1>0, <2>3, <2>9 DEF RootTags, Manifests
  <2>7. (\A i \in DOMAIN policies : \E e \in envelopes :
           Published(e, "policy") /\ Env[e].proj.version = policies[i])'
    <3> SUFFICES ASSUME NEW i \in DOMAIN policies'
                 PROVE  \E e \in envelopes' : /\ Published(e, "policy")'
                                              /\ Env[e].proj.version = policies'[i]
      OBVIOUS
    <3>1. CASE i \in DOMAIN policies /\ policies'[i] = policies[i]
      BY <1>0, <1>1, <3>1 DEF PrivilegedRowsAreApproved, Published
    <3>2. CASE r.tag = "policy" /\ policies'[i] = r.version
      BY <2>3, <3>2 DEF Published, RootTags
    <3> QED
      BY <1>0, <2>4, <2>5, <3>1, <3>2, AppendedRows DEF Handling
  <2>8. (\A i \in DOMAIN manifests : \E e \in envelopes :
           /\ Published(e, "manifest")
           /\ Env[e].proj.name = manifests[i].name
           /\ Env[e].proj.version = manifests[i].version)'
    <3> SUFFICES ASSUME NEW i \in DOMAIN manifests'
                 PROVE  \E e \in envelopes' :
                          /\ Published(e, "manifest")'
                          /\ Env[e].proj.name = manifests'[i].name
                          /\ Env[e].proj.version = manifests'[i].version
      OBVIOUS
    <3> DEFINE row == [name |-> r.name, version |-> r.version, key |-> r.key]
    <3>1. CASE i \in DOMAIN manifests /\ manifests'[i] = manifests[i]
      BY <1>0, <1>1, <3>1 DEF PrivilegedRowsAreApproved, Published
    <3>2. CASE r.tag = "manifest" /\ manifests'[i] = row
      BY <2>3, <3>2 DEF Published, RootTags
    <3>3. \/ manifests' = manifests
          \/ r.tag = "manifest" /\ manifests' = Append(manifests, row)
      BY <2>4
    <3> HIDE DEF row
    <3> QED
      BY <1>0, <2>6, <3>1, <3>2, <3>3, AppendedRows DEF row
  <2>10. (\A k \in Key \ SeededRoots : roots[k].from # Never =>
           \E e \in envelopes : Published(e, "enroll") /\ Env[e].proj.key = k)'
    <3> SUFFICES ASSUME NEW k \in Key \ SeededRoots, roots'[k].from # Never
                 PROVE  \E e \in envelopes' : /\ Published(e, "enroll")'
                                              /\ Env[e].proj.key = k
      OBVIOUS
    <3>1. CASE roots[k].from # Never
      BY <1>0, <1>1, <3>1 DEF PrivilegedRowsAreApproved, Published
    <3>2. CASE roots[k].from = Never
      <4>1. r.tag = "enroll" /\ k = r.key
        BY <1>0, <2>4, <3>2 DEF RootsTyped
      <4> QED
        BY <2>3, <4>1 DEF Published, RootTags
    <3> QED
      BY <3>1, <3>2
  <2>11. (\A k \in Key : roots[k].to # Never =>
           \E e \in envelopes : Published(e, "retire") /\ Env[e].proj.key = k)'
    <3> SUFFICES ASSUME NEW k \in Key, roots'[k].to # Never
                 PROVE  \E e \in envelopes' : /\ Published(e, "retire")'
                                              /\ Env[e].proj.key = k
      OBVIOUS
    <3>1. CASE roots[k].to # Never
      BY <1>0, <1>1, <3>1 DEF PrivilegedRowsAreApproved, Published
    <3>2. CASE roots[k].to = Never
      <4>1. r.tag = "retire" /\ k = r.key
        BY <1>0, <2>4, <3>2 DEF RootsTyped
      <4> QED
        BY <2>3, <4>1 DEF Published, RootTags
    <3> QED
      BY <3>1, <3>2
  <2>12. (\A x \in resumes : \E e \in envelopes :
           /\ Published(e, "resume")
           /\ Env[e].proj.stream = x.stream /\ Env[e].proj.seq = x.seq)'
    <3> SUFFICES ASSUME NEW x \in resumes'
                 PROVE  \E e \in envelopes' :
                          /\ Published(e, "resume")'
                          /\ Env[e].proj.stream = x.stream /\ Env[e].proj.seq = x.seq
      OBVIOUS
    <3>1. CASE x \in resumes
      BY <1>0, <1>1, <3>1 DEF PrivilegedRowsAreApproved, Published
    <3>2. CASE x \notin resumes
      <4>1. r.tag = "resume" /\ x.stream = r.stream /\ x.seq = r.seq
        BY <2>4, <3>2
      <4> QED
        BY <2>3, <4>1 DEF Published, RootTags
    <3> QED
      BY <3>1, <3>2
  <2>13. (manifests \in Seq(Manifests))'
    BY <1>0, <2>4, <2>6
  <2> QED
    BY <2>7, <2>8, <2>10, <2>11, <2>12, <2>13 DEF PrivilegedRowsAreApproved
<1> QED
  BY <1>2, <1>3, OthersWriteNothing
LEMMA RegistrationsKept ==
  ASSUME Ledger, [IngestNext]_ingestVars
  PROVE  RegisteredRanGreen'
<1>0. /\ Handling /\ RootsTyped /\ Vetting /\ envelopes \subseteq Id
      /\ manifests \in Seq(Manifests) /\ ApprovedActs /\ RegisteredRanGreen
      /\ ApprovedActs' /\ envelopes \subseteq envelopes'
  BY ApprovedActsKept, StepsStand
  DEF Ledger, Vetting, Sanctioning, Handling, IngestTypeOK, TypeOK
<1>1. \A e \in Id : RootApproved(e) => RootApproved(e)'
  BY <1>0, ApprovalStands
<1> DEFINE Green(name, version) ==
             \E e \in envelopes' :
               /\ Env[e].action = "kernel.conformance_run" /\ Applied(e)
               /\ Env[e].tested = <<name, version>>
               /\ RootApproved(e)'
<1>2. \A name, version : Ran(name, version) => Green(name, version)
  <2> SUFFICES ASSUME NEW name, NEW version,
                      NEW e \in envelopes,
                      Env[e].action = "kernel.conformance_run", Env[e].outcome = "applied",
                      Env[e].tested = <<name, version>>
               PROVE  Green(name, version)
    BY DEF Ran
  <2>1. Privileged(e) /\ Applied(e)
    BY DEF Privileged, RootApprovedActions, Applied
  <2>2. RootApproved(e)'
    BY <1>0, <1>1, <2>1 DEF ApprovedActs
  <2> QED
    BY <1>0, <2>1, <2>2
<1> SUFFICES ASSUME NEW i \in DOMAIN manifests'
             PROVE  Green(manifests'[i].name, manifests'[i].version)
  BY DEF RegisteredRanGreen, Applied
<1>3. CASE i \in DOMAIN manifests /\ manifests'[i] = manifests[i]
  BY <1>0, <1>1, <1>3 DEF RegisteredRanGreen
<1>4. CASE UNCHANGED manifests
  BY <1>3, <1>4
<1>5. CASE \E w \in Worker : AppendEnvelope(w)
  <2>1. PICK w \in Worker : AppendEnvelope(w)
    BY <1>5
  <2>2. PICK f, v, p : f = worker[w].env /\ v = worker[w].policy /\ p = PlanOf(f, v)
    OBVIOUS
  <2> DEFINE r == p.proj
             row == [name |-> r.name, version |-> r.version, key |-> r.key]
  <2>3. /\ p \in Plan /\ AppendPlan(p) /\ f \in Id
        /\ r.tag = "manifest" => r = Env[f].proj
        /\ r.tag = "manifest" => Ran(r.name, r.version)
    BY <1>0, <2>1, <2>2, AppendPublishes DEF RootTags
  <2>4. \/ manifests' = manifests
        \/ r.tag = "manifest" /\ manifests' = Append(manifests, row)
    BY <2>3 DEF AppendPlan, WriteProjection
  <2>5. r.tag = "manifest" => row \in Manifests
    BY <2>3 DEF Manifests
  <2>6. CASE r.tag = "manifest" /\ manifests'[i] = row
    BY <1>2, <2>3, <2>6
  <2> HIDE DEF row
  <2>7. \/ i \in DOMAIN manifests /\ manifests'[i] = manifests[i]
        \/ r.tag = "manifest" /\ manifests'[i] = row
    BY <1>0, <2>4, <2>5, AppendedRows
  <2> QED
    BY <1>3, <2>6, <2>7
<1> QED
  BY <1>4, <1>5, OthersWriteNothing

(* The effect a handler writes is one the version it read lets through, or it *)
(* carries what that version asks for.                                        *)
LEMMA SilenceKept ==
  ASSUME Ledger, [IngestNext]_ingestVars
  PROVE  NoSilentEffect'
<1>0. /\ Handling /\ RootsTyped /\ Vetting /\ NoSilentEffect
      /\ \A v : InForce(v) => InForce(v)'
  BY StepsStand DEF Ledger, Vetting, Sanctioning
<1> DEFINE Let(e, v) == Decision(e, v) # "allow" \/ Forbidden(e, v)
           Shown(e, marks) ==
             e \in marks \/ (Env[e].auth # None /\ Env[e].auth.verdict = "approve")
<1>1. flagged \subseteq flagged'
  <2>1. CASE \E w \in Worker : AppendEnvelope(w)
    BY <2>1 DEF AppendEnvelope
  <2> QED
    BY <2>1, OthersWriteNothing
<1> SUFFICES ASSUME NEW e \in envelopes', Env[e].kind = "effect", Applied(e),
                    \A v : InForce(v)' => Let(e, v)
             PROVE  Shown(e, flagged')
  BY DEF NoSilentEffect, InForce, Applied, Decision, Forbidden
<1>2. CASE e \in envelopes
  <2>1. Shown(e, flagged)
    BY <1>0, <1>2 DEF NoSilentEffect, InForce, Forbidden
  <2> QED
    BY <1>1, <2>1
<1>3. CASE e \notin envelopes
  <2>1. PICK w \in Worker : AppendEnvelope(w)
    BY <1>3, OthersWriteNothing
  <2>2. PICK h : h = worker[w]
    OBVIOUS
  <2>3. /\ Vetted(h) /\ h.pc = "append" /\ h \in Handler
        /\ e = h.env /\ e \in Id
        /\ flagged' = IF h.flag THEN flagged \cup {e} ELSE flagged
    <3>1. PICK v, p : v = h.policy /\ p = PlanOf(h.env, v)
      OBVIOUS
    <3>2. envelopes' = envelopes \cup {h.env} /\ h.env \in Id
      BY <1>0, <2>1, <2>2, <3>1, AppendPublishes
    <3> QED
      BY <1>0, <1>3, <2>1, <2>2, <3>2 DEF Vetting, AppendEnvelope, Handling
  <2>4. IsEffect(e)
    BY DEF IsEffect
  <2>5. h.policy # None
    BY <2>3, <2>4 DEF Vetted, Entered, FirstPolicy
  <2>6. Let(e, h.policy) /\ h.policy \in DOMAIN Policy
    BY <1>0, <2>3, <2>5 DEF Vetted, Handler
  <2>7. Decision(e, h.policy) \in {"allow", "gate", "deny"}
    BY <2>3, <2>4, <2>6, IngestAssumption DEF Decision
  <2>8. h.flag \/ (Env[e].auth # None /\ Env[e].auth.verdict = "approve")
    BY <2>3, <2>4, <2>5, <2>6, <2>7 DEF Vetted, PastMandate
  <2> QED
    BY <2>3, <2>8
<1> QED
  BY <1>2, <1>3

LEMMA LedgerKept == Ledger /\ [IngestNext]_ingestVars => Ledger'
BY VettingKept, ApprovedActsKept, PrivilegedRowsKept, RegistrationsKept, SilenceKept
DEF Ledger

LEMMA LedgerStarts == IngestInit => Ledger
<1> SUFFICES ASSUME IngestInit PROVE Ledger
  OBVIOUS
<1>1. /\ envelopes = {} /\ resumes = {} /\ policies = <<>> /\ manifests = <<>>
      /\ roots = [k \in Key |-> [from |-> IF k \in SeededRoots THEN 0 ELSE Never,
                                 to |-> Never]]
  BY DEF IngestInit, StoreInit
<1>2. PrivilegedRowsAreApproved
  BY <1>1 DEF PrivilegedRowsAreApproved
<1>3. ApprovedActs /\ RegisteredRanGreen /\ NoSilentEffect /\ manifests \in Seq(Manifests)
  BY <1>1 DEF ApprovedActs, RegisteredRanGreen, NoSilentEffect
<1> QED
  BY <1>2, <1>3, VettingStarts DEF Ledger

(* DEF-9: no policy, component, root or resume is written by an effect that   *)
(* did not apply or that no enrolled root other than its author approved,     *)
(* whatever handler judged it and however stale what that handler had read.   *)
THEOREM RowsAreApproved == IngestSpec => []PrivilegedRowsAreApproved
<1>1. Ledger => PrivilegedRowsAreApproved
  BY DEF Ledger
<1> QED
  BY <1>1, LedgerStarts, LedgerKept, PTL DEF IngestSpec

(* Every registration rests on a passed conformance run of that very version, *)
(* itself held and approved by a root (ingest.rs, validate_registration).     *)
THEOREM RegistrationsRanGreen == IngestSpec => []RegisteredRanGreen
<1>1. Ledger => RegisteredRanGreen
  BY DEF Ledger
<1> QED
  BY <1>1, LedgerStarts, LedgerKept, PTL DEF IngestSpec

(* An applied effect that no published version would have let through is held *)
(* with an approval or under a violation flag (ingest.rs, validate_effect).   *)
THEOREM EffectsAreShown == IngestSpec => []NoSilentEffect
<1>1. Ledger => NoSilentEffect
  BY DEF Ledger
<1> QED
  BY <1>1, LedgerStarts, LedgerKept, PTL DEF IngestSpec
================================================================================

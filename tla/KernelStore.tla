------------------------------ MODULE KernelStore ------------------------------
(******************************************************************************)
(* The kernel's SQLite store: the tables one BEGIN IMMEDIATE transaction of   *)
(* Store::append reads and writes, the rejection stream, the retention sweep  *)
(* and the spend rebuild (kernel/stozher-kernel/src/store.rs).                *)
(*                                                                            *)
(* An envelope is named by its id(), a member of Id; Env[e] is what its bytes *)
(* say.  Hashes are opaque: an id is the hash of an envelope, `raw' the       *)
(* object-hash of the request body that carried it, and the two never         *)
(* coincide.  Every action below is one committed transaction; a transaction  *)
(* that is rolled back is not a step, and RefusalCode says what its caller is *)
(* told.                                                                      *)
(******************************************************************************)
EXTENDS Integers, Sequences, FiniteSets, FiniteSetsExt

CONSTANTS
  Stream,         \* stream names
  CoreStream,     \* the kernel's own stream, one of them
  Env,            \* what each envelope says: [Id -> record], see EnvAssumption
  Mandate,        \* mandate ids
  Line,           \* [Mandate -> SUBSET Mandate]: a mandate and its ancestors
  Key,            \* signing keys
  Request,        \* hashes of the action requests an approval can cover
  Instant,        \* the instants time-stamps range over, a set of naturals
  SeededRoots,    \* keys enrolled as configuration before the kernel serves
  SweepTimes,     \* the instants the checkpointer runs the retention sweep at
  Reason,         \* the reason codes a refusal is recorded with
  MaxRejections,  \* bound: rejection records written in one behaviour
  None            \* an absent member, column or row

Id == DOMAIN Env

Never == 1 + CHOOSE t \in Instant : \A u \in Instant : u <= t

EnvAssumption ==
  \A e \in Id :
    /\ Env[e].stream \in Stream
    /\ Env[e].seq \in Nat
    /\ Env[e].raw \notin Id
    /\ Env[e].cost \in Nat
    /\ Env[e].skind # None
    /\ \A k \in Env[e].keep : k.until \in Nat
    /\ Env[e].auth # None => /\ Env[e].auth.req \in Request
                             /\ Env[e].auth.single \in BOOLEAN
    /\ Env[e].proj.tag = "mandate" => Env[e].proj.id \in Mandate
    /\ Env[e].proj.tag = "checkpoint" => /\ Env[e].proj.from \in Nat
                                         /\ Env[e].proj.to \in Nat

ASSUME StoreAssumption ==
  /\ EnvAssumption
  /\ None \notin Id
  /\ SweepTimes \subseteq Nat
  /\ MaxRejections \in Nat

VARIABLES
  envelopes,    \* ids of the rows of `envelopes'
  streams,      \* `streams': the cached kind and head of each stream
  uses,         \* `gate_request_hashes': one row per approval that was used
  rejections,   \* `rejections', in chain order
  resumes,      \* `stream_resumes'
  policies,     \* versions in `policies', in publication order
  manifests,    \* `manifests', in registration order
  roots,        \* `roots': when each key was enrolled and retired
  decisions,    \* `gate_decisions'
  mandates,     \* ids of the rows of `mandates'
  revocations,  \* `revocations'
  checkpoints,  \* `checkpoints'
  spend,        \* `spend': what each mandate has been charged
  payloads,     \* hashes of the rows of `payloads'
  refs,         \* `payload_refs'
  swept         \* the instant of the latest retention sweep

tables  == <<envelopes, streams, uses, resumes, policies, manifests,
             roots, decisions, mandates, revocations, checkpoints, spend,
             payloads, refs>>
storeVars == <<tables, rejections, swept>>

--------------------------------------------------------------------------------
(* Chain position: store.rs reads the head under the write lock.              *)

Held(s) == {e \in envelopes : Env[e].stream = s}

IsHead(h, s) == /\ h \in Held(s)
                /\ \A x \in Held(s) : Env[x].seq <= Env[h].seq

Genesis(e) == /\ Held(Env[e].stream) = {}
              /\ Env[e].seq = 0
              /\ Env[e].prev = None

(* Mutant: the predecessor need not be the head. *)
ForkingContinues(e) == \E h \in Held(Env[e].stream) :
                         Env[e].seq = Env[h].seq + 1 /\ Env[e].prev = h

(* Mutant: prev-hash is not compared. *)
UnlinkedContinues(e) == \E h \in Held(Env[e].stream) :
                          /\ IsHead(h, Env[e].stream)
                          /\ Env[e].seq = Env[h].seq + 1

Continues(e) == \E h \in Held(Env[e].stream) :
                  /\ IsHead(h, Env[e].stream)
                  /\ Env[e].seq = Env[h].seq + 1
                  /\ Env[e].prev = h

(* Mutant: the position is passed over without a resume. *)
UnresumedBridges(e) == LET s == Env[e].stream IN
  \/ Held(s) = {} /\ Env[e].seq = 1
  \/ \E h \in Held(s) : IsHead(h, s) /\ Env[e].seq = Env[h].seq + 2

(* The one exception to the no-gap rule: a human root resumed the stream past *)
(* the position right after the head, and prev-hash names what was refused.   *)
Bridges(e) == LET s == Env[e].stream IN
  /\ \/ Held(s) = {} /\ Env[e].seq = 1
     \/ \E h \in Held(s) : IsHead(h, s) /\ Env[e].seq = Env[h].seq + 2
  /\ \E r \in resumes : /\ r.stream = s
                        /\ r.seq = Env[e].seq - 1
                        /\ r.bridge = Env[e].prev

PositionOk(e) == Genesis(e) \/ Continues(e) \/ Bridges(e)

(* What a submitter at any other position is told. *)
PositionCode(e) == LET held == Held(Env[e].stream) IN
  IF held = {}
  THEN IF Env[e].seq = 0 THEN "chain-genesis-prev-not-null" ELSE "chain-seq-gap"
  ELSE IF \E x \in held : Env[e].seq <= Env[x].seq THEN "chain-seq-duplicate"
  ELSE IF \E h \in held : IsHead(h, Env[e].stream) /\ Env[e].seq = Env[h].seq + 1
       THEN "chain-prev-hash-mismatch"
       ELSE "chain-seq-gap"

--------------------------------------------------------------------------------
(* The plan ingest hands to append: the envelope, and the projection row to   *)
(* write with it.  (Ingest also sets the row's policy_violation column, which *)
(* no transaction reads: KernelIngest keeps it.)                              *)

NoProj == [tag |-> "none"]

Applied(e) == Env[e].outcome \in {"applied", "failed"}

FirstPolicy(e) == /\ Env[e].kind = "policy-change"
                  /\ Env[e].stream = CoreStream
                  /\ Env[e].seq = 1

(* The first policy change of a deployment uses its approval whatever outcome *)
(* it reports; any other envelope only when it reports an applied effect.     *)
SpendsApproval(e) == /\ Env[e].auth # None
                     /\ Applied(e) \/ FirstPolicy(e)

Plan == UNION { {[id |-> e, proj |-> NoProj], [id |-> e, proj |-> Env[e].proj]} :
                e \in Id }

KindMixed(e) == streams[Env[e].stream].kind \notin {None, Env[e].skind}

(* Mutant: only the approval used first is asked whether it is single-use. *)
ReplayedByFirst(e) == /\ SpendsApproval(e)
                      /\ \E u \in uses : u.req = Env[e].auth.req /\ u.single

(* Only a standing approval may be used again; its first row is left alone.   *)
Replayed(e) == /\ SpendsApproval(e)
               /\ \E u \in uses : /\ u.req = Env[e].auth.req
                                  /\ u.single \/ Env[e].auth.single

(* Mutant: something was refused there, whatever it was. *)
SomethingRefusedAt(s, n, hash) ==
  \E i \in DOMAIN rejections : rejections[i].stream = s /\ rejections[i].seq = n

(* The rejection a resume names must be the latest one at that position, and  *)
(* must be of the bytes the root's signature covers.                          *)
RefusedAt(s, n, hash) ==
  \E i \in DOMAIN rejections :
    /\ rejections[i].stream = s /\ rejections[i].seq = n
    /\ rejections[i].object = hash
    /\ \A j \in DOMAIN rejections :
         rejections[j].stream = s /\ rejections[j].seq = n => j <= i

(* Mutant: the first checkpoint of a stream may start anywhere. *)
FollowsSomething(r) ==
  LET ours == {c \in checkpoints : c.stream = r.stream} IN
  ours # {} => \E c \in ours : r.from = c.to + 1 /\ \A d \in ours : d.to <= c.to

(* A checkpoint starts where the one with the highest to-seq stopped. *)
FollowsCheckpoints(r) ==
  LET ours == {c \in checkpoints : c.stream = r.stream} IN
  IF ours = {} THEN r.from = 0
  ELSE \E c \in ours : r.from = c.to + 1 /\ \A d \in ours : d.to <= c.to

ProjectionCode(r) ==
  CASE r.tag = "policy" /\ \E i \in DOMAIN policies : policies[i] = r.version
         -> "policy-version-reused"
    [] r.tag = "manifest" /\ \E i \in DOMAIN manifests :
         manifests[i].name = r.name /\ manifests[i].version = r.version
         -> "manifest-version-retained"
    [] r.tag = "decision" /\ \E d \in decisions : d.req = r.req
         -> "gate-decision-already-recorded"
    [] r.tag = "resume" /\ ~RefusedAt(r.stream, r.seq, r.bridge)
         -> "stream-resume-position-unknown"
    [] r.tag = "checkpoint" /\ (\/ ~FollowsCheckpoints(r)
                                \/ \E c \in checkpoints :
                                     c.stream = r.stream /\ c.from = r.from)
         -> "checkpoint-range-discontinuous"
    [] OTHER -> "ok"

(* append's checks in the order the transaction makes them. *)
RefusalCode(p) ==
  IF KindMixed(p.id) THEN "stream-kind-mixed"
  ELSE IF ~PositionOk(p.id) THEN PositionCode(p.id)
  ELSE IF Replayed(p.id) THEN "gate-authorization-replayed"
  ELSE ProjectionCode(p.proj)

--------------------------------------------------------------------------------
(* What the transaction writes. *)

(* Mutant: the columns of the use row are swapped. *)
SwappedUse(e) ==
  uses' = IF SpendsApproval(e)
          THEN uses \cup {[req |-> e, id |-> Env[e].auth.req,
                           single |-> Env[e].auth.single]}
          ELSE uses

RecordUse(e) ==
  uses' = IF SpendsApproval(e) /\ \A u \in uses : u.req # Env[e].auth.req
          THEN uses \cup {[req |-> Env[e].auth.req, id |-> e,
                           single |-> Env[e].auth.single]}
          ELSE uses

KeepPayloads(e) ==
  /\ payloads' = payloads \cup {k.hash : k \in Env[e].keep}
  /\ refs' = refs \cup {[hash |-> k.hash, id |-> e, until |-> k.until] :
                          k \in Env[e].keep}

(* Accrual reaches the citing mandate and every ancestor of it. *)
Charged(e) == IF Env[e].mandate = None THEN {} ELSE Line[Env[e].mandate]

(* Mutant: the mandates above the citing one are not charged. *)
ChargeLeaf(e) ==
  spend' = [m \in Mandate |-> IF m = Env[e].mandate THEN spend[m] + Env[e].cost
                              ELSE spend[m]]

ChargeMandates(e) ==
  spend' = [m \in Mandate |-> IF m \in Charged(e) THEN spend[m] + Env[e].cost
                              ELSE spend[m]]

(* A repeated mandate, revocation, root or resume row is a no-op (ON CONFLICT *)
(* DO NOTHING, INSERT OR IGNORE), and only a row not yet retired is retired.  *)
WriteProjection(e, r) ==
  /\ mandates' = mandates \cup (IF r.tag = "mandate" THEN {r.id} ELSE {})
  /\ revocations' = revocations \cup
       (IF r.tag = "revocation" THEN {[of |-> r.of, at |-> r.at]} ELSE {})
  /\ policies' = IF r.tag = "policy" THEN Append(policies, r.version) ELSE policies
  /\ manifests' = IF r.tag = "manifest"
                  THEN Append(manifests, [name |-> r.name, version |-> r.version,
                                          key |-> r.key])
                  ELSE manifests
  /\ roots' = CASE r.tag = "enroll" /\ roots[r.key].from = Never
                     -> [roots EXCEPT ![r.key].from = Env[e].at]
                [] r.tag = "retire" /\ roots[r.key].from # Never
                                    /\ roots[r.key].to = Never
                     -> [roots EXCEPT ![r.key].to = Env[e].at]
                [] OTHER -> roots
  /\ decisions' = decisions \cup
       (IF r.tag = "decision"
        THEN {[req |-> r.req, verdict |-> r.verdict, by |-> r.by]} ELSE {})
  /\ resumes' = resumes \cup
       (IF /\ r.tag = "resume"
           /\ \A x \in resumes : x.stream # r.stream \/ x.seq # r.seq
        THEN {[stream |-> r.stream, seq |-> r.seq, bridge |-> r.bridge]} ELSE {})
  /\ checkpoints' = checkpoints \cup
       (IF r.tag = "checkpoint"
        THEN {[stream |-> r.stream, from |-> r.from, to |-> r.to, head |-> r.head]}
        ELSE {})

(* Store::append for an envelope the store does not hold and does not refuse. *)
AppendPlan(p) == LET e == p.id IN
  /\ e \notin envelopes
  /\ RefusalCode(p) = "ok"
  /\ envelopes' = envelopes \cup {e}
  /\ streams' = [streams EXCEPT ![Env[e].stream] =
                   [kind |-> Env[e].skind, seq |-> Env[e].seq, head |-> e]]
  /\ RecordUse(e)
  /\ KeepPayloads(e)
  /\ ChargeMandates(e)
  /\ WriteProjection(e, p.proj)
  /\ UNCHANGED <<rejections, swept>>

(* Store::record_rejection: what the refused bytes claimed, and their hash. *)
RecordRejection(e, code) ==
  /\ Len(rejections) < MaxRejections
  /\ rejections' = Append(rejections, [reason |-> code, object |-> Env[e].raw,
                                       stream |-> Env[e].stream, seq |-> Env[e].seq])
  /\ UNCHANGED <<tables, swept>>

(* Store::decay_payloads: bytes no reference still retains are deleted; the   *)
(* references stay.                                                           *)
DecayPayloads(now) ==
  /\ now \in SweepTimes /\ now >= swept
  /\ payloads' = {h \in payloads : \E r \in refs : r.hash = h /\ r.until > now}
  /\ swept' = now
  /\ UNCHANGED <<envelopes, streams, uses, rejections, resumes, policies,
                 manifests, roots, decisions, mandates, revocations, checkpoints,
                 spend, refs>>

(* Store::rebuild_spend: drop the projection and fold the log again. *)
SpendFold == [m \in Mandate |->
                MapThenSumSet(LAMBDA e : Env[e].cost,
                              {e \in envelopes : m \in Charged(e)})]

RebuildSpend ==
  /\ spend' = SpendFold
  /\ UNCHANGED <<envelopes, streams, uses, rejections, resumes, policies,
                 manifests, roots, decisions, mandates, revocations, checkpoints,
                 payloads, refs, swept>>

StoreInit ==
  /\ envelopes = {} /\ uses = {} /\ rejections = <<>>
  /\ resumes = {} /\ policies = <<>> /\ manifests = <<>>
  /\ streams = [s \in Stream |-> [kind |-> None, seq |-> 0, head |-> None]]
  /\ roots = [k \in Key |-> [from |-> IF k \in SeededRoots THEN 0 ELSE Never,
                             to |-> Never]]
  /\ decisions = {} /\ mandates = {} /\ revocations = {} /\ checkpoints = {}
  /\ spend = [m \in Mandate |-> 0]
  /\ payloads = {} /\ refs = {} /\ swept = 0

(* Every plan is offered in every state: what the store promises it promises  *)
(* whatever ingest let through.                                               *)
StoreNext ==
  \/ \E p \in Plan : AppendPlan(p)
  \/ \E e \in Id, code \in Reason : RecordRejection(e, code)
  \/ \E now \in SweepTimes : DecayPayloads(now)
  \/ RebuildSpend

StoreSpec == StoreInit /\ [][StoreNext]_storeVars

--------------------------------------------------------------------------------
(* Types of the tables the proofs reason about. *)
TypeOK ==
  /\ envelopes \subseteq Id
  /\ uses \subseteq [req : Request, id : Id, single : BOOLEAN]
  /\ rejections \in Seq([reason : Reason, object : {Env[e].raw : e \in Id},
                         stream : Stream, seq : {Env[e].seq : e \in Id}])
  /\ mandates \subseteq Mandate
  /\ \A r \in refs : r.until \in Nat
  /\ \A c \in checkpoints : c.from \in Nat /\ c.to \in Nat
  /\ swept \in Nat
  /\ DOMAIN streams = Stream
  /\ DOMAIN spend = Mandate

(* No two held envelopes share a chain position: the PRIMARY KEY, and the     *)
(* position rule that makes it unreachable, under bridges and resumes too.    *)
OnePerPosition ==
  \A e, f \in envelopes :
    Env[e].stream = Env[f].stream /\ Env[e].seq = Env[f].seq => e = f

(* Every held envelope is a genesis, follows the envelope it names, or stands *)
(* past a position a resume names and nothing is held at: the bridge never    *)
(* fills the refused position (store.rs, the comment on `bridgeable_at').     *)
ChainLinked ==
  \A e \in envelopes :
    \/ Env[e].seq = 0 /\ Env[e].prev = None
    \/ \E f \in envelopes : /\ Env[f].stream = Env[e].stream
                            /\ Env[e].seq = Env[f].seq + 1
                            /\ Env[e].prev = f
    \/ /\ \E r \in resumes : /\ r.stream = Env[e].stream
                             /\ r.seq = Env[e].seq - 1
                             /\ r.bridge = Env[e].prev
       /\ \A f \in envelopes : Env[f].stream = Env[e].stream
                                 => Env[f].seq # Env[e].seq - 1

(* One approval, one effect: two held envelopes carry the same approval only  *)
(* when both were signed as standing (§06 §3, the replay set).                *)
SingleUse ==
  \A e, f \in envelopes :
    /\ e # f /\ SpendsApproval(e) /\ SpendsApproval(f)
    /\ Env[e].auth.req = Env[f].auth.req
    => ~Env[e].auth.single /\ ~Env[f].auth.single

(* Every bridge was authorized over bytes this kernel really refused there,   *)
(* whatever was rejected, resumed or appended since (§04 §7.2 rule 5).        *)
BridgeNamesRefusal ==
  \A r \in resumes : \E i \in DOMAIN rejections :
    /\ rejections[i].stream = r.stream /\ rejections[i].seq = r.seq
    /\ rejections[i].object = r.bridge

(* The cached head of `streams' is the head of the chain, and a stream's kind *)
(* is the kind of every record in it: the quiet-stream surface and the        *)
(* kind check both trust the row without reading the chain.                   *)
HeadCached ==
  \A s \in Stream :
    IF Held(s) = {} THEN streams[s].kind = None
    ELSE /\ streams[s].head \in envelopes
         /\ IsHead(streams[s].head, s)
         /\ streams[s].seq = Env[streams[s].head].seq
         /\ \A e \in Held(s) : Env[e].skind = streams[s].kind

(* Retention never deletes bytes some envelope still retains, also when the   *)
(* same payload was committed by several envelopes with different dates.      *)
RetainedIsStored ==
  \A r \in refs : r.until > swept => r.hash \in payloads

(* "Drop the table, replay the log, get the same figures": the transactional  *)
(* accrual and a rebuild agree in every state, so a rebuild changes nothing   *)
(* wherever it falls between appends (store.rs, rebuild_spend).               *)
SpendIsFold == spend = SpendFold

(* Checkpoints of a stream tile its prefix: none overlaps another, none       *)
(* leaves a range unattested.                                                 *)
CheckpointsTile ==
  \A c \in checkpoints :
    /\ c.from = 0 \/ \E d \in checkpoints : d.stream = c.stream /\ d.to = c.from - 1
    /\ \A d \in checkpoints :
         d # c /\ d.stream = c.stream => d.to < c.from \/ c.to < d.from
--------------------------------------------------------------------------------
(* The refinement: the log is the held envelopes at their positions, and an   *)
(* entry rests on the approval its envelope used.                             *)
Log == INSTANCE AuditLog WITH
         Entry <- Id,
         Position <- {Env[e].seq : e \in Id},
         log <- {<<Env[e].stream, Env[e].seq, e>> : e \in envelopes},
         refused <- {<<rejections[i].stream, rejections[i].seq>> :
                       i \in DOMAIN rejections},
         backed <- {<<Env[e].auth.req, e, Env[e].auth.single>> :
                      e \in {f \in envelopes : SpendsApproval(f)}}

(* The store implements AuditLog: whatever plans reach append, and however    *)
(* refusals, resumes, sweeps and rebuilds fall between them, each stream is a *)
(* log that grows at its end and passes over refused positions only.          *)
ImplementsAuditLog == Log!LogSpec
================================================================================

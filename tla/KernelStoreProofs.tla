--------------------------- MODULE KernelStoreProofs ---------------------------
(******************************************************************************)
(* The store's invariants and its refinement of AuditLog, for any set of      *)
(* envelopes, streams, keys and mandates.                                     *)
(******************************************************************************)
EXTENDS KernelStore, FiniteSetTheorems, TLAPS

(* An envelope that is accepted has passed each of append's checks. *)
LEMMA Accepted ==
  ASSUME NEW p \in Plan, RefusalCode(p) = "ok"
  PROVE  /\ p.id \in Id
         /\ ~KindMixed(p.id)
         /\ PositionOk(p.id)
         /\ ~Replayed(p.id)
         /\ ProjectionCode(p.proj) = "ok"
         /\ p.proj = NoProj \/ p.proj = Env[p.id].proj
<1>1. PositionCode(p.id) # "ok"
  BY DEF PositionCode
<1>2. p.id \in Id /\ (p.proj = NoProj \/ p.proj = Env[p.id].proj)
  BY DEF Plan
<1> QED
  BY <1>1, <1>2 DEF RefusalCode

(* The position rule puts every accepted envelope strictly past its stream.   *)
LEMMA PastTheHead ==
  ASSUME NEW e \in Id, envelopes \subseteq Id, PositionOk(e)
  PROVE  \A x \in Held(Env[e].stream) : Env[x].seq < Env[e].seq
<1> USE StoreAssumption DEF StoreAssumption, EnvAssumption
<1>1. \A x \in Held(Env[e].stream) : x \in Id /\ Env[x].seq \in Nat
  BY DEF Held
<1>2. CASE Genesis(e)
  BY <1>2 DEF Genesis
<1>3. CASE Continues(e)
  BY <1>1, <1>3 DEF Continues, IsHead
<1>4. CASE Bridges(e)
  BY <1>1, <1>4 DEF Bridges, IsHead
<1> QED
  BY <1>2, <1>3, <1>4 DEF PositionOk

--------------------------------------------------------------------------------
(* Types. *)

LEMMA InitTyped == StoreInit => TypeOK
BY StoreAssumption DEF StoreInit, TypeOK

LEMMA NextTyped == TypeOK /\ [StoreNext]_storeVars => TypeOK'
<1> SUFFICES ASSUME TypeOK, [StoreNext]_storeVars PROVE TypeOK'
  OBVIOUS
<1> USE StoreAssumption DEF StoreAssumption, EnvAssumption
<1>1. ASSUME NEW p \in Plan, AppendPlan(p) PROVE TypeOK'
  <2> DEFINE e == p.id
  <2>1. e \in Id /\ (p.proj = NoProj \/ p.proj = Env[e].proj)
    BY <1>1, Accepted DEF AppendPlan
  <2>2. (envelopes \subseteq Id)'
    BY <1>1, <2>1 DEF AppendPlan, TypeOK
  <2>3. (uses \subseteq [req : Request, id : Id, single : BOOLEAN])'
    BY <1>1, <2>1 DEF AppendPlan, RecordUse, SpendsApproval, TypeOK
  <2>4. (mandates \subseteq Mandate)'
    BY <1>1, <2>1 DEF AppendPlan, WriteProjection, NoProj, TypeOK
  <2>5. (\A r \in refs : r.until \in Nat)'
    BY <1>1, <2>1 DEF AppendPlan, KeepPayloads, TypeOK
  <2>6. (\A c \in checkpoints : c.from \in Nat /\ c.to \in Nat)'
    BY <1>1, <2>1 DEF AppendPlan, WriteProjection, NoProj, TypeOK
  <2>7. (DOMAIN streams = Stream /\ DOMAIN spend = Mandate)'
    BY <1>1 DEF AppendPlan, ChargeMandates, TypeOK
  <2>8. UNCHANGED <<rejections, swept>>
    BY <1>1 DEF AppendPlan
  <2> QED
    BY <2>2, <2>3, <2>4, <2>5, <2>6, <2>7, <2>8 DEF TypeOK
<1>2. ASSUME NEW e \in Id, NEW code \in Reason, RecordRejection(e, code)
      PROVE  TypeOK'
  BY <1>2 DEF RecordRejection, TypeOK, tables
<1>3. ASSUME NEW now \in SweepTimes, DecayPayloads(now) PROVE TypeOK'
  BY <1>3 DEF DecayPayloads, TypeOK
<1>4. CASE RebuildSpend
  BY <1>4 DEF RebuildSpend, SpendFold, TypeOK
<1>5. CASE UNCHANGED storeVars
  BY <1>5 DEF storeVars, tables, TypeOK
<1> QED
  BY <1>1, <1>2, <1>3, <1>4, <1>5 DEF StoreNext

(* The tables hold rows of their types, whatever plans ingest hands over.     *)
THEOREM StoreTyped == StoreSpec => []TypeOK
BY InitTyped, NextTyped, PTL DEF StoreSpec

--------------------------------------------------------------------------------
(* Only an append touches a chain, a resume, a use or a checkpoint. *)

chainTables == <<envelopes, streams, uses, resumes, checkpoints>>

LEMMA OnlyAppendChains ==
  ASSUME [StoreNext]_storeVars
  PROVE  \/ \E p \in Plan : AppendPlan(p)
         \/ UNCHANGED chainTables
BY DEF StoreNext, storeVars, tables, chainTables, RecordRejection, DecayPayloads,
       RebuildSpend

(* Rejections are only ever added to. *)
LEMMA RejectionsGrow ==
  ASSUME TypeOK, [StoreNext]_storeVars
  PROVE  \A i \in DOMAIN rejections : /\ i \in DOMAIN rejections'
                                      /\ rejections'[i] = rejections[i]
<1>1. ASSUME NEW p \in Plan, AppendPlan(p) PROVE UNCHANGED rejections
  BY <1>1 DEF AppendPlan
<1>2. ASSUME NEW e \in Id, NEW code \in Reason, RecordRejection(e, code)
      PROVE  \A i \in DOMAIN rejections : /\ i \in DOMAIN rejections'
                                          /\ rejections'[i] = rejections[i]
  BY <1>2 DEF RecordRejection, TypeOK
<1>3. ASSUME NEW now \in SweepTimes, DecayPayloads(now) PROVE UNCHANGED rejections
  BY <1>3 DEF DecayPayloads
<1>4. CASE RebuildSpend
  BY <1>4 DEF RebuildSpend
<1> QED
  BY <1>1, <1>2, <1>3, <1>4 DEF StoreNext, storeVars

(* The positions of a stream, and how its envelopes link.                     *)
Chained == TypeOK /\ OnePerPosition /\ ChainLinked

LEMMA NextChained == Chained /\ [StoreNext]_storeVars => Chained'
<1> SUFFICES ASSUME Chained, [StoreNext]_storeVars PROVE Chained'
  OBVIOUS
<1> USE StoreAssumption DEF StoreAssumption, EnvAssumption
<1>0. TypeOK /\ TypeOK' /\ envelopes \subseteq Id
  BY NextTyped DEF Chained, TypeOK
<1>1. ASSUME NEW p \in Plan, AppendPlan(p)
      PROVE  OnePerPosition' /\ ChainLinked'
  <2> DEFINE e == p.id
             s == Env[e].stream
  <2>1. /\ e \in Id /\ PositionOk(e)
        /\ envelopes' = envelopes \cup {e}
        /\ resumes \subseteq resumes'
    BY <1>1, Accepted DEF AppendPlan, WriteProjection
  <2>2. \A x \in envelopes : Env[x].stream = s => Env[x].seq < Env[e].seq
    BY <1>0, <2>1, PastTheHead DEF Held
  <2>3. OnePerPosition'
    BY <1>0, <2>1, <2>2 DEF Chained, OnePerPosition
  <2>4. ASSUME NEW f \in envelopes'
        PROVE  \/ Env[f].seq = 0 /\ Env[f].prev = None
               \/ \E g \in envelopes' : /\ Env[g].stream = Env[f].stream
                                        /\ Env[f].seq = Env[g].seq + 1
                                        /\ Env[f].prev = g
               \/ /\ \E r \in resumes' : /\ r.stream = Env[f].stream
                                         /\ r.seq = Env[f].seq - 1
                                         /\ r.bridge = Env[f].prev
                  /\ \A g \in envelopes' : Env[g].stream = Env[f].stream
                                             => Env[g].seq # Env[f].seq - 1
    <3>1. CASE f \in envelopes
      BY <1>0, <2>1, <2>2, <3>1 DEF Chained, ChainLinked
    <3>2. CASE f = e /\ Genesis(e)
      BY <3>2 DEF Genesis
    <3>3. CASE f = e /\ Continues(e)
      BY <2>1, <3>3 DEF Continues, IsHead, Held
    <3>4. CASE f = e /\ Bridges(e)
      <4>1. \E r \in resumes' : /\ r.stream = s
                                /\ r.seq = Env[e].seq - 1
                                /\ r.bridge = Env[e].prev
        BY <2>1, <3>4 DEF Bridges
      <4>2. \A g \in envelopes : Env[g].stream = s => Env[g].seq # Env[e].seq - 1
        BY <1>0, <2>1, <3>4 DEF Bridges, IsHead, Held
      <4> QED
        BY <1>0, <2>1, <3>4, <4>1, <4>2
    <3> QED
      BY <2>1, <3>1, <3>2, <3>3, <3>4 DEF PositionOk
  <2> QED
    BY <2>3, <2>4 DEF ChainLinked
<1>2. ASSUME UNCHANGED chainTables
      PROVE  OnePerPosition' /\ ChainLinked'
  BY <1>2 DEF chainTables, Chained, OnePerPosition, ChainLinked
<1> QED
  BY <1>0, <1>1, <1>2, OnlyAppendChains DEF Chained

(* No two held envelopes share a position, under bridges and resumes too.     *)
THEOREM Positions == StoreSpec => []OnePerPosition
<1>1. StoreInit => Chained
  BY InitTyped DEF StoreInit, Chained, OnePerPosition, ChainLinked
<1> QED
  BY <1>1, NextChained, PTL DEF StoreSpec, Chained

(* Every held envelope links to its predecessor or bridges a refused position *)
(* that nothing fills: the chain can be walked from its first envelope.       *)
THEOREM Linked == StoreSpec => []ChainLinked
<1>1. StoreInit => Chained
  BY InitTyped DEF StoreInit, Chained, OnePerPosition, ChainLinked
<1> QED
  BY <1>1, NextChained, PTL DEF StoreSpec, Chained

--------------------------------------------------------------------------------
(* Single use.  The row of `uses' is what a later transaction sees of an      *)
(* approval, so it must say of every envelope that used it whether it may be  *)
(* used again.                                                                *)

UsesRecorded ==
  \A e \in envelopes : SpendsApproval(e) =>
    \E u \in uses : u.req = Env[e].auth.req /\ u.single = Env[e].auth.single

OneUse == TypeOK /\ UsesRecorded /\ SingleUse

LEMMA NextOneUse == OneUse /\ [StoreNext]_storeVars => OneUse'
<1> SUFFICES ASSUME OneUse, [StoreNext]_storeVars PROVE OneUse'
  OBVIOUS
<1>0. TypeOK /\ TypeOK' /\ envelopes \subseteq Id
  BY NextTyped DEF OneUse, TypeOK
<1>1. ASSUME NEW p \in Plan, AppendPlan(p)
      PROVE  UsesRecorded' /\ SingleUse'
  <2> DEFINE e == p.id
  <2>1. /\ e \in Id /\ ~Replayed(e) /\ RecordUse(e)
        /\ envelopes' = envelopes \cup {e}
    BY <1>1, Accepted DEF AppendPlan
  <2>2. SpendsApproval(e) => Env[e].auth.single \in BOOLEAN
    BY <2>1, StoreAssumption DEF StoreAssumption, EnvAssumption, SpendsApproval
  <2>3. uses \subseteq uses'
    BY <2>1 DEF RecordUse
  <2>4. ASSUME SpendsApproval(e)
        PROVE  \E u \in uses' : u.req = Env[e].auth.req /\ u.single = Env[e].auth.single
    <3>1. CASE \A u \in uses : u.req # Env[e].auth.req
      <4> DEFINE row == [req |-> Env[e].auth.req, id |-> e, single |-> Env[e].auth.single]
      <4>1. row \in uses'
        BY <2>1, <2>4, <3>1 DEF RecordUse
      <4> QED
        BY <4>1
    <3>2. CASE \E u \in uses : u.req = Env[e].auth.req
      <4>1. PICK u \in uses : u.req = Env[e].auth.req
        BY <3>2
      <4>2. ~u.single /\ ~Env[e].auth.single /\ u.single \in BOOLEAN
        BY <1>0, <2>1, <2>4, <4>1 DEF Replayed, TypeOK
      <4> QED
        BY <2>2, <2>3, <2>4, <4>1, <4>2
    <3> QED
      BY <3>1, <3>2
  <2>5. UsesRecorded'
    BY <2>1, <2>3, <2>4 DEF OneUse, UsesRecorded, SpendsApproval, FirstPolicy, Applied
  <2>6. ASSUME NEW f \in envelopes, SpendsApproval(e), SpendsApproval(f),
               Env[f].auth.req = Env[e].auth.req
        PROVE  ~Env[f].auth.single /\ ~Env[e].auth.single
    <3>1. PICK u \in uses : u.req = Env[f].auth.req /\ u.single = Env[f].auth.single
      BY <2>6 DEF OneUse, UsesRecorded
    <3> QED
      BY <2>1, <2>6, <3>1 DEF Replayed
  <2>7. SingleUse'
    BY <2>1, <2>6 DEF OneUse, SingleUse, SpendsApproval, FirstPolicy, Applied
  <2> QED
    BY <2>5, <2>7
<1>2. ASSUME UNCHANGED chainTables
      PROVE  UsesRecorded' /\ SingleUse'
  BY <1>2 DEF chainTables, OneUse, UsesRecorded, SingleUse, SpendsApproval,
              FirstPolicy, Applied
<1> QED
  BY <1>0, <1>1, <1>2, OnlyAppendChains DEF OneUse

(* One approval, one effect.                                                  *)
THEOREM ApprovalsUsedOnce == StoreSpec => []SingleUse
<1>1. StoreInit => OneUse
  BY InitTyped DEF StoreInit, OneUse, UsesRecorded, SingleUse
<1> QED
  BY <1>1, NextOneUse, PTL DEF StoreSpec, OneUse

--------------------------------------------------------------------------------
(* Bridges. *)

Bridged == TypeOK /\ BridgeNamesRefusal

LEMMA NextBridged == Bridged /\ [StoreNext]_storeVars => Bridged'
<1> SUFFICES ASSUME Bridged, [StoreNext]_storeVars PROVE Bridged'
  OBVIOUS
<1>0. TypeOK /\ TypeOK'
  BY NextTyped DEF Bridged
<1>1. ASSUME NEW r \in resumes' PROVE
        \E i \in DOMAIN rejections : /\ rejections[i].stream = r.stream
                                     /\ rejections[i].seq = r.seq
                                     /\ rejections[i].object = r.bridge
  <2>1. CASE r \in resumes
    BY <2>1 DEF Bridged, BridgeNamesRefusal
  <2>2. CASE r \notin resumes
    <3>1. PICK p \in Plan : AppendPlan(p)
      BY <1>1, <2>2, OnlyAppendChains DEF chainTables
    <3>2. /\ p.proj.tag = "resume"
          /\ r = [stream |-> p.proj.stream, seq |-> p.proj.seq, bridge |-> p.proj.bridge]
      BY <1>1, <2>2, <3>1 DEF AppendPlan, WriteProjection
    <3>3. RefusedAt(p.proj.stream, p.proj.seq, p.proj.bridge)
      BY <3>1, <3>2, Accepted DEF AppendPlan, ProjectionCode
    <3> QED
      BY <3>2, <3>3 DEF RefusedAt
  <2> QED
    BY <2>1, <2>2
<1> QED
  BY <1>0, <1>1, RejectionsGrow DEF Bridged, BridgeNamesRefusal

(* A stream is only ever resumed past bytes this kernel refused there.        *)
THEOREM BridgesNameRefusals == StoreSpec => []BridgeNamesRefusal
<1>1. StoreInit => Bridged
  BY InitTyped DEF StoreInit, Bridged, BridgeNamesRefusal
<1> QED
  BY <1>1, NextBridged, PTL DEF StoreSpec, Bridged

--------------------------------------------------------------------------------
(* The rows of `streams', `checkpoints' and `payloads'. *)

HeadRow(s) ==
  IF Held(s) = {} THEN streams[s].kind = None
  ELSE /\ streams[s].head \in Held(s)
       /\ \A x \in Held(s) : Env[x].seq <= Env[streams[s].head].seq
       /\ streams[s].seq = Env[streams[s].head].seq
       /\ \A x \in Held(s) : Env[x].skind = streams[s].kind

LEMMA HeadRows == HeadCached <=> \A s \in Stream : HeadRow(s)
BY DEF HeadCached, HeadRow, IsHead, Held

Headed == TypeOK /\ \A s \in Stream : HeadRow(s)

LEMMA NextHeaded == Headed /\ [StoreNext]_storeVars => Headed'
<1> SUFFICES ASSUME Headed, [StoreNext]_storeVars PROVE Headed'
  OBVIOUS
<1> USE StoreAssumption DEF StoreAssumption, EnvAssumption
<1>0. TypeOK /\ TypeOK' /\ envelopes \subseteq Id /\ DOMAIN streams = Stream
  BY NextTyped DEF Headed, TypeOK
<1>1. ASSUME NEW p \in Plan, AppendPlan(p), NEW s \in Stream PROVE HeadRow(s)'
  <2> DEFINE e == p.id
  <2>1. /\ e \in Id /\ PositionOk(e) /\ ~KindMixed(e)
        /\ envelopes' = envelopes \cup {e}
        /\ streams' = [streams EXCEPT ![Env[e].stream] =
                         [kind |-> Env[e].skind, seq |-> Env[e].seq, head |-> e]]
    BY <1>1, Accepted DEF AppendPlan
  <2>2. \A x \in Held(Env[e].stream) : Env[x].seq < Env[e].seq
    BY <1>0, <2>1, PastTheHead
  <2>3. CASE s # Env[e].stream
    <3>1. Held(s)' = Held(s) /\ streams'[s] = streams[s]
      BY <1>0, <2>1, <2>3 DEF Held
    <3> QED
      BY <3>1 DEF Headed, HeadRow
  <2>4. CASE s = Env[e].stream
    <3>1. /\ streams'[s] = [kind |-> Env[e].skind, seq |-> Env[e].seq, head |-> e]
          /\ Held(s)' = Held(s) \cup {e}
      BY <1>0, <2>1, <2>4 DEF Held
    <3>2. \A x \in Held(s) : Env[x].seq <= Env[e].seq
      BY <1>0, <2>1, <2>2, <2>4 DEF Held
    <3>3. \A x \in Held(s) : Env[x].skind = streams[s].kind /\ Env[x].skind # None
      BY <1>0 DEF Headed, HeadRow, Held
    <3>4. \A x \in Held(s) : Env[x].skind = Env[e].skind
      BY <2>1, <2>4, <3>3 DEF KindMixed
    <3>5. Env[e].seq <= Env[e].seq
      BY <2>1
    <3> QED
      BY <3>1, <3>2, <3>4, <3>5 DEF HeadRow
  <2> QED
    BY <2>3, <2>4
<1>2. ASSUME UNCHANGED chainTables, NEW s \in Stream PROVE HeadRow(s)'
  <2>1. Held(s)' = Held(s) /\ streams' = streams
    BY <1>2 DEF chainTables, Held
  <2> QED
    BY <2>1 DEF Headed, HeadRow
<1>3. \A s \in Stream : HeadRow(s)'
  BY <1>1, <1>2, OnlyAppendChains
<1> QED
  BY <1>0, <1>3 DEF Headed

(* The cached head of a stream is its last envelope, and its kind the kind of *)
(* every envelope in it.                                                      *)
THEOREM HeadsCached == StoreSpec => []HeadCached
<1>1. StoreInit => Headed
  BY InitTyped DEF StoreInit, Headed, HeadRow, Held
<1>2. Headed => HeadCached
  BY HeadRows DEF Headed
<1> QED
  BY <1>1, <1>2, NextHeaded, PTL DEF StoreSpec

Tiled == TypeOK /\ CheckpointsTile

LEMMA NextTiled == Tiled /\ [StoreNext]_storeVars => Tiled'
<1> SUFFICES ASSUME Tiled, [StoreNext]_storeVars PROVE Tiled'
  OBVIOUS
<1>0. TypeOK /\ TypeOK'
  BY NextTyped DEF Tiled
<1>1. \A c \in checkpoints' : c.from \in Nat /\ c.to \in Nat
  BY <1>0 DEF TypeOK
<1>2. ASSUME checkpoints' = checkpoints PROVE CheckpointsTile'
  BY <1>2 DEF Tiled, CheckpointsTile
<1>3. ASSUME checkpoints' # checkpoints PROVE CheckpointsTile'
  <2>1. PICK p \in Plan : AppendPlan(p)
    BY <1>3, OnlyAppendChains DEF chainTables
  <2> DEFINE r == p.proj
             c == [stream |-> r.stream, from |-> r.from, to |-> r.to, head |-> r.head]
  <2>2. r.tag = "checkpoint" /\ checkpoints' = checkpoints \cup {c}
    BY <1>3, <2>1 DEF AppendPlan, WriteProjection
  <2>3. FollowsCheckpoints(r)
    BY <2>1, <2>2, Accepted DEF AppendPlan, ProjectionCode
  <2>4. \A d \in checkpoints : d.stream = c.stream => d.to < c.from
    <3>1. ASSUME NEW d \in checkpoints, d.stream = r.stream PROVE d.to < r.from
      BY <1>1, <2>2, <2>3, <3>1 DEF FollowsCheckpoints
    <3> QED
      BY <3>1
  <2>5. c.from = 0 \/ \E d \in checkpoints : d.stream = c.stream /\ d.to = c.from - 1
    BY <1>1, <2>2, <2>3 DEF FollowsCheckpoints
  <2>6. c.from \in Nat /\ c.to \in Nat
    BY <1>1, <2>2
  <2> HIDE DEF c
  <2>7. ASSUME NEW x \in checkpoints'
        PROVE  x.from = 0 \/ \E d \in checkpoints' : d.stream = x.stream
                                                    /\ d.to = x.from - 1
    BY <2>2, <2>5, <2>7 DEF Tiled, CheckpointsTile
  <2>8. ASSUME NEW x \in checkpoints', NEW d \in checkpoints', d # x,
               d.stream = x.stream
        PROVE  d.to < x.from \/ x.to < d.from
    BY <2>2, <2>4, <2>8 DEF Tiled, CheckpointsTile
  <2> QED
    BY <2>7, <2>8 DEF CheckpointsTile
<1> QED
  BY <1>0, <1>2, <1>3 DEF Tiled

(* The checkpoints of a stream tile a prefix of it.                           *)
THEOREM CheckpointsAreContiguous == StoreSpec => []CheckpointsTile
<1>1. StoreInit => Tiled
  BY InitTyped DEF StoreInit, Tiled, CheckpointsTile
<1> QED
  BY <1>1, NextTiled, PTL DEF StoreSpec, Tiled

Retained == TypeOK /\ RetainedIsStored

LEMMA NextRetained == Retained /\ [StoreNext]_storeVars => Retained'
<1> SUFFICES ASSUME Retained, [StoreNext]_storeVars PROVE Retained'
  OBVIOUS
<1>0. TypeOK /\ TypeOK'
  BY NextTyped DEF Retained
<1>1. ASSUME NEW p \in Plan, AppendPlan(p) PROVE RetainedIsStored'
  BY <1>1 DEF AppendPlan, KeepPayloads, Retained, RetainedIsStored
<1>2. ASSUME NEW e \in Id, NEW code \in Reason, RecordRejection(e, code)
      PROVE  RetainedIsStored'
  BY <1>2 DEF RecordRejection, tables, Retained, RetainedIsStored
<1>3. ASSUME NEW now \in SweepTimes, DecayPayloads(now) PROVE RetainedIsStored'
  <2>1. /\ swept' = now /\ now >= swept /\ refs' = refs
        /\ payloads' = {h \in payloads : \E r \in refs : r.hash = h /\ r.until > now}
    BY <1>3 DEF DecayPayloads
  <2>2. ASSUME NEW r \in refs, r.until > now PROVE r.hash \in payloads
    <3>1. r.until > swept
      BY <1>0, <2>1, <2>2 DEF TypeOK
    <3> QED
      BY <3>1 DEF Retained, RetainedIsStored
  <2> QED
    BY <2>1, <2>2 DEF RetainedIsStored
<1>4. ASSUME RebuildSpend PROVE RetainedIsStored'
  BY <1>4 DEF RebuildSpend, Retained, RetainedIsStored
<1>5. ASSUME UNCHANGED storeVars PROVE RetainedIsStored'
  BY <1>5 DEF storeVars, tables, Retained, RetainedIsStored
<1> QED
  BY <1>0, <1>1, <1>2, <1>3, <1>4, <1>5 DEF StoreNext, Retained

(* The sweep never deletes a payload some envelope still retains.             *)
THEOREM RetentionKeeps == StoreSpec => []RetainedIsStored
<1>1. StoreInit => Retained
  BY InitTyped DEF StoreInit, Retained, RetainedIsStored
<1> QED
  BY <1>1, NextRetained, PTL DEF StoreSpec, Retained

--------------------------------------------------------------------------------
(* The refinement. *)

Refining == TypeOK /\ UsesRecorded /\ BridgeNamesRefusal

logBar == {<<Env[e].stream, Env[e].seq, e>> : e \in envelopes}
refusedBar == {<<rejections[i].stream, rejections[i].seq>> : i \in DOMAIN rejections}
backedBar == {<<Env[e].auth.req, e, Env[e].auth.single>> :
                e \in {f \in envelopes : SpendsApproval(f)}}

LEMMA RejectionTyped ==
  ASSUME TypeOK, NEW i \in DOMAIN rejections
  PROVE  rejections[i].seq \in {Env[e].seq : e \in Id}
<1> DEFINE Raws == {Env[e].raw : e \in Id}
           Seqs == {Env[e].seq : e \in Id}
           Row == [reason : Reason, object : Raws, stream : Stream, seq : Seqs]
<1>1. rejections \in Seq(Row)
  BY DEF TypeOK
<1> HIDE DEF Row
<1>2. rejections[i] \in Row
  BY <1>1
<1> USE DEF Row
<1> HIDE DEF Raws, Seqs
<1>3. rejections[i].seq \in Seqs
  BY <1>2
<1> QED
  BY <1>3 DEF Seqs

(* An append is one entry recorded where its stream ends, or one refused      *)
(* position past that, resting on an approval nothing single-use shares.      *)
LEMMA AppendRecords ==
  ASSUME Refining, NEW p \in Plan, AppendPlan(p)
  PROVE  Log!Record(Env[p.id].stream, Env[p.id].seq, p.id)
<1> USE StoreAssumption DEF StoreAssumption, EnvAssumption
<1> DEFINE e == p.id
           s == Env[e].stream
           n == Env[e].seq
<1>1. /\ e \in Id /\ e \notin envelopes /\ PositionOk(e) /\ ~Replayed(e)
      /\ envelopes' = envelopes \cup {e}
      /\ UNCHANGED rejections
  BY Accepted DEF AppendPlan
<1>2. envelopes \subseteq Id
  BY DEF Refining, TypeOK
<1>3. logBar' = logBar \cup {<<s, n, e>>}
  BY <1>1 DEF logBar
<1>4. \A x \in logBar : x[3] # e
  BY <1>1 DEF logBar
<1>5. \/ Log!EndsAt(s, n)
      \/ \E m \in {Env[x].seq : x \in Id} :
           m + 1 = n /\ Log!EndsAt(s, m) /\ <<s, m>> \in refusedBar
  <2>1. \A x \in logBar : /\ x[3] \in Id /\ x[2] = Env[x[3]].seq /\ x[2] \in Nat
                          /\ x[1] = s <=> x[3] \in Held(s)
    BY <1>2 DEF logBar, Held
  <2>2. \A h \in Held(s) : <<s, Env[h].seq, h>> \in logBar
    BY DEF logBar, Held
  <2>3. CASE Genesis(e)
    BY <2>1, <2>3 DEF Genesis, Log!EndsAt, logBar
  <2>4. CASE Continues(e)
    <3>1. PICK h \in Held(s) : IsHead(h, s) /\ n = Env[h].seq + 1
      BY <2>4 DEF Continues
    <3>2. h \in Id /\ Env[h].seq \in Nat
      BY <1>2 DEF Held
    <3>3. \A x \in logBar : x[1] = s => x[2] < n
      BY <2>1, <3>1, <3>2 DEF IsHead
    <3>4. <<s, Env[h].seq, h>> \in logBar
      BY <2>2, <3>1
    <3> QED
      BY <3>1, <3>3, <3>4 DEF Log!EndsAt, logBar
  <2>5. CASE Bridges(e)
    <3>1. PICK r \in resumes : r.stream = s /\ r.seq = n - 1
      BY <2>5 DEF Bridges
    <3>2. PICK i \in DOMAIN rejections : rejections[i].stream = s /\ rejections[i].seq = n - 1
      BY <3>1 DEF Refining, BridgeNamesRefusal
    <3>3. rejections[i].seq \in {Env[x].seq : x \in Id}
      BY RejectionTyped DEF Refining
    <3>4. <<s, n - 1>> \in refusedBar
      BY <3>2 DEF refusedBar
    <3>5. Log!EndsAt(s, n - 1)
      <4>1. CASE Held(s) = {} /\ n = 1
        BY <2>1, <4>1 DEF Log!EndsAt, logBar
      <4>2. ASSUME NEW h \in Held(s), IsHead(h, s), n = Env[h].seq + 2
            PROVE  Log!EndsAt(s, n - 1)
        <5>1. h \in Id /\ Env[h].seq \in Nat
          BY <1>2 DEF Held
        <5>2. \A x \in logBar : x[1] = s => x[2] < n - 1
          BY <2>1, <4>2, <5>1 DEF IsHead
        <5>3. <<s, Env[h].seq, h>> \in logBar
          BY <2>2
        <5>4. \E x \in logBar : x[1] = s /\ x[2] + 1 = n - 1
          BY <4>2, <5>1, <5>3
        <5> QED
          BY <5>2, <5>4 DEF Log!EndsAt, logBar
      <4> QED
        BY <2>5, <4>1, <4>2 DEF Bridges
    <3>6. n \in Nat
      BY <1>1
    <3> QED
      BY <3>2, <3>3, <3>4, <3>5, <3>6
  <2> QED
    BY <1>1, <2>3, <2>4, <2>5 DEF PositionOk
<1>6. \/ backedBar' = backedBar
      \/ \E r \in Request, single \in BOOLEAN :
           /\ backedBar' = backedBar \cup {<<r, e, single>>}
           /\ \A b \in backedBar : b[1] = r => ~b[3] /\ ~single
  <2>1. CASE ~SpendsApproval(e)
    <3>1. {f \in envelopes' : SpendsApproval(f)} = {f \in envelopes : SpendsApproval(f)}
      BY <1>1, <2>1
    <3> QED
      BY <3>1 DEF backedBar, SpendsApproval, FirstPolicy, Applied
  <2>2. CASE SpendsApproval(e)
    <3> DEFINE r == Env[e].auth.req
               single == Env[e].auth.single
    <3>1. r \in Request /\ single \in BOOLEAN
      BY <1>1, <2>2 DEF SpendsApproval
    <3>2. backedBar' = backedBar \cup {<<r, e, single>>}
      BY <1>1, <2>2 DEF backedBar, SpendsApproval, FirstPolicy, Applied
    <3>3. ASSUME NEW f \in envelopes, SpendsApproval(f), Env[f].auth.req = r
          PROVE  ~Env[f].auth.single /\ ~single
      BY <1>1, <2>2, <3>3 DEF Refining, UsesRecorded, Replayed
    <3>4. \A b \in backedBar : b[1] = r => ~b[3] /\ ~single
      BY <3>3 DEF backedBar
    <3> QED
      BY <3>1, <3>2, <3>4
  <2> QED
    BY <2>1, <2>2
<1>7. refusedBar' = refusedBar
  BY <1>1 DEF refusedBar
<1> QED
  BY <1>3, <1>4, <1>5, <1>6, <1>7
  DEF Log!Record, Log!Fresh, Log!Backing, logBar, refusedBar, backedBar

(* A recorded refusal is a refused position, and nothing else moves the log.  *)
LEMMA RejectionRefuses ==
  ASSUME TypeOK, NEW e \in Id, NEW code \in Reason, RecordRejection(e, code)
  PROVE  Log!Refuse(Env[e].stream, Env[e].seq)
<1>1. /\ rejections' = Append(rejections, [reason |-> code, object |-> Env[e].raw,
                                           stream |-> Env[e].stream, seq |-> Env[e].seq])
      /\ UNCHANGED envelopes
  BY DEF RecordRejection, tables
<1>2. /\ DOMAIN rejections = 1..Len(rejections)
      /\ DOMAIN rejections' = 1..(Len(rejections) + 1)
      /\ \A i \in DOMAIN rejections : rejections'[i] = rejections[i]
      /\ rejections'[Len(rejections) + 1].stream = Env[e].stream
      /\ rejections'[Len(rejections) + 1].seq = Env[e].seq
      /\ Len(rejections) \in Nat
  BY <1>1 DEF TypeOK
<1>3. refusedBar' = refusedBar \cup {<<Env[e].stream, Env[e].seq>>}
  BY <1>2 DEF refusedBar
<1>4. logBar' = logBar /\ backedBar' = backedBar
  BY <1>1 DEF logBar, backedBar, SpendsApproval, FirstPolicy, Applied
<1> QED
  BY <1>3, <1>4 DEF Log!Refuse, logBar, refusedBar, backedBar

LEMMA StepRefines == Refining /\ [StoreNext]_storeVars => [Log!LogNext]_(Log!logVars)
<1> SUFFICES ASSUME Refining, [StoreNext]_storeVars
             PROVE  Log!LogNext \/ UNCHANGED <<logBar, refusedBar, backedBar>>
  BY DEF Log!logVars, logBar, refusedBar, backedBar
<1> USE StoreAssumption DEF StoreAssumption, EnvAssumption
<1>1. ASSUME NEW p \in Plan, AppendPlan(p) PROVE Log!LogNext
  <2>1. Log!Record(Env[p.id].stream, Env[p.id].seq, p.id)
    BY <1>1, AppendRecords
  <2>2. p.id \in Id
    BY <1>1, Accepted DEF AppendPlan
  <2> QED
    BY <2>1, <2>2 DEF Log!LogNext
<1>2. ASSUME NEW e \in Id, NEW code \in Reason, RecordRejection(e, code)
      PROVE  Log!LogNext
  <2>1. Log!Refuse(Env[e].stream, Env[e].seq)
    BY <1>2, RejectionRefuses DEF Refining
  <2> QED
    BY <2>1 DEF Log!LogNext
<1>3. ASSUME UNCHANGED <<envelopes, rejections>>
      PROVE  UNCHANGED <<logBar, refusedBar, backedBar>>
  BY <1>3 DEF logBar, refusedBar, backedBar, SpendsApproval, FirstPolicy, Applied
<1>4. ASSUME NEW now \in SweepTimes, DecayPayloads(now)
      PROVE  UNCHANGED <<envelopes, rejections>>
  BY <1>4 DEF DecayPayloads
<1>5. ASSUME RebuildSpend PROVE UNCHANGED <<envelopes, rejections>>
  BY <1>5 DEF RebuildSpend
<1>6. ASSUME UNCHANGED storeVars PROVE UNCHANGED <<envelopes, rejections>>
  BY <1>6 DEF storeVars, tables
<1> QED
  BY <1>1, <1>2, <1>3, <1>4, <1>5, <1>6 DEF StoreNext

(* The store implements AuditLog.                                             *)
THEOREM StoreImplementsAuditLog == StoreSpec => ImplementsAuditLog
<1>1. StoreInit => Log!LogInit
  BY DEF StoreInit, Log!LogInit
<1>2. StoreInit => OneUse /\ Bridged
  BY InitTyped DEF StoreInit, OneUse, UsesRecorded, SingleUse, Bridged,
                   BridgeNamesRefusal
<1>3. OneUse /\ Bridged => Refining
  BY DEF OneUse, Bridged, Refining
<1> QED
  BY <1>1, <1>2, <1>3, NextOneUse, NextBridged, StepRefines, PTL
  DEF StoreSpec, ImplementsAuditLog, Log!LogSpec

--------------------------------------------------------------------------------
(* The spend table and its replay. *)

(* Induction over the subsets of a finite set, as a statement about a set of   *)
(* subsets: a least subset outside it would be in it.                           *)
LEMMA SubsetInduction ==
  ASSUME NEW S, IsFiniteSet(S), NEW F \in SUBSET SUBSET S,
         \A T \in SUBSET S : (\A U \in SUBSET T : U # T => U \in F) => T \in F
  PROVE  F = SUBSET S
<1>1. SUFFICES ASSUME (SUBSET S) \ F # {} PROVE FALSE
  OBVIOUS
<1>2. IsWellFoundedOn(StrictSubsetOrdering(S), SUBSET S)
  BY FS_StrictSubsetOrderingWellFounded, FS_FiniteSubsetsOfFinite
<1>3. PICK T \in (SUBSET S) \ F :
        \A U \in (SUBSET S) \ F : <<U, T>> \notin StrictSubsetOrdering(S)
  <2>1. PICK missing : missing = (SUBSET S) \ F
    OBVIOUS
  <2>2. missing \subseteq SUBSET S /\ missing # {}
    BY <1>1, <2>1
  <2>3. \E T \in missing : \A U \in missing : ~(<<U, T>> \in StrictSubsetOrdering(S))
    BY <1>2, <2>2, WFMin
  <2> QED
    BY <2>1, <2>3
<1>4. \A U \in SUBSET T : U # T => U \in F
  BY <1>3 DEF StrictSubsetOrdering
<1> QED
  BY <1>3, <1>4

(* A fold is defined through a chosen function: SumsCosts says what the function *)
(* must satisfy, CostTable is the one CHOOSE returns, Chosen the element it      *)
(* takes out first.                                                             *)
Chosen(s) == CHOOSE x \in s : TRUE
SumsCosts(g, S) == g = [s \in SUBSET S |->
                     IF s = {} THEN 0 ELSE Env[Chosen(s)].cost + g[s \ {Chosen(s)}]]
CostOf(S) == MapThenSumSet(LAMBDA e : Env[e].cost, S)
CostTable(S) == CHOOSE g : SumsCosts(g, S)

(* The fold is the chosen function at the whole set. *)
LEMMA SumIsIter ==
  ASSUME NEW S
  PROVE  CostOf(S) = CostTable(S)[S]
BY DEF CostOf, MapThenSumSet, MapThenFoldSet, CostTable, SumsCosts, Chosen

(* Two such functions agree wherever both are defined. *)
LEMMA SumsAgree ==
  ASSUME NEW S, IsFiniteSet(S), NEW T \in SUBSET S, NEW g, NEW h, SumsCosts(g, S), SumsCosts(h, T)
  PROVE  \A s \in SUBSET T : g[s] = h[s]
<1> DEFINE F == {s \in SUBSET T : g[s] = h[s]}
<1>1. IsFiniteSet(T)
  BY FS_Subset
<1>2. ASSUME NEW s \in SUBSET T, \A u \in SUBSET s : u # s => u \in F
      PROVE  s \in F
  <2>1. CASE s = {}
    BY <2>1 DEF SumsCosts
  <2>2. CASE s # {}
    <3>1. Chosen(s) \in s
      BY <2>2 DEF Chosen
    <3>2. s \ {Chosen(s)} \in F
      BY <1>2, <3>1
    <3>3. /\ g[s] = Env[Chosen(s)].cost + g[s \ {Chosen(s)}]
          /\ h[s] = Env[Chosen(s)].cost + h[s \ {Chosen(s)}]
      BY <2>2 DEF SumsCosts
    <3> QED
      BY <3>2, <3>3
  <2> QED
    BY <2>1, <2>2
<1>3. F = SUBSET T
  <2> HIDE DEF F
  <2>1. F \in SUBSET SUBSET T
    BY DEF F
  <2> QED
    BY <1>1, <1>2, <2>1, SubsetInduction
<1> QED
  BY <1>3

(* Such a function exists, so the chosen one is one. *)
LEMMA SumsExist ==
  ASSUME NEW S, IsFiniteSet(S)
  PROVE  SumsCosts(CostTable(S), S)
<1> DEFINE F == {T \in SUBSET S : \E g : SumsCosts(g, T)}
<1>1. ASSUME NEW T \in SUBSET S, \A U \in SUBSET T : U # T => U \in F
      PROVE  T \in F
  <2> DEFINE below(r) == CostTable(r)[r]
             h == [s \in SUBSET T |->
                     IF s = {} THEN 0 ELSE Env[Chosen(s)].cost + below(s \ {Chosen(s)})]
  <2>1. \A U \in SUBSET T : U # T => SumsCosts(CostTable(U), U)
    BY <1>1 DEF CostTable
  <2>2. ASSUME NEW s \in SUBSET T, s # {}
        PROVE  h[s \ {Chosen(s)}] = below(s \ {Chosen(s)})
    <3>0. Chosen(s) \in s
      BY <2>2 DEF Chosen
    <3>1. PICK r \in SUBSET T : r = s \ {Chosen(s)} /\ r # T
      <4>1. s \ {Chosen(s)} \in SUBSET T /\ Chosen(s) \in T /\ Chosen(s) \notin s \ {Chosen(s)}
        BY <3>0
      <4> QED
        BY <4>1
    <3>2. SumsCosts(CostTable(r), r)
      BY <2>1, <3>1
    <3>3. CASE r = {}
      <4>1. h[r] = 0
        BY <3>3
      <4>2. CostTable(r)[r] = 0
        BY <3>2, <3>3 DEF SumsCosts
      <4> QED
        BY <3>1, <4>1, <4>2
    <3>4. CASE r # {}
      <4>1. PICK q \in SUBSET r : q = r \ {Chosen(r)} /\ q # T
        BY <3>1, <3>4 DEF Chosen
      <4>2. SumsCosts(CostTable(q), q) /\ IsFiniteSet(r)
        BY <2>1, <3>1, <4>1, FS_Subset
      <4>3. CostTable(r)[q] = CostTable(q)[q]
        BY <3>2, <4>1, <4>2, SumsAgree
      <4>4. CostTable(r)[r] = Env[Chosen(r)].cost + CostTable(r)[q]
        BY <3>2, <3>4, <4>1 DEF SumsCosts
      <4>5. h[r] = Env[Chosen(r)].cost + CostTable(q)[q]
        BY <3>4, <4>1
      <4> QED
        BY <3>1, <4>3, <4>4, <4>5
    <3> QED
      BY <3>3, <3>4
  <2>3. SumsCosts(h, T)
    BY <2>2 DEF SumsCosts
  <2> QED
    BY <2>3
<1>2. F = SUBSET S
  <2>1. F \in SUBSET SUBSET S
    OBVIOUS
  <2> HIDE DEF F
  <2> QED
    BY <1>1, <2>1, SubsetInduction
<1>3. \E g : SumsCosts(g, S)
  BY <1>2
<1> QED
  BY <1>3 DEF CostTable

(* One unfolding of the fold. *)
LEMMA SumUnfolds ==
  ASSUME NEW S, IsFiniteSet(S), S # {}
  PROVE  Chosen(S) \in S /\ CostOf(S) = Env[Chosen(S)].cost + CostOf(S \ {Chosen(S)})
<1>1. PICK T \in SUBSET S : T = S \ {Chosen(S)}
  OBVIOUS
<1>2. IsFiniteSet(T)
  BY FS_Subset
<1>3. CostTable(S)[T] = CostTable(T)[T]
  BY <1>2, SumsExist, SumsAgree
<1>4. CostTable(S)[S] = Env[Chosen(S)].cost + CostTable(S)[T]
  BY <1>1, SumsExist DEF SumsCosts
<1> QED
  BY <1>1, <1>3, <1>4, SumIsIter DEF Chosen

(* No envelope costs nothing. *)
LEMMA SumEmpty == CostOf({}) = 0
BY FS_EmptySet, SumsExist, SumIsIter DEF SumsCosts

(* In whatever order: any element can be taken out first. *)
LEMMA SumWithout ==
  ASSUME NEW S \in SUBSET Id, IsFiniteSet(S)
  PROVE  /\ CostOf(S) \in Nat
         /\ \A x \in S : CostOf(S) = Env[x].cost + CostOf(S \ {x})
<1> DEFINE Apart(T) == /\ CostOf(T) \in Nat
                       /\ \A x \in T : CostOf(T) = Env[x].cost + CostOf(T \ {x})
           F == {T \in SUBSET S : Apart(T)}
<1>0. \A x \in S : Env[x].cost \in Nat
  BY StoreAssumption DEF StoreAssumption, EnvAssumption
<1>1. ASSUME NEW T \in SUBSET S, \A U \in SUBSET T : U # T => U \in F
      PROVE  T \in F
  <2>1. CASE T = {}
    BY <2>1, SumEmpty
  <2>2. CASE T # {}
    <3>1. PICK p \in T : p = Chosen(T)
      BY <2>2 DEF Chosen
    <3>2. IsFiniteSet(T)
      BY FS_Subset
    <3>3. CostOf(T) = Env[p].cost + CostOf(T \ {p})
      BY <2>2, <3>1, <3>2, SumUnfolds
    <3>4. Apart(T \ {p})
      BY <1>1, <3>1
    <3>5. CostOf(T) \in Nat
      BY <1>0, <3>1, <3>3, <3>4
    <3>6. ASSUME NEW x \in T, x # p PROVE CostOf(T) = Env[x].cost + CostOf(T \ {x})
      <4>1. Apart(T \ {x})
        BY <1>1, <3>1
      <4>2. PICK R : R = (T \ {p}) \ {x} /\ R = (T \ {x}) \ {p}
        OBVIOUS
      <4>3. CostOf(T \ {p}) = Env[x].cost + CostOf(R)
        BY <3>4, <3>6, <4>2
      <4>4. CostOf(T \ {x}) = Env[p].cost + CostOf(R)
        BY <4>1, <3>1, <3>6, <4>2
      <4>5. Apart(R)
        <5>1. R \in SUBSET T /\ R # T
          BY <3>1, <4>2
        <5> QED
          BY <1>1, <5>1
      <4> QED
        BY <1>0, <3>1, <3>3, <3>6, <4>3, <4>4, <4>5
    <3> QED
      BY <3>1, <3>3, <3>5, <3>6
  <2> QED
    BY <2>1, <2>2
<1>2. F = SUBSET S
  <2>1. F \in SUBSET SUBSET S
    OBVIOUS
  <2> HIDE DEF F
  <2> QED
    BY <1>1, <2>1, SubsetInduction
<1> QED
  BY <1>2

(* One envelope more. *)
LEMMA SumWith ==
  ASSUME NEW S \in SUBSET Id, IsFiniteSet(S), NEW e \in Id \ S
  PROVE  CostOf(S \cup {e}) = CostOf(S) + Env[e].cost
<1>1. PICK T \in SUBSET Id : T = S \cup {e} /\ S = T \ {e} /\ e \in T
  <2>1. S \cup {e} \in SUBSET Id /\ S = (S \cup {e}) \ {e}
    OBVIOUS
  <2> QED
    BY <2>1
<1>2. IsFiniteSet(T)
  BY <1>1, FS_AddElement
<1>3. CostOf(T) = Env[e].cost + CostOf(S)
  BY <1>1, <1>2, SumWithout
<1>4. CostOf(S) \in Nat /\ Env[e].cost \in Nat
  BY SumWithout, StoreAssumption DEF StoreAssumption, EnvAssumption
<1> QED
  BY <1>1, <1>3, <1>4

(* The figures are the replay's, over a log that is finite. *)
Accrued == /\ envelopes \subseteq Id /\ IsFiniteSet(envelopes)
           /\ SpendIsFold

(* What the replay gives each mandate. *)
LEMMA FoldIsSum ==
  SpendFold = [m \in Mandate |-> CostOf({e \in envelopes : m \in Charged(e)})]
BY DEF SpendFold, CostOf

(* An append adds to the charged mandates what it adds to their sums. *)
LEMMA NextAccrued == Accrued /\ [StoreNext]_storeVars => Accrued'
<1> SUFFICES ASSUME Accrued, [StoreNext]_storeVars PROVE Accrued'
  OBVIOUS
<1>1. ASSUME NEW p \in Plan, AppendPlan(p) PROVE Accrued'
  <2>1. PICK e \in Id \ envelopes : e = p.id
    BY <1>1 DEF AppendPlan, Plan
  <2>2. /\ envelopes' = envelopes \cup {e}
        /\ spend' = [m \in Mandate |-> IF m \in Charged(e) THEN spend[m] + Env[e].cost
                                       ELSE spend[m]]
    BY <1>1, <2>1 DEF AppendPlan, ChargeMandates
  <2>3. envelopes' \subseteq Id /\ IsFiniteSet(envelopes')
    BY <2>1, <2>2, FS_AddElement DEF Accrued
  <2>4. ASSUME NEW m \in Mandate
        PROVE  spend'[m] = CostOf({f \in envelopes' : m \in Charged(f)})
    <3>1. PICK S : S = {f \in envelopes : m \in Charged(f)}
      OBVIOUS
    <3>2. S \in SUBSET Id /\ IsFiniteSet(S) /\ e \notin S
      BY <2>1, <3>1, FS_Subset DEF Accrued
    <3>3. spend[m] = CostOf(S)
      BY <3>1, FoldIsSum DEF Accrued, SpendIsFold
    <3>4. CASE m \in Charged(e)
      <4>1. {f \in envelopes' : m \in Charged(f)} = S \cup {e}
        BY <2>2, <3>1, <3>4
      <4>2. CostOf(S \cup {e}) = CostOf(S) + Env[e].cost
        BY <2>1, <3>2, SumWith
      <4> QED
        BY <2>2, <3>3, <3>4, <4>1, <4>2
    <3>5. CASE m \notin Charged(e)
      <4>1. {f \in envelopes' : m \in Charged(f)} = S
        BY <2>2, <3>1, <3>5
      <4> QED
        BY <2>2, <3>3, <3>5, <4>1
    <3> QED
      BY <3>4, <3>5
  <2>5. SpendFold' = [m \in Mandate |-> CostOf({f \in envelopes' : m \in Charged(f)})]
    BY DEF SpendFold, CostOf, Charged, MapThenSumSet, MapThenFoldSet
  <2> QED
    BY <2>2, <2>3, <2>4, <2>5 DEF Accrued, SpendIsFold
<1>2. ASSUME UNCHANGED envelopes, spend' = spend \/ spend' = SpendFold
      PROVE  Accrued'
  <2>1. SpendFold' = SpendFold
    BY <1>2 DEF SpendFold, Charged, MapThenSumSet, MapThenFoldSet
  <2> QED
    BY <1>2, <2>1 DEF Accrued, SpendIsFold
<1>3. ASSUME \/ \E e \in Id, code \in Reason : RecordRejection(e, code)
             \/ \E now \in SweepTimes : DecayPayloads(now)
             \/ RebuildSpend
             \/ UNCHANGED storeVars
      PROVE  UNCHANGED envelopes /\ (spend' = spend \/ spend' = SpendFold)
  BY <1>3 DEF RecordRejection, DecayPayloads, RebuildSpend, storeVars, tables
<1> QED
  BY <1>1, <1>2, <1>3 DEF StoreNext

(* Dropping the table and replaying the log gives the figures that were       *)
(* accrued transaction by transaction (rebuild_spend), for any mandates,      *)
(* lineages, costs and order of appends. *)
THEOREM SpendIsReplay == StoreSpec => []SpendIsFold
<1>1. StoreInit => Accrued
  <2> SUFFICES ASSUME StoreInit PROVE Accrued
    OBVIOUS
  <2>1. \A m \in Mandate : {e \in envelopes : m \in Charged(e)} = {}
    BY DEF StoreInit
  <2>2. SpendFold = [m \in Mandate |-> 0]
    BY <2>1, FoldIsSum, SumEmpty
  <2> QED
    BY <2>2, FS_EmptySet DEF StoreInit, Accrued, SpendIsFold
<1>2. Accrued => SpendIsFold
  BY DEF Accrued
<1> QED
  BY <1>1, <1>2, NextAccrued, PTL DEF StoreSpec
================================================================================

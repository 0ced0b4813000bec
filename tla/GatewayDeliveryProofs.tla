------------------------- MODULE GatewayDeliveryProofs -------------------------
(******************************************************************************)
(* What delivery keeps, for any pushers, streams and envelopes, any order of  *)
(* their steps and any loss of requests and answers.                          *)
(******************************************************************************)
EXTENDS GatewayDelivery, KernelStoreProofs

PushRecord == [at : Phase, row : Id \cup {None}, rest : SUBSET Id,
               standing : BOOLEAN]

(* A row of the chain stands at its own position of its own stream. *)
ChainPlaced ==
  \A s \in GatewayStream : \A i \in DOMAIN chain[s] :
    Env[chain[s][i]].stream = s /\ Env[chain[s][i]].seq = i - 1

Filed == /\ DeliveryTypeOK
         /\ ChainPlaced
         /\ push \in [Pusher -> PushRecord]
         /\ DOMAIN wedge = GatewayStream

LEMMA RowsAreIds ==
  ASSUME Filed
  PROVE  AllRows \subseteq Id
BY DEF Filed, DeliveryTypeOK, AllRows, Rows, Range

(* A row of the file is a row of the stream it says it is on. *)
LEMMA RowsOfTheirStream ==
  ASSUME Filed, NEW e \in AllRows
  PROVE  e \in Id /\ Env[e].stream \in GatewayStream /\ e \in Rows(Env[e].stream)
<1>1. PICK s \in GatewayStream : e \in Rows(s)
  BY DEF AllRows
<1>2. PICK i \in DOMAIN chain[s] : e = chain[s][i]
  BY <1>1 DEF Rows, Range
<1>3. Env[e].stream = s
  BY <1>2 DEF Filed, ChainPlaced
<1> QED
  BY <1>1, <1>3, RowsAreIds

LEMMA PassTyped ==
  ASSUME NEW rows \in SUBSET Id
  PROVE  /\ Proceed(rows) \in PushRecord
         /\ Proceed(rows).at \in {"idle", "next"}
         /\ Proceed(rows).rest = rows
         /\ Proceed(rows).at = "idle" => Proceed(rows) = Idle
         /\ Proceed(rows).at = "next" => rows # {}
BY DEF Proceed, Idle, PushRecord, Phase

LEMMA FirstOfRows ==
  ASSUME NEW n, NEW rows
  PROVE  First(n, rows) \subseteq rows
BY DEF First

--------------------------------------------------------------------------------
(* The file. *)

(* Rows are only ever added to a chain, at its end. *)
LEMMA ChainGrows ==
  ASSUME Filed, [DeliveryNext]_deliveryVars
  PROVE  \/ UNCHANGED chain
         \/ \E s \in GatewayStream, e \in Id :
              /\ Env[e].stream = s /\ Env[e].seq = Len(chain[s])
              /\ chain' = [chain EXCEPT ![s] = Append(@, e)]
              /\ UNCHANGED <<storeVars, pushed, faulted, wedge, push, late>>
<1>1. ASSUME NEW s \in GatewayStream, AppendNext(s)
      PROVE  \E e \in Id :
               /\ Env[e].stream = s /\ Env[e].seq = Len(chain[s])
               /\ chain' = [chain EXCEPT ![s] = Append(@, e)]
               /\ UNCHANGED <<storeVars, pushed, faulted, wedge, push, late>>
  BY <1>1 DEF AppendNext
<1>2. ASSUME NEW e \in late, LateAnswer(e) PROVE UNCHANGED chain
  BY <1>2 DEF LateAnswer, fileVars
<1>3. CASE Operate
  BY <1>3 DEF Operate, fileVars
<1>4. ASSUME NEW p \in Pusher, Pass(p) \/ Answer(p) \/ GiveUp(p) \/ Die(p)
      PROVE  UNCHANGED chain
  BY <1>4 DEF Pass, Answer, GiveUp, Die, StartPass, Offer, MarkAccepted,
              ClearWedge, HoldStream, MarkRefused, RecordWedge, fileVars
<1>5. CASE UNCHANGED deliveryVars
  BY <1>5 DEF deliveryVars, fileVars
<1> QED
  BY <1>1, <1>2, <1>3, <1>4, <1>5 DEF DeliveryNext

LEMMA AppendKeepsRows ==
  ASSUME Filed, NEW s \in GatewayStream, NEW e \in Id,
         Env[e].stream = s, Env[e].seq = Len(chain[s]),
         chain' = [chain EXCEPT ![s] = Append(@, e)]
  PROVE  /\ chain' \in [GatewayStream -> Seq(Id)]
         /\ ChainPlaced'
         /\ \A t \in GatewayStream : \A i \in DOMAIN chain[t] :
              i \in DOMAIN chain'[t] /\ chain'[t][i] = chain[t][i]
         /\ \A t \in GatewayStream : \A i \in DOMAIN chain'[t] :
              i \in DOMAIN chain[t] \/ (t = s /\ i = Len(chain[s]) + 1 /\ chain'[t][i] = e)
<1>1. chain \in [GatewayStream -> Seq(Id)]
  BY DEF Filed, DeliveryTypeOK
<1>2. /\ chain'[s] = Append(chain[s], e)
      /\ \A t \in GatewayStream : t # s => chain'[t] = chain[t]
      /\ chain' \in [GatewayStream -> Seq(Id)]
  BY <1>1
<1>3. /\ DOMAIN chain[s] = 1..Len(chain[s]) /\ Len(chain[s]) \in Nat
      /\ DOMAIN chain'[s] = 1..(Len(chain[s]) + 1)
      /\ chain'[s][Len(chain[s]) + 1] = e
      /\ \A i \in DOMAIN chain[s] : chain'[s][i] = chain[s][i]
  BY <1>1, <1>2
<1>4. /\ \A t \in GatewayStream : \A i \in DOMAIN chain[t] :
           i \in DOMAIN chain'[t] /\ chain'[t][i] = chain[t][i]
      /\ \A t \in GatewayStream : \A i \in DOMAIN chain'[t] :
           i \in DOMAIN chain[t] \/ (t = s /\ i = Len(chain[s]) + 1 /\ chain'[t][i] = e)
  BY <1>2, <1>3
<1>5. ChainPlaced'
  BY <1>2, <1>3, <1>4 DEF Filed, ChainPlaced
<1> QED
  BY <1>2, <1>4, <1>5

LEMMA RowsKept ==
  ASSUME Filed, [DeliveryNext]_deliveryVars
  PROVE  /\ chain' \in [GatewayStream -> Seq(Id)] /\ ChainPlaced'
         /\ \A s \in GatewayStream : Rows(s) \subseteq Rows(s)'
         /\ AllRows \subseteq AllRows'
<1>1. CASE UNCHANGED chain
  BY <1>1 DEF Filed, DeliveryTypeOK, ChainPlaced, AllRows, Rows
<1>2. ASSUME NEW s \in GatewayStream, NEW e \in Id,
             Env[e].stream = s, Env[e].seq = Len(chain[s]),
             chain' = [chain EXCEPT ![s] = Append(@, e)]
      PROVE  /\ chain' \in [GatewayStream -> Seq(Id)] /\ ChainPlaced'
             /\ \A t \in GatewayStream : Rows(t) \subseteq Rows(t)'
  <2>1. /\ chain' \in [GatewayStream -> Seq(Id)] /\ ChainPlaced'
        /\ \A t \in GatewayStream : \A i \in DOMAIN chain[t] :
             i \in DOMAIN chain'[t] /\ chain'[t][i] = chain[t][i]
    BY <1>2, AppendKeepsRows
  <2> QED
    BY <2>1 DEF Rows, Range
<1>3. (\A t \in GatewayStream : Rows(t) \subseteq Rows(t)') => AllRows \subseteq AllRows'
  BY DEF AllRows
<1> QED
  BY <1>1, <1>2, <1>3, ChainGrows

(* A row that a step works on is a row of the file, before it and after. *)
LEMMA AtARow ==
  ASSUME Filed, NEW p \in Pusher, push[p].at \notin {"idle", "next"}
  PROVE  /\ Row(p) \in AllRows /\ Row(p) \in Id
         /\ StreamOf(p) \in GatewayStream
         /\ Row(p) \in Rows(StreamOf(p))
<1>1. Row(p) \in AllRows
  BY DEF Filed, DeliveryTypeOK
<1> QED
  BY <1>1, RowsOfTheirStream DEF StreamOf

(* The marks. *)
LEMMA MarksTyped ==
  ASSUME Filed, [DeliveryNext]_deliveryVars
  PROVE  /\ pushed' \subseteq AllRows'
         /\ faulted' \subseteq AllRows'
         /\ late' \subseteq AllRows'
<1>0. /\ AllRows \subseteq AllRows'
      /\ pushed \subseteq AllRows /\ faulted \subseteq AllRows /\ late \subseteq AllRows
  BY RowsKept DEF Filed, DeliveryTypeOK
<1>1. ASSUME NEW s \in GatewayStream, AppendNext(s)
      PROVE  UNCHANGED <<pushed, faulted, late>>
  BY <1>1 DEF AppendNext
<1>2. ASSUME NEW e \in late, LateAnswer(e)
      PROVE  UNCHANGED <<pushed, faulted>> /\ late' \subseteq late
  BY <1>2 DEF LateAnswer, fileVars
<1>3. ASSUME Operate PROVE UNCHANGED <<pushed, faulted, late>>
  BY <1>3 DEF Operate, fileVars
<1>4. ASSUME NEW p \in Pusher, Pass(p) \/ Answer(p) \/ GiveUp(p) \/ Die(p)
      PROVE  \/ UNCHANGED <<pushed, faulted, late>>
             \/ /\ push[p].at \notin {"idle", "next"}
                /\ pushed' \subseteq pushed \cup {Row(p)}
                /\ faulted' \subseteq faulted \cup {Row(p)}
                /\ late' \subseteq late \cup {Row(p)}
  BY <1>4 DEF Pass, Answer, GiveUp, Die, StartPass, Offer, MarkAccepted,
              ClearWedge, HoldStream, MarkRefused, RecordWedge, fileVars
<1>5. ASSUME NEW p \in Pusher, Pass(p) \/ Answer(p) \/ GiveUp(p) \/ Die(p)
      PROVE  /\ pushed' \subseteq AllRows
             /\ faulted' \subseteq AllRows
             /\ late' \subseteq AllRows
  BY <1>0, <1>4, <1>5, AtARow
<1>6. ASSUME UNCHANGED deliveryVars PROVE UNCHANGED <<pushed, faulted, late>>
  BY <1>6 DEF deliveryVars, fileVars
<1> QED
  BY <1>0, <1>1, <1>2, <1>3, <1>5, <1>6 DEF DeliveryNext

(* The wedges. *)
LEMMA WedgesTyped ==
  ASSUME Filed, [DeliveryNext]_deliveryVars
  PROVE  /\ DOMAIN wedge' = GatewayStream
         /\ \A s \in GatewayStream : wedge'[s] \in Rows(s)' \cup {None}
<1>0. /\ \A s \in GatewayStream : Rows(s) \subseteq Rows(s)'
      /\ DOMAIN wedge = GatewayStream
      /\ \A s \in GatewayStream : wedge[s] \in Rows(s) \cup {None}
  BY RowsKept DEF Filed, DeliveryTypeOK
<1>1. ASSUME NEW s \in GatewayStream, AppendNext(s) PROVE UNCHANGED wedge
  BY <1>1 DEF AppendNext
<1>2. ASSUME NEW e \in late, LateAnswer(e) PROVE UNCHANGED wedge
  BY <1>2 DEF LateAnswer, fileVars
<1>3. ASSUME Operate PROVE UNCHANGED wedge
  BY <1>3 DEF Operate, fileVars
<1>4. ASSUME NEW p \in Pusher, Pass(p) \/ Answer(p) \/ GiveUp(p) \/ Die(p)
      PROVE  UNCHANGED wedge \/ ClearWedge(p) \/ RecordWedge(p)
  BY <1>4 DEF Pass, Answer, GiveUp, Die, StartPass, Offer, MarkAccepted,
              HoldStream, MarkRefused, fileVars
<1>5. ASSUME NEW p \in Pusher, ClearWedge(p) \/ RecordWedge(p)
      PROVE  /\ DOMAIN wedge' = GatewayStream
             /\ \A s \in GatewayStream : wedge'[s] \in Rows(s) \cup {None}
  <2>1. StreamOf(p) \in GatewayStream /\ Row(p) \in Rows(StreamOf(p))
    BY <1>5, AtARow DEF ClearWedge, RecordWedge
  <2>2. \/ wedge' = [wedge EXCEPT ![StreamOf(p)] = None]
        \/ wedge' = [wedge EXCEPT ![StreamOf(p)] =
                       IF wedge[StreamOf(p)] = None THEN Row(p) ELSE wedge[StreamOf(p)]]
    BY <1>5 DEF ClearWedge, RecordWedge
  <2> QED
    BY <1>0, <2>1, <2>2
<1>6. ASSUME UNCHANGED deliveryVars PROVE UNCHANGED wedge
  BY <1>6 DEF deliveryVars, fileVars
<1> QED
  BY <1>0, <1>1, <1>2, <1>3, <1>4, <1>5, <1>6 DEF DeliveryNext

(* The pushers. *)
PusherTyped(p) ==
  /\ push[p] \in PushRecord
  /\ push[p].at = "idle" => push[p] = Idle
  /\ push[p].at = "next" => push[p].rest # {}
  /\ push[p].rest \subseteq AllRows
  /\ push[p].at \notin {"idle", "next"} => Row(p) \in AllRows

LEMMA FiledPushers ==
  ASSUME Filed
  PROVE  /\ DOMAIN push = Pusher
         /\ \A p \in Pusher : PusherTyped(p)
BY DEF Filed, DeliveryTypeOK, PusherTyped

(* A pusher goes on to what is left, or stays at its row in another phase. *)
LEMMA PusherSteps ==
  ASSUME Filed, NEW p \in Pusher, Pass(p) \/ Answer(p) \/ GiveUp(p) \/ Die(p)
  PROVE  \E r : /\ push' = [push EXCEPT ![p] = r]
                /\ \/ \E rows \in SUBSET AllRows : r = Proceed(rows)
                   \/ /\ push[p].at \notin {"idle", "next"}
                      /\ \E a \in Phase \ {"idle", "next"} :
                           r = [push[p] EXCEPT !.at = a]
                   \/ \E e \in AllRows, rest \in SUBSET AllRows, b \in BOOLEAN :
                        r = [at |-> "sent", row |-> e, rest |-> rest, standing |-> b]
<1>0. /\ push[p] \in PushRecord /\ push[p].rest \subseteq AllRows
      /\ Proceed({}) = Idle
  BY FiledPushers DEF PusherTyped, Proceed
<1>1. CASE StartPass(p)
  <2>1. Unpushed \in SUBSET AllRows
    BY FirstOfRows DEF Unpushed
  <2> QED
    BY <1>1, <2>1 DEF StartPass
<1>2. CASE Offer(p)
  <2>1. PICK e \in First(1, push[p].rest) :
          push' = [push EXCEPT ![p] =
                     [at |-> "sent", row |-> e, rest |-> push[p].rest \ {e},
                      standing |-> wedge[Env[e].stream] # None]]
    BY <1>2 DEF Offer
  <2>2. e \in AllRows
    BY <1>0, FirstOfRows
  <2>3. push[p].rest \ {e} \in SUBSET AllRows
    BY <1>0
  <2>4. (wedge[Env[e].stream] # None) \in BOOLEAN
    OBVIOUS
  <2> DEFINE b == wedge[Env[e].stream] # None
  <2> HIDE DEF b
  <2>5. b \in BOOLEAN /\ push' = [push EXCEPT ![p] =
                     [at |-> "sent", row |-> e, rest |-> push[p].rest \ {e},
                      standing |-> b]]
    BY <2>1, <2>4 DEF b
  <2> QED
    BY <2>2, <2>3, <2>5
<1>3. CASE MarkAccepted(p) \/ MarkRefused(p) \/ Answer(p)
  <2>1. /\ push[p].at \notin {"idle", "next"}
        /\ \E a \in Phase \ {"idle", "next"} :
             push' = [push EXCEPT ![p].at = a]
    BY <1>3 DEF MarkAccepted, MarkRefused, Answer, Phase
  <2> QED
    BY <2>1
<1>4. CASE ClearWedge(p)
  BY <1>0, <1>4 DEF ClearWedge
<1>5. CASE HoldStream(p) \/ RecordWedge(p)
  <2>1. Elsewhere(p) \in SUBSET AllRows
    BY <1>0 DEF Elsewhere
  <2> QED
    BY <1>5, <2>1 DEF HoldStream, RecordWedge
<1>6. CASE GiveUp(p) \/ Die(p)
  BY <1>0, <1>6 DEF GiveUp, Die
<1> QED
  BY <1>1, <1>2, <1>3, <1>4, <1>5, <1>6 DEF Pass

LEMMA PushTyped ==
  ASSUME Filed, [DeliveryNext]_deliveryVars
  PROVE  /\ push' \in [Pusher -> PushRecord]
         /\ \A p \in Pusher : PusherTyped(p)'
<1>0. /\ push \in [Pusher -> PushRecord] /\ \A p \in Pusher : PusherTyped(p)
      /\ AllRows \subseteq AllRows'
      /\ AllRows \subseteq Id
  BY FiledPushers, RowsKept, RowsAreIds DEF Filed
<1>1. ASSUME UNCHANGED push
      PROVE  /\ push' \in [Pusher -> PushRecord]
             /\ \A p \in Pusher : PusherTyped(p)'
  BY <1>0, <1>1 DEF PusherTyped, Row
<1>2. ASSUME NEW p \in Pusher, NEW r \in PushRecord,
             push' = [push EXCEPT ![p] = r],
             r.at = "idle" => r = Idle,
             r.at = "next" => r.rest # {},
             r.rest \subseteq AllRows,
             r.at \notin {"idle", "next"} => r.row \in AllRows
      PROVE  /\ push' \in [Pusher -> PushRecord]
             /\ \A q \in Pusher : PusherTyped(q)'
  <2>1. /\ push' \in [Pusher -> PushRecord]
        /\ push'[p] = r
        /\ \A q \in Pusher : q # p => push'[q] = push[q]
    BY <1>0, <1>2
  <2>2. PusherTyped(p)'
    BY <1>0, <1>2, <2>1 DEF PusherTyped, Row
  <2>3. ASSUME NEW q \in Pusher, q # p PROVE PusherTyped(q)'
    BY <1>0, <2>1, <2>3 DEF PusherTyped, Row
  <2> QED
    BY <2>1, <2>2, <2>3
<1>3. ASSUME NEW p \in Pusher, Pass(p) \/ Answer(p) \/ GiveUp(p) \/ Die(p)
      PROVE  /\ push' \in [Pusher -> PushRecord]
             /\ \A q \in Pusher : PusherTyped(q)'
  <2>1. PICK r : /\ push' = [push EXCEPT ![p] = r]
                 /\ \/ \E rows \in SUBSET AllRows : r = Proceed(rows)
                    \/ /\ push[p].at \notin {"idle", "next"}
                       /\ \E a \in Phase \ {"idle", "next"} :
                            r = [push[p] EXCEPT !.at = a]
                    \/ \E e \in AllRows, rest \in SUBSET AllRows, b \in BOOLEAN :
                         r = [at |-> "sent", row |-> e, rest |-> rest, standing |-> b]
    BY <1>3, PusherSteps
  <2> DEFINE Good == /\ r \in PushRecord
                     /\ r.at = "idle" => r = Idle
                     /\ r.at = "next" => r.rest # {}
                     /\ r.rest \subseteq AllRows
                     /\ r.at \notin {"idle", "next"} => r.row \in AllRows
  <2>2. ASSUME NEW rows \in SUBSET AllRows, r = Proceed(rows) PROVE Good
    BY <1>0, <2>2, PassTyped
  <2>3. ASSUME NEW a \in Phase \ {"idle", "next"},
               push[p].at \notin {"idle", "next"}, r = [push[p] EXCEPT !.at = a]
        PROVE  Good
    BY <1>0, <2>3 DEF PusherTyped, PushRecord, Row
  <2>4. ASSUME NEW e \in AllRows, NEW rest \in SUBSET AllRows, NEW b \in BOOLEAN,
               r = [at |-> "sent", row |-> e, rest |-> rest, standing |-> b]
        PROVE  Good
    BY <1>0, <2>4 DEF PushRecord, Phase
  <2>5. Good
    BY <2>1, <2>2, <2>3, <2>4
  <2> QED
    BY <1>2, <2>1, <2>5
<1>4. ASSUME NEW s \in GatewayStream, AppendNext(s) PROVE UNCHANGED push
  BY <1>4 DEF AppendNext
<1>5. ASSUME NEW e \in late, LateAnswer(e) PROVE UNCHANGED push
  BY <1>5 DEF LateAnswer
<1>6. ASSUME Operate PROVE UNCHANGED push
  BY <1>6 DEF Operate
<1>7. ASSUME UNCHANGED deliveryVars PROVE UNCHANGED push
  BY <1>7 DEF deliveryVars
<1> QED
  BY <1>1, <1>3, <1>4, <1>5, <1>6, <1>7 DEF DeliveryNext

LEMMA InitFiled == DeliveryInit => Filed
<1> SUFFICES ASSUME DeliveryInit PROVE Filed
  OBVIOUS
<1>1. /\ chain \in [GatewayStream -> Seq(Id)]
      /\ \A s \in GatewayStream : Rows(s) = {}
      /\ ChainPlaced
  BY DEF DeliveryInit, ChainPlaced, Rows, Range
<1>2. /\ push \in [Pusher -> PushRecord]
      /\ \A p \in Pusher : push[p] = Idle /\ push[p].rest = {} /\ push[p].at = "idle"
  BY DEF DeliveryInit, Idle, PushRecord, Phase
<1> QED
  BY <1>1, <1>2 DEF DeliveryInit, Filed, DeliveryTypeOK, Phase

LEMMA NextFiled == Filed /\ [DeliveryNext]_deliveryVars => Filed'
<1> SUFFICES ASSUME Filed, [DeliveryNext]_deliveryVars PROVE Filed'
  OBVIOUS
<1>1. \A p \in Pusher : /\ push'[p].at \in Phase
                        /\ (push[p].rest \subseteq AllRows)'
                        /\ (push[p].at = "idle" => push[p] = Idle)'
                        /\ (push[p].at = "next" => push[p].rest # {})'
                        /\ (push[p].at \notin {"idle", "next"} => Row(p) \in AllRows)'
  BY PushTyped DEF PusherTyped, PushRecord
<1>2. DeliveryTypeOK'
  BY <1>1, RowsKept, MarksTyped, WedgesTyped DEF DeliveryTypeOK
<1> QED
  BY <1>2, RowsKept, PushTyped, WedgesTyped DEF Filed

(* The gateway's tables and its pushers hold what they should, and a wedge    *)
(* always stands at a row of its own stream, in whatever order threads of     *)
(* several processes mark, wedge and clear.                                   *)
THEOREM DeliveryTyped == DeliverySpec => []DeliveryTypeOK
<1>1. Filed => DeliveryTypeOK
  BY DEF Filed
<1> QED
  BY <1>1, InitFiled, NextFiled, PTL DEF DeliverySpec

--------------------------------------------------------------------------------
(* The kernel sees only appends and rejections of rows the gateway chained,   *)
(* and what a root publishes.                                                 *)

LEMMA SubmissionStores ==
  ASSUME NEW e \in Id, Accepts(e) \/ Refuses(e)
  PROVE  [StoreNext]_storeVars
<1>1. Submission(e) \in Plan
  BY DEF Submission, Plan
<1> QED
  BY <1>1 DEF Accepts, Refuses, StoreNext

LEMMA DeliveryStepStores ==
  Filed /\ [DeliveryNext]_deliveryVars => [StoreNext]_storeVars
<1> SUFFICES ASSUME Filed, [DeliveryNext]_deliveryVars PROVE [StoreNext]_storeVars
  OBVIOUS
<1>1. ASSUME NEW s \in GatewayStream, AppendNext(s) PROVE UNCHANGED storeVars
  BY <1>1 DEF AppendNext
<1>2. ASSUME NEW e \in late, LateAnswer(e) PROVE [StoreNext]_storeVars
  <2>1. e \in Id /\ (Accepts(e) \/ Refuses(e))
    BY <1>2, RowsAreIds DEF LateAnswer, Filed, DeliveryTypeOK
  <2> QED
    BY <2>1, SubmissionStores
<1>3. ASSUME Operate PROVE StoreNext
  <2>1. PICK e \in Id : AppendPlan([id |-> e, proj |-> Env[e].proj])
    BY <1>3 DEF Operate
  <2>2. [id |-> e, proj |-> Env[e].proj] \in Plan
    BY DEF Plan
  <2> QED
    BY <2>1, <2>2 DEF StoreNext
<1>4. ASSUME NEW p \in Pusher, Answer(p) PROVE [StoreNext]_storeVars
  <2>1. Row(p) \in Id /\ (Accepts(Row(p)) \/ Refuses(Row(p)))
    BY <1>4, AtARow DEF Answer
  <2> QED
    BY <2>1, SubmissionStores
<1>5. ASSUME NEW p \in Pusher, Pass(p) \/ GiveUp(p) \/ Die(p)
      PROVE  UNCHANGED storeVars
  BY <1>5 DEF Pass, GiveUp, Die, StartPass, Offer, MarkAccepted, ClearWedge,
              HoldStream, MarkRefused, RecordWedge
<1>6. ASSUME UNCHANGED deliveryVars PROVE UNCHANGED storeVars
  BY <1>6 DEF deliveryVars
<1> QED
  BY <1>1, <1>2, <1>3, <1>4, <1>5, <1>6 DEF DeliveryNext

(* Whatever the gateways send, lose and send again, the kernel's store        *)
(* behaves as KernelStore says: every theorem of the store holds of it.       *)
THEOREM DeliveryKeepsStore == DeliverySpec => StoreSpec
BY InitFiled, NextFiled, DeliveryStepStores, PTL
DEF DeliverySpec, StoreSpec, DeliveryInit

--------------------------------------------------------------------------------
(* The kernel's log only grows, and only at positions the store allows.       *)

LEMMA HeldGrows ==
  ASSUME [StoreNext]_storeVars
  PROVE  envelopes \subseteq envelopes' /\ resumes \subseteq resumes'
<1>1. ASSUME NEW p \in Plan, AppendPlan(p)
      PROVE  envelopes \subseteq envelopes' /\ resumes \subseteq resumes'
  BY <1>1 DEF AppendPlan, WriteProjection
<1> QED
  BY <1>1, OnlyAppendChains DEF chainTables

(* A row the kernel has accepted is held from the answer on. *)
AnswersTrue ==
  \A p \in Pusher : push[p].at = "accepted" => Row(p) \in envelopes

Delivered == Filed /\ AnswersTrue /\ AcceptedIsHeld

LEMMA NextAnswersTrue ==
  ASSUME Delivered, [DeliveryNext]_deliveryVars
  PROVE  AnswersTrue'
<1>0. /\ envelopes \subseteq envelopes'
      /\ \A p \in Pusher : push[p].at = "accepted" => Row(p) \in envelopes
      /\ push \in [Pusher -> PushRecord]
  BY HeldGrows, DeliveryStepStores DEF Delivered, AnswersTrue, Filed
<1>1. ASSUME NEW p \in Pusher, NEW r, push' = [push EXCEPT ![p] = r],
             r.at = "accepted" => r.row \in envelopes'
      PROVE  AnswersTrue'
  BY <1>0, <1>1 DEF AnswersTrue, Row
<1>2. ASSUME UNCHANGED push PROVE AnswersTrue'
  BY <1>0, <1>2 DEF AnswersTrue, Row
<1>3. ASSUME NEW p \in Pusher, Answer(p) PROVE AnswersTrue'
  <2>1. CASE Accepts(Row(p)) /\ push' = [push EXCEPT ![p].at = "accepted"]
    <3>1. Row(p) \in envelopes'
      BY <2>1 DEF Accepts, AppendPlan, Submission, storeVars, tables
    <3> QED
      BY <1>0, <1>1, <2>1, <3>1 DEF PushRecord, Row
  <2>2. CASE push' = [push EXCEPT ![p].at = "refused"]
    BY <1>0, <1>1, <2>2 DEF PushRecord
  <2> QED
    BY <1>3, <2>1, <2>2 DEF Answer
<1>4. ASSUME NEW p \in Pusher, Pass(p) \/ GiveUp(p) \/ Die(p)
      PROVE  \E r : push' = [push EXCEPT ![p] = r] /\ r.at # "accepted"
  <2>1. \A rows : Proceed(rows).at # "accepted"
    BY DEF Proceed, Idle
  <2>2. CASE Offer(p)
    BY <2>2 DEF Offer
  <2>3. CASE MarkAccepted(p) \/ MarkRefused(p)
    BY <1>0, <2>3 DEF MarkAccepted, MarkRefused, PushRecord
  <2>4. CASE GiveUp(p) \/ Die(p)
    BY <2>4 DEF GiveUp, Die, Idle
  <2> QED
    BY <1>4, <2>1, <2>2, <2>3, <2>4
    DEF Pass, StartPass, ClearWedge, HoldStream, RecordWedge
<1>5. ASSUME NEW s \in GatewayStream, AppendNext(s) PROVE UNCHANGED push
  BY <1>5 DEF AppendNext
<1>6. ASSUME NEW e \in late, LateAnswer(e) PROVE UNCHANGED push
  BY <1>6 DEF LateAnswer
<1>7. ASSUME Operate PROVE UNCHANGED push
  BY <1>7 DEF Operate
<1>8. ASSUME UNCHANGED deliveryVars PROVE UNCHANGED push
  BY <1>8 DEF deliveryVars
<1> QED
  BY <1>1, <1>2, <1>3, <1>4, <1>5, <1>6, <1>7, <1>8 DEF DeliveryNext

LEMMA NextDelivered == Delivered /\ [DeliveryNext]_deliveryVars => Delivered'
<1> SUFFICES ASSUME Delivered, [DeliveryNext]_deliveryVars PROVE Delivered'
  OBVIOUS
<1>0. envelopes \subseteq envelopes' /\ pushed \ faulted \subseteq envelopes
  BY HeldGrows, DeliveryStepStores DEF Delivered, AcceptedIsHeld
<1>1. ASSUME NEW p \in Pusher, MarkAccepted(p) PROVE AcceptedIsHeld'
  <2>1. Row(p) \in envelopes
    BY <1>1 DEF MarkAccepted, Delivered, AnswersTrue
  <2> QED
    BY <1>0, <1>1, <2>1 DEF MarkAccepted, AcceptedIsHeld
<1>2. ASSUME NEW p \in Pusher, MarkRefused(p) PROVE AcceptedIsHeld'
  BY <1>0, <1>2 DEF MarkRefused, AcceptedIsHeld
<1>3. ASSUME NEW p \in Pusher, GiveUp(p) PROVE AcceptedIsHeld'
  BY <1>0, <1>3 DEF GiveUp, AcceptedIsHeld
<1>4. ASSUME UNCHANGED <<pushed, faulted>> PROVE AcceptedIsHeld'
  BY <1>0, <1>4 DEF AcceptedIsHeld
<1>5. \/ \E p \in Pusher : MarkAccepted(p) \/ MarkRefused(p) \/ GiveUp(p)
      \/ UNCHANGED <<pushed, faulted>>
  BY DEF Delivered, DeliveryNext, deliveryVars, fileVars, AppendNext, LateAnswer,
         Operate, Pass, Answer, Die, StartPass, Offer, ClearWedge, HoldStream,
         RecordWedge
<1> QED
  BY <1>1, <1>2, <1>3, <1>4, <1>5, NextFiled, NextAnswersTrue DEF Delivered

(* A row that reads as delivered is held by the kernel: no crossing of two    *)
(* threads, no lost or late answer and no crash erases the mark of a refusal  *)
(* without an acceptance (store.py, mark_pushed).                             *)
THEOREM DeliveredIsHeld == DeliverySpec => []AcceptedIsHeld
<1>1. DeliveryInit => Delivered
  BY InitFiled DEF DeliveryInit, Delivered, AnswersTrue, AcceptedIsHeld, Idle
<1>2. Delivered => AcceptedIsHeld
  BY DEF Delivered
<1> QED
  BY <1>1, <1>2, NextDelivered, PTL DEF DeliverySpec

--------------------------------------------------------------------------------
(* What the kernel holds of a stream is a prefix of the gateway's chain, the  *)
(* resumed positions apart.                                                   *)

LEMMA Places ==
  ASSUME Filed, NEW s \in GatewayStream, NEW e \in Rows(s)
  PROVE  \E i \in DOMAIN chain[s] : /\ chain[s][i] = e
                                    /\ Env[e].stream = s /\ Env[e].seq = i - 1
                                    /\ i \in Nat /\ i >= 1
<1>1. chain[s] \in Seq(Id)
  BY DEF Filed, DeliveryTypeOK
<1>2. PICK i \in DOMAIN chain[s] : e = chain[s][i]
  BY DEF Rows, Range
<1> QED
  BY <1>1, <1>2 DEF Filed, ChainPlaced

(* A row goes in behind the last one held, or behind one that is resumed.     *)
LEMMA NoGap ==
  ASSUME Filed, HeldIsPrefix, NEW s \in GatewayStream,
         NEW k \in DOMAIN chain[s], PositionOk(chain[s][k]),
         NEW i \in DOMAIN chain[s], i < k
  PROVE  \/ chain[s][i] \in envelopes
         \/ \E r \in resumes : r.stream = s /\ r.seq = Env[chain[s][i]].seq
<1> DEFINE e == chain[s][k]
<1>1. /\ chain[s] \in Seq(Id) /\ k \in Nat /\ i \in Nat /\ i >= 1
      /\ Env[e].stream = s /\ Env[e].seq = k - 1
      /\ Env[chain[s][i]].seq = i - 1
  BY DEF Filed, DeliveryTypeOK, ChainPlaced
<1>2. ASSUME NEW h \in Held(s), NEW n \in Nat, Env[h].seq = n
      PROVE  n + 1 \in DOMAIN chain[s] /\ chain[s][n + 1] = h
  BY <1>2, Places DEF HeldIsPrefix
<1>3. ASSUME NEW h \in Held(s), NEW n \in Nat, Env[h].seq = n, i <= n
      PROVE  \/ chain[s][i] \in envelopes
             \/ \E r \in resumes : r.stream = s /\ r.seq = Env[chain[s][i]].seq
  BY <1>1, <1>2, <1>3 DEF HeldIsPrefix, Held
<1>4. CASE Genesis(e)
  BY <1>1, <1>4 DEF Genesis
<1>5. ASSUME NEW h \in Held(s), Env[e].seq = Env[h].seq + 1
      PROVE  \/ chain[s][i] \in envelopes
             \/ \E r \in resumes : r.stream = s /\ r.seq = Env[chain[s][i]].seq
  <2>1. PICK n \in Nat : Env[h].seq = n
    BY Places DEF HeldIsPrefix
  <2>2. n = k - 2 /\ n + 1 \in DOMAIN chain[s] /\ chain[s][n + 1] = h
    BY <1>1, <1>2, <1>5, <2>1
  <2>3. CASE i <= n
    BY <1>3, <2>1, <2>3
  <2>4. CASE i = n + 1
    BY <2>2, <2>4 DEF Held
  <2> QED
    BY <1>1, <2>2, <2>3, <2>4
<1>6. CASE Continues(e)
  BY <1>1, <1>5, <1>6 DEF Continues
<1>7. CASE Bridges(e)
  <2>1. \E r \in resumes : r.stream = s /\ r.seq = k - 2
    BY <1>1, <1>7 DEF Bridges
  <2>2. CASE Held(s) = {} /\ Env[e].seq = 1
    BY <1>1, <2>1, <2>2
  <2>3. ASSUME NEW h \in Held(s), Env[e].seq = Env[h].seq + 2
        PROVE  \/ chain[s][i] \in envelopes
               \/ \E r \in resumes : r.stream = s /\ r.seq = Env[chain[s][i]].seq
    <3>1. PICK n \in Nat : Env[h].seq = n
      BY Places DEF HeldIsPrefix
    <3>2. n = k - 3 /\ n + 1 \in DOMAIN chain[s] /\ chain[s][n + 1] = h
      <4>1. n = k - 3
        BY <1>1, <2>3, <3>1
      <4>2. n + 1 \in DOMAIN chain[s] /\ chain[s][n + 1] = h
        BY <1>2, <3>1
      <4> QED
        BY <4>1, <4>2
    <3>3. CASE i <= n
      BY <1>3, <3>1, <3>3
    <3>4. CASE i = n + 1
      BY <3>2, <3>4 DEF Held
    <3>5. CASE i = n + 2
      BY <1>1, <2>1, <3>2, <3>5
    <3> QED
      BY <1>1, <3>2, <3>3, <3>4, <3>5
  <2> QED
    BY <1>1, <1>7, <2>2, <2>3 DEF Bridges
<1> QED
  BY <1>4, <1>6, <1>7 DEF PositionOk

(* The store takes in a row of the file, or something of a stream that is not *)
(* the gateway's, or nothing.                                                 *)
LEMMA Submitted ==
  ASSUME Filed, [DeliveryNext]_deliveryVars
  PROVE  \/ UNCHANGED envelopes /\ resumes \subseteq resumes'
         \/ /\ UNCHANGED chain
            /\ resumes \subseteq resumes'
            /\ \E e \in Id : /\ PositionOk(e)
                             /\ envelopes' = envelopes \cup {e}
                             /\ e \in AllRows \/ Env[e].stream \notin GatewayStream
<1>1. ASSUME NEW e \in AllRows, Accepts(e) \/ Refuses(e)
      PROVE  \/ UNCHANGED envelopes /\ resumes \subseteq resumes'
             \/ /\ resumes \subseteq resumes'
                /\ e \in Id /\ PositionOk(e) /\ envelopes' = envelopes \cup {e}
  <2>1. e \in Id /\ Submission(e) \in Plan /\ Submission(e).id = e
    BY RowsAreIds DEF Submission, Plan
  <2>2. CASE AppendPlan(Submission(e))
    BY <2>1, <2>2, Accepted, SubmissionStores, HeldGrows DEF AppendPlan, Accepts
  <2>3. CASE UNCHANGED storeVars
    BY <2>3 DEF storeVars, tables
  <2>4. ASSUME NEW code \in Reason, RecordRejection(e, code)
        PROVE  UNCHANGED storeVars \/ (UNCHANGED envelopes /\ UNCHANGED resumes)
    BY <2>4 DEF RecordRejection, tables
  <2> QED
    BY <1>1, <2>2, <2>3, <2>4 DEF Accepts, Refuses
<1>2. ASSUME NEW e \in late, LateAnswer(e)
      PROVE  e \in AllRows /\ (Accepts(e) \/ Refuses(e)) /\ UNCHANGED chain
  BY <1>2 DEF LateAnswer, fileVars, Filed, DeliveryTypeOK
<1>3. ASSUME NEW p \in Pusher, Answer(p)
      PROVE  /\ Row(p) \in AllRows /\ UNCHANGED chain
             /\ Accepts(Row(p)) \/ Refuses(Row(p))
  BY <1>3, AtARow DEF Answer, fileVars
<1>4. ASSUME Operate
      PROVE  /\ UNCHANGED chain
             /\ resumes \subseteq resumes'
             /\ \E e \in Id : /\ PositionOk(e) /\ Env[e].stream \notin GatewayStream
                              /\ envelopes' = envelopes \cup {e}
  <2>1. PICK e \in Id : /\ Env[e].stream = CoreStream
                        /\ AppendPlan([id |-> e, proj |-> Env[e].proj])
                        /\ UNCHANGED chain
    BY <1>4 DEF Operate, fileVars
  <2>2. Env[e].stream \notin GatewayStream
    BY <2>1, DeliveryAssumption DEF DeliveryAssumption
  <2>3. [id |-> e, proj |-> Env[e].proj] \in Plan
    BY DEF Plan
  <2>4. PositionOk(e) /\ envelopes' = envelopes \cup {e}
    BY <2>1, <2>3, Accepted DEF AppendPlan
  <2>5. resumes \subseteq resumes'
    BY <2>1 DEF AppendPlan, WriteProjection
  <2> QED
    BY <2>1, <2>2, <2>4, <2>5
<1>5. ASSUME NEW p \in Pusher, Pass(p) \/ GiveUp(p) \/ Die(p)
      PROVE  UNCHANGED storeVars
  BY <1>5 DEF Pass, GiveUp, Die, StartPass, Offer, MarkAccepted, ClearWedge,
              HoldStream, MarkRefused, RecordWedge
<1>6. ASSUME NEW s \in GatewayStream, AppendNext(s) PROVE UNCHANGED storeVars
  BY <1>6 DEF AppendNext
<1>7. ASSUME UNCHANGED deliveryVars PROVE UNCHANGED storeVars
  BY <1>7 DEF deliveryVars
<1>8. ASSUME UNCHANGED storeVars PROVE UNCHANGED envelopes /\ resumes \subseteq resumes'
  BY <1>8 DEF storeVars, tables
<1> QED
  BY <1>1, <1>2, <1>3, <1>4, <1>5, <1>6, <1>7, <1>8 DEF DeliveryNext

InOrder == Filed /\ HeldIsPrefix

LEMMA AppendKeepsOrder ==
  ASSUME InOrder, NEW e \in Id, PositionOk(e),
         e \in AllRows \/ Env[e].stream \notin GatewayStream,
         envelopes' = envelopes \cup {e}, UNCHANGED chain,
         resumes \subseteq resumes'
  PROVE  HeldIsPrefix'
<1> SUFFICES ASSUME NEW s \in GatewayStream
             PROVE  /\ (Held(s) \subseteq Rows(s))'
                    /\ (\A i, j \in DOMAIN chain[s] :
                          i < j /\ chain[s][j] \in envelopes =>
                            \/ chain[s][i] \in envelopes
                            \/ \E r \in resumes :
                                 r.stream = s /\ r.seq = Env[chain[s][i]].seq)'
  BY DEF HeldIsPrefix
<1>1. Env[e].stream = s => e \in Rows(s)
  BY RowsOfTheirStream DEF InOrder
<1>2. (Held(s) \subseteq Rows(s))'
  BY <1>1 DEF InOrder, HeldIsPrefix, Held, Rows
<1>3. ASSUME NEW i \in DOMAIN chain[s], NEW j \in DOMAIN chain[s], i < j,
             chain[s][j] \in envelopes'
      PROVE  \/ chain[s][i] \in envelopes'
             \/ \E r \in resumes' : r.stream = s /\ r.seq = Env[chain[s][i]].seq
  <2>1. CASE chain[s][j] \in envelopes
    BY <1>3, <2>1 DEF InOrder, HeldIsPrefix
  <2>2. CASE chain[s][j] = e
    BY <1>3, <2>2, NoGap DEF InOrder
  <2> QED
    BY <1>3, <2>1, <2>2
<1> QED
  BY <1>2, <1>3

LEMMA NextInOrder == InOrder /\ [DeliveryNext]_deliveryVars => InOrder'
<1> SUFFICES ASSUME InOrder, [DeliveryNext]_deliveryVars PROVE HeldIsPrefix'
  BY NextFiled DEF InOrder
<1>1. ASSUME UNCHANGED <<envelopes, chain>>, resumes \subseteq resumes'
      PROVE  HeldIsPrefix'
  BY <1>1 DEF InOrder, HeldIsPrefix, Held, Rows
<1>2. ASSUME NEW t \in GatewayStream, NEW f \in Id,
             Env[f].stream = t, Env[f].seq = Len(chain[t]),
             chain' = [chain EXCEPT ![t] = Append(@, f)],
             UNCHANGED storeVars
      PROVE  HeldIsPrefix'
  <2>1. UNCHANGED <<envelopes, resumes>>
    BY <1>2 DEF storeVars, tables
  <2>2. /\ \A s \in GatewayStream : \A i \in DOMAIN chain[s] :
             i \in DOMAIN chain'[s] /\ chain'[s][i] = chain[s][i]
        /\ \A s \in GatewayStream : \A i \in DOMAIN chain'[s] :
             \/ i \in DOMAIN chain[s]
             \/ s = t /\ i = Len(chain[s]) + 1 /\ chain'[s][i] = f
    BY <1>2, AppendKeepsRows DEF InOrder
  <2>3. \A s \in GatewayStream : /\ DOMAIN chain[s] = 1..Len(chain[s])
                                 /\ Len(chain[s]) \in Nat
    BY DEF InOrder, Filed, DeliveryTypeOK
  <2>4. f \notin envelopes
    <3> SUFFICES ASSUME f \in Held(t) PROVE FALSE
      BY <1>2 DEF Held
    <3>1. f \in Rows(t)
      BY DEF InOrder, HeldIsPrefix
    <3>2. PICK i \in DOMAIN chain[t] : Env[f].seq = i - 1 /\ i \in Nat
      BY <3>1, Places DEF InOrder
    <3>3. i - 1 = Len(chain[t])
      BY <1>2, <3>2
    <3>4. i \in 1..Len(chain[t]) /\ Len(chain[t]) \in Nat
      BY <2>3, <3>2
    <3> QED
      BY <3>2, <3>3, <3>4
  <2>5. \A s \in GatewayStream : Held(s)' \subseteq Rows(s)'
    <3>1. \A s \in GatewayStream : Held(s)' = Held(s)
      BY <2>1 DEF Held
    <3>2. \A s \in GatewayStream : Rows(s) \subseteq Rows(s)'
      BY <2>2 DEF Rows, Range
    <3> QED
      BY <3>1, <3>2 DEF InOrder, HeldIsPrefix
  <2>6. ASSUME NEW s \in GatewayStream, NEW i \in DOMAIN chain'[s],
               NEW j \in DOMAIN chain'[s], i < j, chain'[s][j] \in envelopes
        PROVE  i \in DOMAIN chain[s] /\ j \in DOMAIN chain[s]
    BY <2>2, <2>3, <2>4, <2>6
  <2> QED
    BY <2>1, <2>2, <2>5, <2>6 DEF InOrder, HeldIsPrefix
<1>3. Filed
  BY DEF InOrder
<1>4. CASE /\ UNCHANGED chain /\ resumes \subseteq resumes'
           /\ \E e \in Id : /\ PositionOk(e)
                            /\ envelopes' = envelopes \cup {e}
                            /\ e \in AllRows \/ Env[e].stream \notin GatewayStream
  BY <1>4, AppendKeepsOrder
<1> QED
  BY <1>1, <1>2, <1>3, <1>4, ChainGrows, Submitted

(* The kernel holds of every stream what the gateway chained, in that order,  *)
(* and only a position some root resumed is missing before a row it holds:    *)
(* whatever is lost, late, refused or pushed twice (§04 §7.2, §05 §7.1).      *)
THEOREM HeldInChainOrder == DeliverySpec => []HeldIsPrefix
<1>1. DeliveryInit => InOrder
  <2>1. DeliveryInit => HeldIsPrefix
    BY DEF DeliveryInit, StoreInit, HeldIsPrefix, Held
  <2> QED
    BY <2>1, InitFiled DEF InOrder
<1>2. InOrder => HeldIsPrefix
  BY DEF InOrder
<1> QED
  BY <1>1, <1>2, NextInOrder, PTL DEF DeliverySpec

--------------------------------------------------------------------------------
(* The rows of a pass are the first ones of their streams. *)

LEMMA RangeFinite ==
  ASSUME NEW T, NEW s \in Seq(T)
  PROVE  IsFiniteSet(Range(s))
<1>1. DOMAIN s = 1..Len(s) /\ Len(s) \in Nat /\ IsFiniteSet(1..Len(s))
  BY FS_Interval
<1>2. s \in Surjection(DOMAIN s, Range(s))
  BY DEF Surjection, Range
<1> QED
  BY <1>1, <1>2, FS_Surjection

LEMMA RowsFinite ==
  ASSUME Filed
  PROVE  IsFiniteSet(AllRows)
<1> DEFINE rows == [s \in GatewayStream |-> Rows(s)]
           Files == {Rows(s) : s \in GatewayStream}
<1>1. IsFiniteSet(GatewayStream)
  BY RangeFinite, DeliveryAssumption DEF DeliveryAssumption, GatewayStream
<1>2. rows \in Surjection(GatewayStream, Files)
  BY DEF Surjection
<1>3. IsFiniteSet(Files)
  <2> HIDE DEF rows, Files
  <2> QED
    BY <1>1, <1>2, FS_Surjection
<1>4. \A s \in GatewayStream : chain[s] \in Seq(Id)
  BY DEF Filed, DeliveryTypeOK
<1>5. \A T \in Files : IsFiniteSet(T)
  BY <1>4, RangeFinite DEF Rows
<1> QED
  BY <1>3, <1>5, FS_UNION DEF AllRows

(* f stands before e in one stream. *)
Ahead(f, e) == Env[f].stream = Env[e].stream /\ Env[f].seq < Env[e].seq

(* With a row, S has every row before it in its stream. *)
Initial(S) == \A e \in S, f \in AllRows : Ahead(f, e) => f \in S

LEMMA RowsPlaced ==
  ASSUME Filed, NEW e \in AllRows
  PROVE  Env[e].seq \in Nat /\ Env[e].seq < Len(chain[Env[e].stream])
<1>1. Env[e].stream \in GatewayStream /\ e \in Rows(Env[e].stream)
  BY RowsOfTheirStream
<1>2. PICK i \in DOMAIN chain[Env[e].stream] :
        Env[e].seq = i - 1 /\ i \in Nat /\ i >= 1
  BY <1>1, Places
<1>3. chain[Env[e].stream] \in Seq(Id)
  BY <1>1 DEF Filed, DeliveryTypeOK
<1> QED
  BY <1>2, <1>3

LEMMA AheadIsBefore ==
  ASSUME NEW e, NEW f, Ahead(f, e)
  PROVE  Before(f, e)
BY DEF Ahead, Before

LEMMA BeforeThrough ==
  ASSUME Filed, NEW e \in AllRows, NEW f \in AllRows, NEW g \in AllRows,
         Before(g, f), Ahead(f, e)
  PROVE  Before(g, e)
<1>1. /\ Env[e].seq \in Nat /\ Env[f].seq \in Nat /\ Env[g].seq \in Nat
  BY RowsPlaced
<1> QED
  BY <1>1 DEF Before, Ahead

(* A row is not among the first while one ahead of it is left out. *)
LEMMA FirstInOrder ==
  ASSUME Filed, NEW rows \in SUBSET AllRows, NEW n \in Nat,
         NEW e \in First(n, rows), NEW f \in rows, Ahead(f, e)
  PROVE  f \in First(n, rows)
<1> DEFINE P(x) == {g \in rows : Before(g, x)}
<1>1. e \in rows /\ Cardinality(P(e)) < n
  BY DEF First
<1>2. P(f) \subseteq P(e)
  BY <1>1, BeforeThrough
<1>3. IsFiniteSet(P(e))
  BY RowsFinite, FS_Subset
<1>4. /\ Cardinality(P(f)) <= Cardinality(P(e))
      /\ Cardinality(P(e)) \in Nat /\ Cardinality(P(f)) \in Nat
  BY <1>2, <1>3, FS_Subset, FS_CardinalityType
<1>5. Cardinality(P(f)) < n
  <2> HIDE DEF P
  <2> QED
    BY <1>1, <1>4
<1> QED
  BY <1>5 DEF First

LEMMA FirstHasNoneAhead ==
  ASSUME Filed, NEW rows \in SUBSET AllRows, NEW e \in First(1, rows),
         NEW f \in rows
  PROVE  ~Ahead(f, e)
<1> SUFFICES ASSUME Ahead(f, e) PROVE FALSE
  OBVIOUS
<1> DEFINE P == {g \in rows : Before(g, e)}
<1>1. f \in P /\ Cardinality(P) < 1
  BY AheadIsBefore DEF First
<1>2. IsFiniteSet(P)
  BY RowsFinite, FS_Subset
<1>3. Cardinality(P) \in Nat /\ Cardinality(P) # 0
  BY <1>1, <1>2, FS_EmptySet, FS_CardinalityType
<1> QED
  BY <1>1, <1>3

--------------------------------------------------------------------------------
(* One pusher that is not killed: at most one row past what the kernel holds  *)
(* is closed by a refusal.  Two of them, or one that dies between mark_pushed *)
(* and record_wedge, may close two.                                           *)

Alone == Mortal = {} /\ \A p, q \in Pusher : p = q

Judging(p) == push[p].at \in {"sent", "accepted", "refused"}

(* What a pass has not closed yet. *)
Left(p) == push[p].rest \cup (IF Judging(p) THEN {Row(p)} ELSE {})

(* A pass takes up the first rows that are open, in chain order. *)
InTurn(p) ==
  /\ Left(p) \cap pushed = {}
  /\ Initial(pushed \cup Left(p))
  /\ Judging(p) => Row(p) \notin push[p].rest /\ Initial(pushed \cup {Row(p)})

ClosedInOrder == Initial(pushed) /\ \A p \in Pusher : InTurn(p)

(* Closed, though the kernel holds neither the row nor one behind it. *)
Stranded(s) == {e \in pushed \ envelopes :
                  Env[e].stream = s /\ \A h \in Held(s) : Env[h].seq < Env[e].seq}

(* A stream with such a row has one, and a wedge or one about to be recorded. *)
Wedged(s) ==
  /\ \A e, f \in Stranded(s) : e = f
  /\ \/ Stranded(s) = {}
     \/ wedge[s] # None
     \/ \E p \in Pusher : push[p].at = "wedging" /\ StreamOf(p) = s

(* What a pusher read of the wedge is true when it acts on it. *)
Informed(p) ==
  /\ Judging(p) => (push[p].standing <=> wedge[StreamOf(p)] # None)
  /\ push[p].at = "clearing" => Stranded(StreamOf(p)) = {}

HeldBack == /\ Delivered
            /\ ClosedInOrder
            /\ \A s \in GatewayStream : Wedged(s)
            /\ \A p \in Pusher : Informed(p)

LEMMA OnlyPusher ==
  ASSUME Alone, HeldBack, NEW p \in Pusher
  PROVE  /\ \A q \in Pusher : q = p
         /\ push \in [Pusher -> PushRecord]
         /\ \A r : push' = [push EXCEPT ![p] = r] => push'[p] = r
         /\ push[p].rest \subseteq AllRows
         /\ push[p].at \notin {"idle", "next"} =>
              Row(p) \in AllRows /\ StreamOf(p) \in GatewayStream
         /\ Initial(pushed) /\ InTurn(p) /\ Informed(p)
<1>1. Filed /\ push \in [Pusher -> PushRecord]
  BY DEF HeldBack, Delivered, Filed
<1>2. push[p].at \notin {"idle", "next"} =>
        Row(p) \in AllRows /\ StreamOf(p) \in GatewayStream
  BY <1>1, AtARow
<1>3. push[p].rest \subseteq AllRows
  BY <1>1 DEF Filed, DeliveryTypeOK
<1> QED
  BY <1>1, <1>2, <1>3 DEF Alone, HeldBack, ClosedInOrder

(* The pusher goes on to the next rows, or ends its pass. *)
LEMMA ProceedInTurn ==
  ASSUME Alone, HeldBack, NEW p \in Pusher, NEW rows,
         push' = [push EXCEPT ![p] = Proceed(rows)],
         UNCHANGED <<chain, pushed>>,
         rows \cap pushed = {}, Initial(pushed \cup rows)
  PROVE  ClosedInOrder'
<1>1. push'[p] = Proceed(rows) /\ (\A q \in Pusher : q = p)
  BY OnlyPusher
<1>2. push'[p].at \in {"idle", "next"} /\ push'[p].rest = rows
  <2>1. Proceed(rows).at \in {"idle", "next"} /\ Proceed(rows).rest = rows
    BY DEF Proceed, Idle
  <2> QED
    BY <1>1, <2>1
<1>3. Left(p)' = rows /\ ~Judging(p)'
  BY <1>2 DEF Left, Judging
<1>4. AllRows' = AllRows /\ Initial(pushed)
  BY OnlyPusher DEF AllRows, Rows
<1>5. Initial(pushed)' /\ Initial(pushed \cup Left(p))'
  BY <1>3, <1>4 DEF Initial
<1>6. InTurn(p)'
  BY <1>3, <1>5 DEF InTurn
<1> QED
  BY <1>1, <1>5, <1>6 DEF ClosedInOrder

(* The pusher is at a row, with the same rows left to close. *)
LEMMA SameTurn ==
  ASSUME Alone, HeldBack, NEW p \in Pusher, UNCHANGED <<chain, pushed>>,
         Judging(p), Judging(p)', UNCHANGED Row(p), push'[p].rest = push[p].rest
  PROVE  ClosedInOrder'
<1>1. AllRows' = AllRows /\ (\A q \in Pusher : q = p) /\ Initial(pushed) /\ InTurn(p)
  BY OnlyPusher DEF AllRows, Rows
<1>2. Left(p)' = Left(p)
  BY DEF Left
<1>3. InTurn(p)'
  BY <1>1, <1>2 DEF InTurn, Initial
<1> QED
  BY <1>1, <1>3 DEF ClosedInOrder, Initial

(* A row is closed. *)
LEMMA ClosedInTurn ==
  ASSUME Alone, HeldBack, NEW p \in Pusher, UNCHANGED chain,
         Judging(p), ~Judging(p)', push'[p].rest = push[p].rest,
         pushed' = pushed \cup {Row(p)}
  PROVE  ClosedInOrder'
<1>1. AllRows' = AllRows /\ (\A q \in Pusher : q = p) /\ InTurn(p)
  BY OnlyPusher DEF AllRows, Rows
<1>2. Left(p)' = push[p].rest /\ Left(p) = push[p].rest \cup {Row(p)}
  BY DEF Left
<1>3. Initial(pushed)' /\ Initial(pushed \cup Left(p))'
  BY <1>1, <1>2 DEF InTurn, Initial
<1>4. InTurn(p)'
  BY <1>1, <1>2, <1>3 DEF InTurn
<1> QED
  BY <1>1, <1>3, <1>4 DEF ClosedInOrder

LEMMA StartsInTurn ==
  ASSUME Alone, HeldBack, NEW p \in Pusher, StartPass(p)
  PROVE  ClosedInOrder'
<1>0. Filed /\ PushLimit \in Nat /\ Initial(pushed)
  BY DeliveryAssumption, OnlyPusher DEF DeliveryAssumption, HeldBack, Delivered
<1>1. Unpushed \subseteq AllRows \ pushed
  BY FirstOfRows DEF Unpushed
<1>2. ASSUME NEW e \in Unpushed, NEW f \in AllRows, Ahead(f, e)
      PROVE  f \in pushed \cup Unpushed
  BY <1>0, <1>2, FirstInOrder DEF Unpushed
<1>3. Initial(pushed \cup Unpushed)
  BY <1>0, <1>2 DEF Initial
<1> QED
  BY <1>1, <1>3, ProceedInTurn DEF StartPass, fileVars

LEMMA OffersInTurn ==
  ASSUME Alone, HeldBack, NEW p \in Pusher, Offer(p)
  PROVE  ClosedInOrder'
<1>0. /\ Filed /\ push[p].at = "next" /\ push[p].rest \subseteq AllRows
      /\ Initial(pushed) /\ InTurn(p) /\ (\A q \in Pusher : q = p)
      /\ UNCHANGED <<chain, pushed>>
  BY OnlyPusher DEF Offer, HeldBack, Delivered, fileVars
<1>1. PICK e \in First(1, push[p].rest) :
        /\ push'[p].at = "sent" /\ push'[p].row = e
        /\ push'[p].rest = push[p].rest \ {e}
  BY OnlyPusher DEF Offer
<1>2. Left(p) = push[p].rest /\ e \in push[p].rest
  BY <1>0, FirstOfRows DEF Left, Judging
<1>3. Judging(p)' /\ Row(p)' = e /\ Left(p)' = push[p].rest
  BY <1>1, <1>2 DEF Left, Judging, Row
<1>4. \A f \in push[p].rest : ~Ahead(f, e)
  BY <1>0, FirstHasNoneAhead
<1>5. AllRows' = AllRows
  BY <1>0 DEF AllRows, Rows
<1>6. Initial(pushed \cup {e})
  BY <1>0, <1>2, <1>4 DEF InTurn, Initial
<1>7. InTurn(p)'
  BY <1>0, <1>1, <1>2, <1>3, <1>5, <1>6 DEF InTurn, Initial
<1> QED
  BY <1>0, <1>5, <1>7 DEF ClosedInOrder, Initial

LEMMA HoldsInTurn ==
  ASSUME Alone, HeldBack, NEW p \in Pusher, HoldStream(p) \/ RecordWedge(p)
  PROVE  ClosedInOrder'
<1>0. /\ InTurn(p) /\ Initial(pushed) /\ UNCHANGED <<chain, pushed>>
      /\ push' = [push EXCEPT ![p] = Proceed(Elsewhere(p))]
  BY OnlyPusher DEF HoldStream, RecordWedge, fileVars
<1>1. Left(p) \subseteq push[p].rest \cup {Row(p)} /\ push[p].rest \subseteq Left(p)
  BY DEF Left
<1>2. Elsewhere(p) \subseteq Left(p)
  BY <1>1 DEF Elsewhere
<1>3. ASSUME NEW e \in Elsewhere(p), NEW f \in AllRows, Ahead(f, e)
      PROVE  f \in pushed \cup Elsewhere(p)
  <2>1. f \in pushed \cup Left(p)
    BY <1>0, <1>2, <1>3 DEF InTurn, Initial
  <2>2. Env[f].stream = Env[e].stream /\ Env[e].stream # StreamOf(p)
    BY <1>3 DEF Ahead, Elsewhere
  <2>3. f # Row(p)
    BY <2>2 DEF StreamOf
  <2> QED
    BY <1>1, <2>1, <2>2, <2>3 DEF Elsewhere
<1>4. Elsewhere(p) \cap pushed = {} /\ Initial(pushed \cup Elsewhere(p))
  BY <1>0, <1>2, <1>3 DEF InTurn, Initial
<1> QED
  BY <1>0, <1>4, ProceedInTurn

LEMMA PassInTurn ==
  ASSUME Alone, HeldBack, NEW p \in Pusher, Pass(p) \/ Answer(p) \/ GiveUp(p)
  PROVE  ClosedInOrder'
<1>0. push \in [Pusher -> PushRecord] /\ InTurn(p) /\ Initial(pushed)
  BY OnlyPusher
<1>1. CASE StartPass(p) \/ Offer(p) \/ HoldStream(p) \/ RecordWedge(p)
  BY <1>1, StartsInTurn, OffersInTurn, HoldsInTurn
<1>2. CASE MarkAccepted(p) \/ MarkRefused(p)
  <2>1. /\ push[p].at \in {"accepted", "refused"}
        /\ push'[p].at \in {"clearing", "wedging"}
        /\ push'[p].rest = push[p].rest
        /\ pushed' = pushed \cup {Row(p)} /\ UNCHANGED chain
    BY <1>0, <1>2 DEF MarkAccepted, MarkRefused, PushRecord
  <2> QED
    BY <2>1, ClosedInTurn DEF Judging
<1>3. CASE Answer(p)
  <2>1. /\ push[p].at = "sent" /\ push'[p].at \in {"accepted", "refused"}
        /\ push'[p].rest = push[p].rest /\ push'[p].row = push[p].row
        /\ UNCHANGED <<chain, pushed>>
    BY <1>0, <1>3 DEF Answer, PushRecord, fileVars
  <2> QED
    BY <2>1, SameTurn DEF Judging, Row
<1>4. CASE ClearWedge(p)
  <2>1. /\ push[p].at = "clearing" /\ UNCHANGED <<chain, pushed>>
        /\ push' = [push EXCEPT ![p] = Proceed(push[p].rest)]
    BY <1>4 DEF ClearWedge
  <2>2. Left(p) = push[p].rest
    BY <2>1 DEF Left, Judging
  <2> QED
    BY <1>0, <2>1, <2>2, ProceedInTurn DEF InTurn
<1>5. CASE GiveUp(p)
  <2>1. /\ UNCHANGED <<chain, pushed>>
        /\ push' = [push EXCEPT ![p] = Proceed({})]
    BY <1>5 DEF GiveUp, Proceed
  <2>2. pushed \cup {} = pushed
    OBVIOUS
  <2> QED
    BY <1>0, <2>1, <2>2, ProceedInTurn
<1> QED
  BY <1>1, <1>2, <1>3, <1>4, <1>5 DEF Pass

(* What the file and the kernel hold may grow: a row that is chained stands   *)
(* behind every other, and an acceptance strands nothing.                     *)
LEMMA OthersInTurn ==
  ASSUME Alone, HeldBack, [DeliveryNext]_deliveryVars, UNCHANGED <<pushed, push>>
  PROVE  ClosedInOrder'
<1>0. /\ Filed /\ pushed \subseteq AllRows
      /\ \A p \in Pusher : Left(p) \subseteq AllRows
  <2>1. Filed
    BY DEF HeldBack, Delivered
  <2> QED
    BY <2>1, OnlyPusher DEF Left, Judging, Filed, DeliveryTypeOK
<1>1. ASSUME NEW e \in AllRows, NEW f \in AllRows', Ahead(f, e)
      PROVE  f \in AllRows
  <2>1. CASE UNCHANGED chain
    BY <1>1, <2>1 DEF AllRows, Rows
  <2>2. ASSUME NEW s \in GatewayStream, NEW g \in Id,
               Env[g].stream = s, Env[g].seq = Len(chain[s]),
               chain' = [chain EXCEPT ![s] = Append(@, g)]
        PROVE  f \in AllRows
    <3>1. f # g
      BY <1>0, <1>1, <2>2, RowsPlaced DEF Ahead
    <3>2. PICK t \in GatewayStream : f \in Rows(t)'
      BY <1>1 DEF AllRows
    <3>3. PICK i \in DOMAIN chain'[t] : f = chain'[t][i]
      BY <3>2 DEF Rows, Range
    <3>4. /\ \A u \in GatewayStream : \A j \in DOMAIN chain[u] :
               j \in DOMAIN chain'[u] /\ chain'[u][j] = chain[u][j]
          /\ i \in DOMAIN chain[t] \/ chain'[t][i] = g
      BY <1>0, <2>2, AppendKeepsRows
    <3>5. f \in Rows(t)
      BY <3>1, <3>3, <3>4 DEF Rows, Range
    <3> QED
      BY <3>5 DEF AllRows
  <2> QED
    BY <1>0, <2>1, <2>2, ChainGrows
<1>2. ASSUME NEW S, S \subseteq AllRows, Initial(S)
      PROVE  \A e \in S, f \in AllRows' : Ahead(f, e) => f \in S
  BY <1>1, <1>2 DEF Initial
<1>3. Initial(pushed)'
  <2>1. Initial(pushed)
    BY DEF HeldBack, ClosedInOrder
  <2> QED
    BY <1>0, <1>2, <2>1 DEF Initial
<1>4. ASSUME NEW p \in Pusher PROVE InTurn(p)'
  <2>1. InTurn(p) /\ Left(p)' = Left(p) /\ Judging(p)' = Judging(p) /\ Row(p)' = Row(p)
    BY OnlyPusher DEF Left, Judging, Row
  <2>2. Initial(pushed \cup Left(p))'
    <3>1. pushed \cup Left(p) \subseteq AllRows /\ Initial(pushed \cup Left(p))
      BY <1>0, <2>1 DEF InTurn
    <3> QED
      BY <1>2, <2>1, <3>1 DEF Initial
  <2>3. ASSUME Judging(p) PROVE Initial(pushed \cup {Row(p)})'
    <3>1. pushed \cup {Row(p)} \subseteq AllRows /\ Initial(pushed \cup {Row(p)})
      BY <1>0, <2>1, <2>3 DEF InTurn, Left
    <3> QED
      BY <1>2, <2>1, <3>1 DEF Initial
  <2> QED
    BY <2>1, <2>2, <2>3 DEF InTurn
<1> QED
  BY <1>3, <1>4 DEF ClosedInOrder

--------------------------------------------------------------------------------
(* The wedges. *)

LEMMA StrandedShrinks ==
  ASSUME envelopes \subseteq envelopes', pushed' \subseteq pushed \cup envelopes',
         NEW s
  PROVE  Stranded(s)' \subseteq Stranded(s)
BY DEF Stranded, Held

(* Nothing is closed by a refusal, and no wedge changes. *)
LEMMA StaysWedged ==
  ASSUME Alone, HeldBack, NEW s \in GatewayStream,
         Stranded(s)' \subseteq Stranded(s), UNCHANGED wedge,
         \A p \in Pusher : push[p].at = "wedging" => UNCHANGED push
  PROVE  Wedged(s)'
BY DEF HeldBack, Wedged, StreamOf, Row

LEMMA NextWedged ==
  ASSUME Alone, HeldBack, NEW p \in Pusher, Pass(p) \/ Answer(p) \/ GiveUp(p),
         envelopes \subseteq envelopes', NEW s \in GatewayStream
  PROVE  Wedged(s)'
<1>0. /\ push \in [Pusher -> PushRecord] /\ (\A q \in Pusher : q = p)
      /\ Informed(p) /\ Wedged(s)
      /\ DOMAIN wedge = GatewayStream
      /\ push[p].at \notin {"idle", "next"} =>
           /\ Row(p) \in AllRows /\ StreamOf(p) \in GatewayStream
           /\ Row(p) # None
  <2>1. DOMAIN wedge = GatewayStream /\ AllRows \subseteq Id /\ None \notin Id
    BY RowsAreIds, StoreAssumption DEF HeldBack, Delivered, Filed, StoreAssumption
  <2> QED
    BY <2>1, OnlyPusher DEF HeldBack
<1>1. ASSUME UNCHANGED pushed PROVE Stranded(s)' \subseteq Stranded(s)
  BY <1>1, StrandedShrinks
<1>2. CASE StartPass(p) \/ Offer(p) \/ HoldStream(p) \/ Answer(p) \/ GiveUp(p)
  <2>1. UNCHANGED <<pushed, wedge>> /\ push[p].at # "wedging"
    BY <1>2 DEF StartPass, Offer, HoldStream, Answer, GiveUp, fileVars
  <2> QED
    BY <1>0, <1>1, <2>1, StaysWedged
<1>3. CASE MarkAccepted(p)
  <2>1. Row(p) \in envelopes /\ UNCHANGED wedge /\ push[p].at # "wedging"
    BY <1>3 DEF MarkAccepted, HeldBack, Delivered, AnswersTrue
  <2>2. Stranded(s)' \subseteq Stranded(s)
    BY <1>3, <2>1, StrandedShrinks DEF MarkAccepted
  <2> QED
    BY <1>0, <2>1, <2>2, StaysWedged
<1>4. CASE ClearWedge(p)
  <2>1. /\ push[p].at = "clearing" /\ UNCHANGED pushed
        /\ wedge' = [wedge EXCEPT ![StreamOf(p)] = None]
    BY <1>4 DEF ClearWedge
  <2>2. CASE s = StreamOf(p)
    <3>1. Stranded(s)' = {}
      BY <1>0, <1>1, <2>1, <2>2 DEF Informed
    <3> QED
      BY <3>1 DEF Wedged
  <2>3. CASE s # StreamOf(p)
    <3>1. wedge'[s] = wedge[s] /\ Stranded(s)' \subseteq Stranded(s)
      BY <1>0, <1>1, <2>1, <2>3
    <3>2. Stranded(s) = {} \/ wedge[s] # None
      BY <1>0, <2>1 DEF Wedged
    <3> QED
      BY <1>0, <3>1, <3>2 DEF Wedged
  <2> QED
    BY <2>2, <2>3
<1>5. CASE MarkRefused(p)
  <2>1. /\ push[p].at = "refused" /\ ~push[p].standing
        /\ pushed' = pushed \cup {Row(p)}
        /\ UNCHANGED <<envelopes, wedge>>
        /\ push'[p].at = "wedging" /\ push'[p].row = Row(p)
    BY <1>0, <1>5 DEF MarkRefused, PushRecord, Row, storeVars, tables
  <2>2. Stranded(s)' \subseteq Stranded(s) \cup {Row(p)}
    BY <2>1 DEF Stranded, Held
  <2>3. CASE s = StreamOf(p)
    <3>1. Stranded(s) = {}
      BY <1>0, <2>1, <2>3 DEF Wedged, Informed, Judging
    <3>2. StreamOf(p)' = s
      BY <2>1, <2>3 DEF StreamOf, Row
    <3> QED
      BY <2>1, <2>2, <3>1, <3>2 DEF Wedged
  <2>4. CASE s # StreamOf(p)
    <3>1. Stranded(s)' \subseteq Stranded(s)
      BY <2>2, <2>4 DEF Stranded, StreamOf
    <3> QED
      BY <1>0, <2>1, <3>1, StaysWedged
  <2> QED
    BY <2>3, <2>4
<1>6. CASE RecordWedge(p)
  <2>1. /\ push[p].at = "wedging" /\ UNCHANGED pushed
        /\ wedge' = [wedge EXCEPT ![StreamOf(p)] =
                       IF wedge[StreamOf(p)] = None THEN Row(p) ELSE wedge[StreamOf(p)]]
    BY <1>6 DEF RecordWedge
  <2>2. Stranded(s)' \subseteq Stranded(s)
    BY <1>1, <2>1
  <2>3. CASE s = StreamOf(p)
    <3>1. wedge'[s] # None
      BY <1>0, <2>1, <2>3
    <3> QED
      BY <1>0, <2>2, <3>1 DEF Wedged
  <2>4. CASE s # StreamOf(p)
    <3>1. wedge'[s] = wedge[s]
      BY <1>0, <2>1, <2>4
    <3>2. Stranded(s) = {} \/ wedge[s] # None
      BY <1>0, <2>4 DEF Wedged
    <3> QED
      BY <1>0, <2>2, <3>1, <3>2 DEF Wedged
  <2> QED
    BY <2>3, <2>4
<1> QED
  BY <1>2, <1>3, <1>4, <1>5, <1>6 DEF Pass

LEMMA NextInformed ==
  ASSUME Alone, HeldBack, NEW p \in Pusher, Pass(p) \/ Answer(p) \/ GiveUp(p),
         envelopes \subseteq envelopes'
  PROVE  Informed(p)'
<1>0. /\ push \in [Pusher -> PushRecord] /\ Informed(p) /\ InTurn(p)
      /\ Initial(pushed)
      /\ push[p].at \notin {"idle", "next"} =>
           Row(p) \in AllRows /\ StreamOf(p) \in GatewayStream
  BY OnlyPusher
<1>1. ASSUME push'[p].at \in {"idle", "next", "wedging"} PROVE Informed(p)'
  BY <1>1 DEF Informed, Judging
<1>2. ASSUME NEW rows, push' = [push EXCEPT ![p] = Proceed(rows)]
      PROVE  Informed(p)'
  <2>1. Proceed(rows).at \in {"idle", "next"}
    BY DEF Proceed, Idle
  <2>2. push'[p] = Proceed(rows)
    BY <1>2, OnlyPusher
  <2> QED
    BY <1>1, <2>1, <2>2
<1>3. CASE StartPass(p) \/ HoldStream(p) \/ RecordWedge(p) \/ ClearWedge(p)
  BY <1>2, <1>3 DEF StartPass, HoldStream, RecordWedge, ClearWedge
<1>4. CASE GiveUp(p)
  BY <1>0, <1>1, <1>4 DEF GiveUp, Idle
<1>5. CASE MarkRefused(p)
  BY <1>0, <1>1, <1>5 DEF MarkRefused, PushRecord
<1>6. CASE Offer(p)
  <2> DEFINE stands(e) == wedge[Env[e].stream] # None
  <2>1. PICK e : push'[p] = [at |-> "sent", row |-> e, rest |-> push[p].rest \ {e},
                             standing |-> stands(e)]
    BY <1>6, OnlyPusher DEF Offer
  <2> HIDE DEF stands
  <2>2. /\ push'[p].at = "sent" /\ push'[p].row = e
        /\ push'[p].standing = stands(e)
    BY <2>1
  <2>3. UNCHANGED wedge
    BY <1>6 DEF Offer, fileVars
  <2> QED
    BY <2>2, <2>3 DEF Informed, Judging, StreamOf, Row, stands
<1>7. CASE Answer(p)
  <2>1. /\ push[p].at = "sent" /\ push'[p].at \in {"accepted", "refused"}
        /\ push'[p].row = push[p].row /\ push'[p].standing = push[p].standing
        /\ UNCHANGED wedge
    BY <1>0, <1>7 DEF Answer, PushRecord, fileVars
  <2> QED
    BY <1>0, <2>1 DEF Informed, Judging, StreamOf, Row
<1>8. CASE MarkAccepted(p)
  <2>1. /\ push[p].at = "accepted" /\ push'[p].at = "clearing"
        /\ push'[p].row = push[p].row
        /\ pushed' = pushed \cup {Row(p)}
        /\ UNCHANGED envelopes
    BY <1>0, <1>8 DEF MarkAccepted, PushRecord, storeVars, tables
  <2>2. Row(p) \in envelopes /\ Row(p) \notin pushed /\ Row(p) \in AllRows
    BY <1>0, <2>1 DEF HeldBack, Delivered, AnswersTrue, InTurn, Left, Judging
  <2>3. StreamOf(p)' = StreamOf(p)
    BY <2>1 DEF StreamOf, Row
  <2>4. ASSUME NEW e \in pushed, Env[e].stream = StreamOf(p),
               \A h \in Held(StreamOf(p)) : Env[h].seq < Env[e].seq
        PROVE  FALSE
    <3>1. Ahead(Row(p), e)
      BY <2>2, <2>4 DEF Ahead, Held, StreamOf
    <3> QED
      BY <1>0, <2>2, <3>1 DEF Initial
  <2>5. Stranded(StreamOf(p))' = {}
    <3>1. Stranded(StreamOf(p))' \subseteq
            {e \in pushed : /\ Env[e].stream = StreamOf(p)
                            /\ \A h \in Held(StreamOf(p)) : Env[h].seq < Env[e].seq}
      BY <2>1, <2>2, <2>3 DEF Stranded, Held
    <3> QED
      BY <2>4, <3>1
  <2> QED
    BY <2>1, <2>5 DEF Informed, Judging
<1> QED
  BY <1>3, <1>4, <1>5, <1>6, <1>7, <1>8 DEF Pass

LEMMA NextHeldBack ==
  ASSUME Alone
  PROVE  HeldBack /\ [DeliveryNext]_deliveryVars => HeldBack'
<1> SUFFICES ASSUME HeldBack, [DeliveryNext]_deliveryVars PROVE HeldBack'
  OBVIOUS
<1>0. Delivered' /\ envelopes \subseteq envelopes'
  BY NextDelivered, HeldGrows, DeliveryStepStores DEF HeldBack, Delivered
<1>1. ASSUME NEW p \in Pusher, Pass(p) \/ Answer(p) \/ GiveUp(p)
      PROVE  HeldBack'
  <2>1. \A q \in Pusher : q = p
    BY OnlyPusher
  <2> QED
    BY <1>0, <1>1, <2>1, PassInTurn, NextWedged, NextInformed DEF HeldBack
<1>2. ASSUME UNCHANGED <<pushed, push, wedge>> PROVE HeldBack'
  <2>1. ClosedInOrder'
    BY <1>2, OthersInTurn
  <2>2. \A s \in GatewayStream : Stranded(s)' \subseteq Stranded(s) /\ Wedged(s)'
    BY <1>0, <1>2, StrandedShrinks, StaysWedged
  <2>3. ASSUME NEW p \in Pusher PROVE Informed(p)'
    <3>1. Informed(p) /\ (push[p].at = "clearing" => StreamOf(p) \in GatewayStream)
      BY OnlyPusher
    <3> QED
      BY <1>2, <2>2, <3>1 DEF Informed, Judging, StreamOf, Row
  <2> QED
    BY <1>0, <2>1, <2>2, <2>3 DEF HeldBack
<1>3. ASSUME NEW p \in Pusher, Die(p) PROVE FALSE
  BY <1>3 DEF Die, Alone
<1>4. ASSUME NEW s \in GatewayStream, AppendNext(s)
      PROVE  UNCHANGED <<pushed, push, wedge>>
  BY <1>4 DEF AppendNext
<1>5. ASSUME NEW e \in late, LateAnswer(e) PROVE UNCHANGED <<pushed, push, wedge>>
  BY <1>5 DEF LateAnswer, fileVars
<1>6. ASSUME Operate PROVE UNCHANGED <<pushed, push, wedge>>
  BY <1>6 DEF Operate, fileVars
<1>7. ASSUME UNCHANGED deliveryVars PROVE UNCHANGED <<pushed, push, wedge>>
  BY <1>7 DEF deliveryVars, fileVars
<1> QED
  BY <1>1, <1>2, <1>3, <1>4, <1>5, <1>6, <1>7 DEF DeliveryNext

(* One pusher that is not killed closes at most one row past what the kernel  *)
(* holds: the rows behind a refusal stay unpushed for the resume to deliver,  *)
(* whatever is lost, late or refused and however long the chains grow         *)
(* (emitter.py, the comments on the probe and on the wedge).                  *)
THEOREM RefusalHoldsBack ==
  ASSUME Alone
  PROVE  DeliverySpec => []HeldBehindRefusal
<1>1. DeliveryInit => HeldBack
  <2> SUFFICES ASSUME DeliveryInit PROVE HeldBack
    OBVIOUS
  <2>1. Delivered
    BY InitFiled DEF DeliveryInit, Delivered, AnswersTrue, AcceptedIsHeld, Idle
  <2>2. /\ pushed = {} /\ AllRows = {}
        /\ \A p \in Pusher : push[p].at = "idle"
    BY DEF DeliveryInit, AllRows, Rows, Range, Idle
  <2>3. ClosedInOrder
    BY <2>2 DEF ClosedInOrder, InTurn, Initial, Judging
  <2>4. \A s \in GatewayStream : Stranded(s) = {}
    BY <2>2 DEF Stranded
  <2> QED
    BY <2>1, <2>2, <2>3, <2>4 DEF HeldBack, Wedged, Informed, Judging
<1>2. HeldBack => HeldBehindRefusal
  <2> SUFFICES ASSUME HeldBack, NEW s \in GatewayStream,
                      NEW e \in (pushed \ envelopes) \cap Rows(s),
                      NEW f \in (pushed \ envelopes) \cap Rows(s),
                      \A h \in Held(s) :
                        Env[h].seq < Env[e].seq /\ Env[h].seq < Env[f].seq
               PROVE  e = f
    BY DEF HeldBehindRefusal
  <2>1. Filed
    BY DEF HeldBack, Delivered
  <2>2. Env[e].stream = s /\ Env[f].stream = s
    BY <2>1, Places
  <2> QED
    BY <2>2 DEF HeldBack, Wedged, Stranded
<1> QED
  BY <1>1, <1>2, NextHeldBack, PTL DEF DeliverySpec

--------------------------------------------------------------------------------
(* Seen from outside, a kernel fed by gateways is the audit log AuditLog      *)
(* describes.                                                                 *)
THEOREM DeliveryImplementsAuditLog == DeliverySpec => ImplementsAuditLog
BY DeliveryKeepsStore, StoreImplementsAuditLog
================================================================================

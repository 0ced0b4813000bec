---------------------------- MODULE GatewayDelivery ----------------------------
(******************************************************************************)
(* Delivery: the gateway's local chains and the threads that push them        *)
(* (gateway/src/stozher_gateway/store.py, emitter.py, kernel_client.py),      *)
(* against the kernel's store.                                                *)
(*                                                                            *)
(* All gateway processes of a device share one SQLite file, and each pushes   *)
(* every stream in it: a pusher is a thread of any of them.  A statement of   *)
(* that file is one action; what a thread read earlier may be stale.  The     *)
(* kernel judges a submission in one step here (KernelIngest takes that step  *)
(* apart) and ingest may turn a Doubtful envelope down, because what it lacks *)
(* has not arrived.  Requests and answers may be lost, and a request may be   *)
(* judged after its sender gave it up.                                        *)
(******************************************************************************)
EXTENDS KernelStore, SequencesExt

CONSTANTS
  Pusher,          \* threads running push_pending over the shared file
  Mortal,          \* those that may be killed
  GatewayStreams,  \* the gateway's streams in the order of their names
  Doubtful,        \* envelopes ingest may refuse for want of something
  PushLimit        \* how many rows a pass takes up (64 in the code)

GatewayStream == Range(GatewayStreams)

ASSUME DeliveryAssumption ==
  /\ Mortal \subseteq Pusher
  /\ GatewayStreams \in Seq(Stream)
  /\ GatewayStream \subseteq Stream \ {CoreStream}
  /\ Doubtful \subseteq Id
  /\ PushLimit \in Nat \ {0}

VARIABLES
  chain,    \* `envelopes' of the gateway's file: the rows of a stream, by seq
  pushed,   \* rows whose pushed_at is set
  faulted,  \* rows whose push_error is set
  wedge,    \* `wedges': the refused envelope a stream stands at, or None
  push,     \* each pusher: phase, row, rows left of its pass, whether a wedge stood
  late      \* requests nobody waits for that the kernel may still judge

fileVars == <<chain, pushed, faulted, wedge>>
deliveryVars == <<storeVars, fileVars, push, late>>

Idle == [at |-> "idle", row |-> None, rest |-> {}, standing |-> FALSE]

(* Mutant: a pass does not notice that it has run out of rows. *)
RunOn(rows) == [Idle EXCEPT !.at = "next", !.rest = rows]

(* What a pass has left to offer, or the end of it. *)
Proceed(rows) == IF rows = {} THEN Idle
                 ELSE [Idle EXCEPT !.at = "next", !.rest = rows]

Row(p) == push[p].row
StreamOf(p) == Env[Row(p)].stream
Elsewhere(p) == {e \in push[p].rest : Env[e].stream # StreamOf(p)}

(* ORDER BY stream, seq. *)
Before(e, f) ==
  \/ \E i, j \in DOMAIN GatewayStreams : /\ i < j
                                        /\ Env[e].stream = GatewayStreams[i]
                                        /\ Env[f].stream = GatewayStreams[j]
  \/ Env[e].stream = Env[f].stream /\ Env[e].seq < Env[f].seq

(* LIMIT n. *)
First(n, rows) == {e \in rows : Cardinality({f \in rows : Before(f, e)}) < n}

--------------------------------------------------------------------------------
(* The local chain. *)

(* Mutant: a refused position is used again. *)
RenumberNext(s) ==
  LET kept == SelectSeq(chain[s], LAMBDA e : e \notin pushed \cap faulted) IN
  \E e \in Id \ Range(chain[s]) :
    /\ Env[e].stream = s
    /\ Env[e].seq = Len(kept)
    /\ Env[e].prev = IF kept = <<>> THEN None ELSE Last(kept)
    /\ chain' = [chain EXCEPT ![s] = Append(@, e)]
    /\ UNCHANGED <<storeVars, pushed, faulted, wedge, push, late>>

(* GatewayStore.append_next: the head is read and the row built on it written *)
(* in one transaction, whatever the state of the stream.                      *)
AppendNext(s) ==
  \E e \in Id :
    /\ Env[e].stream = s
    /\ Env[e].seq = Len(chain[s])
    /\ Env[e].prev = IF chain[s] = <<>> THEN None ELSE Last(chain[s])
    /\ chain' = [chain EXCEPT ![s] = Append(@, e)]
    /\ UNCHANGED <<storeVars, pushed, faulted, wedge, push, late>>

--------------------------------------------------------------------------------
(* The kernel. *)

Submission(e) == [id |-> e, proj |-> NoProj]

(* Submitting what the store holds is accepted again and writes nothing. *)
Accepts(e) == \/ e \in envelopes /\ UNCHANGED storeVars
              \/ AppendPlan(Submission(e))

(* The refusal stands also when its record could not be written. *)
Refuses(e) == /\ e \notin envelopes
              /\ e \in Doubtful \/ RefusalCode(Submission(e)) # "ok"
              /\ \/ \E code \in Reason : RecordRejection(e, code)
                 \/ UNCHANGED storeVars

(* The kernel appends or refuses, and its answer is on the way. *)
Answer(p) == LET answered(a) == push' = [push EXCEPT ![p].at = a] IN
  /\ push[p].at = "sent"
  /\ \/ Accepts(Row(p)) /\ answered("accepted")
     \/ Refuses(Row(p)) /\ answered("refused")
  /\ UNCHANGED <<fileVars, late>>

(* A request given up by its sender reaches the kernel after all. *)
LateAnswer(e) ==
  /\ e \in late
  /\ Accepts(e) \/ Refuses(e)
  /\ late' = late \ {e}
  /\ UNCHANGED <<fileVars, push>>

(* A human root publishes a record on the kernel's own stream: here, resumes. *)
Operate ==
  /\ \E e \in Id : /\ Env[e].stream = CoreStream
                  /\ AppendPlan([id |-> e, proj |-> Env[e].proj])
  /\ UNCHANGED <<fileVars, push, late>>

--------------------------------------------------------------------------------
(* Emitter.push_pending. *)

Rows(s) == Range(chain[s])
AllRows == UNION {Rows(s) : s \in GatewayStream}

(* Mutant: a row whose push failed once is not offered again. *)
UnpushedOnce == First(PushLimit, AllRows \ (pushed \cup faulted))

(* GatewayStore.unpushed: the first PushLimit of them. *)
Unpushed == First(PushLimit, AllRows \ pushed)

StartPass(p) ==
  /\ push[p].at = "idle"
  /\ push' = [push EXCEPT ![p] = Proceed(Unpushed)]
  /\ UNCHANGED <<storeVars, fileVars, late>>

(* The wedge is read, and the row is offered whatever it says: a probe. *)
Offer(p) ==
  /\ push[p].at = "next"
  /\ \E e \in First(1, push[p].rest) :
       push' = [push EXCEPT ![p] =
                  [at |-> "sent", row |-> e, rest |-> push[p].rest \ {e},
                   standing |-> wedge[Env[e].stream] # None]]
  /\ UNCHANGED <<storeVars, fileVars, late>>

(* No answer in time, or one that judges nothing (a store the kernel cannot   *)
(* reach, a credential it does not know): the pass ends.                      *)
GiveUp(p) ==
  /\ push[p].at = "sent"
  /\ faulted' = faulted \cup {Row(p)}
  /\ push' = [push EXCEPT ![p] = Idle]
  /\ late' \in {late, late \cup {Row(p)}}
  /\ UNCHANGED <<storeVars, chain, pushed, wedge>>

MarkAccepted(p) ==
  /\ push[p].at = "accepted"
  /\ pushed' = pushed \cup {Row(p)}
  /\ faulted' = faulted \ {Row(p)}
  /\ push' = [push EXCEPT ![p].at = "clearing"]
  /\ UNCHANGED <<storeVars, chain, wedge, late>>

(* GatewayStore.clear_wedge deletes whatever wedge the stream has by now. *)
ClearWedge(p) ==
  /\ push[p].at = "clearing"
  /\ wedge' = [wedge EXCEPT ![StreamOf(p)] = None]
  /\ push' = [push EXCEPT ![p] = Proceed(push[p].rest)]
  /\ UNCHANGED <<storeVars, chain, pushed, faulted, late>>

(* Mutant: a refused probe ends the pass. *)
EndProbe(p) ==
  /\ push[p].at = "refused" /\ push[p].standing
  /\ push' = [push EXCEPT ![p] = Idle]
  /\ UNCHANGED <<storeVars, fileVars, late>>

(* A refused probe stays unpushed; the rest of its stream is held back. *)
HoldStream(p) ==
  /\ push[p].at = "refused" /\ push[p].standing
  /\ push' = [push EXCEPT ![p] = Proceed(Elsewhere(p))]
  /\ UNCHANGED <<storeVars, fileVars, late>>

(* Mutant: closing the row erases the reason. *)
EraseRefused(p) ==
  /\ push[p].at = "refused" /\ ~push[p].standing
  /\ pushed' = pushed \cup {Row(p)}
  /\ faulted' = faulted \ {Row(p)}
  /\ push' = [push EXCEPT ![p].at = "wedging"]
  /\ UNCHANGED <<storeVars, chain, wedge, late>>

(* Mutant: a refused probe is closed like any other row. *)
CloseProbe(p) ==
  /\ push[p].at = "refused"
  /\ pushed' = pushed \cup {Row(p)}
  /\ faulted' = faulted \cup {Row(p)}
  /\ push' = [push EXCEPT ![p].at = "wedging"]
  /\ UNCHANGED <<storeVars, chain, wedge, late>>

MarkRefused(p) ==
  /\ push[p].at = "refused" /\ ~push[p].standing
  /\ pushed' = pushed \cup {Row(p)}
  /\ faulted' = faulted \cup {Row(p)}
  /\ push' = [push EXCEPT ![p].at = "wedging"]
  /\ UNCHANGED <<storeVars, chain, wedge, late>>

(* GatewayStore.record_wedge keeps the first refusal of the stream. *)
RecordWedge(p) ==
  /\ push[p].at = "wedging"
  /\ wedge' = [wedge EXCEPT ![StreamOf(p)] = IF @ = None THEN Row(p) ELSE @]
  /\ push' = [push EXCEPT ![p] = Proceed(Elsewhere(p))]
  /\ UNCHANGED <<storeVars, chain, pushed, faulted, late>>

(* The process is killed at any point of a pass; the next one starts afresh. *)
Die(p) ==
  /\ p \in Mortal /\ push[p].at # "idle"
  /\ push' = [push EXCEPT ![p] = Idle]
  /\ late' \in {late} \cup (IF push[p].at = "sent" THEN {late \cup {Row(p)}} ELSE {})
  /\ UNCHANGED <<storeVars, fileVars>>

--------------------------------------------------------------------------------
DeliveryInit ==
  /\ StoreInit
  /\ chain = [s \in GatewayStream |-> <<>>]
  /\ pushed = {} /\ faulted = {}
  /\ wedge = [s \in GatewayStream |-> None]
  /\ push = [p \in Pusher |-> Idle]
  /\ late = {}

(* What a pusher does of its own accord. *)
Pass(p) == \/ StartPass(p) \/ Offer(p)
           \/ MarkAccepted(p) \/ ClearWedge(p)
           \/ HoldStream(p) \/ MarkRefused(p) \/ RecordWedge(p)

DeliveryNext ==
  \/ \E s \in GatewayStream : AppendNext(s)
  \/ \E e \in late : LateAnswer(e)
  \/ Operate
  \/ \E p \in Pusher : Pass(p) \/ Answer(p) \/ GiveUp(p) \/ Die(p)

(* The push thread of a process that lives passes again every push_interval,  *)
(* and no outage is for ever: a row offered again and again is answered.  The *)
(* root who has something to publish publishes it.                            *)
DeliveryFairness ==
  /\ \A p \in Pusher \ Mortal :
       /\ WF_deliveryVars(Pass(p))
       /\ \A e \in {x \in Id : Env[x].stream \in GatewayStream} :
            SF_deliveryVars(push[p].at = "sent" /\ Row(p) = e /\ Answer(p))
  /\ WF_deliveryVars(Operate)

DeliverySpec == DeliveryInit /\ [][DeliveryNext]_deliveryVars
FairDeliverySpec == DeliverySpec /\ DeliveryFairness

--------------------------------------------------------------------------------
Phase == {"idle", "next", "sent", "accepted", "refused", "clearing", "wedging"}

(* Types; and a wedge always stands at a row of its own stream. *)
DeliveryTypeOK ==
  /\ chain \in [GatewayStream -> Seq(Id)]
  /\ pushed \subseteq AllRows
  /\ faulted \subseteq AllRows
  /\ \A s \in GatewayStream : wedge[s] \in Rows(s) \cup {None}
  /\ \A p \in Pusher : /\ push[p].at \in Phase
                       /\ push[p].rest \subseteq AllRows
                       /\ push[p].at = "idle" => push[p] = Idle
                       /\ push[p].at = "next" => push[p].rest # {}
                       /\ push[p].at \notin {"idle", "next"} => Row(p) \in AllRows
  /\ late \subseteq AllRows

(* A row that reads as delivered is held by the kernel, whichever thread      *)
(* marked it last and however its answers were lost or crossed                *)
(* (store.py, mark_pushed: a refused row was "indistinguishable from an       *)
(* accepted one").                                                            *)
AcceptedIsHeld == pushed \ faulted \subseteq envelopes

(* What the kernel holds of a stream is the chain the gateway built, without  *)
(* a gap a resume does not explain: no row is renumbered or left out          *)
(* (§04 §7.2 rule 3, §05 §7.1 clause 3).                                      *)
HeldIsPrefix ==
  \A s \in GatewayStream :
    /\ Held(s) \subseteq Rows(s)
    /\ \A i, j \in DOMAIN chain[s] :
         i < j /\ chain[s][j] \in envelopes =>
           \/ chain[s][i] \in envelopes
           \/ \E r \in resumes : r.stream = s /\ r.seq = Env[chain[s][i]].seq

(* Every chained row is offered until it is answered, also when its sender is *)
(* killed, its answer is lost or another thread is pushing it too; only a     *)
(* wedge leaves rows waiting (emitter.py, push_pending: "retried").           *)
AnsweredOrWedged ==
  \A e \in Id :
    LET s == Env[e].stream IN
    s \in GatewayStream =>
      ((e \in Rows(s)) ~> (e \in pushed \/ wedge[s] # None))

Undoubted(s) == \A e \in Doubtful : Env[e].stream # s

(* A refused stream holds back no other: what is chained on a stream ingest   *)
(* has no doubt about reaches the kernel (emitter.py, push_pending: "retried" *)
(* and "ordered per stream").                                                 *)
OthersAreDelivered ==
  \A e \in Id :
    LET s == Env[e].stream IN
    s \in GatewayStream /\ Undoubted(s) => ((e \in Rows(s)) ~> (e \in envelopes))

(* At most one row past what the kernel holds has been closed by a refusal:   *)
(* the rows behind a refusal stay unpushed, for the resume to deliver         *)
(* (emitter.py, the comments on the probe and on the wedge).                  *)
HeldBehindRefusal ==
  \A s \in GatewayStream : \A e, f \in (pushed \ envelopes) \cap Rows(s) :
    (\A h \in Held(s) : Env[h].seq < Env[e].seq /\ Env[h].seq < Env[f].seq) => e = f

(* Once a root has resumed a stream at the refused position, the row chained  *)
(* behind it reaches the kernel (§04 §7.2 rule 3: "the chain it built while   *)
(* wedged is submitted as it stands").                                        *)
ResumedIsDelivered ==
  \A e \in Id :
    LET s == Env[e].stream IN
    s \in GatewayStream =>
      ((/\ e \in Rows(s)
        /\ wedge[s] # None
        /\ \E r \in resumes : r.stream = s /\ r.seq = Env[e].seq - 1)
       ~> (e \in envelopes))
================================================================================

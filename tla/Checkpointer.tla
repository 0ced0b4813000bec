------------------------------ MODULE Checkpointer -----------------------------
(******************************************************************************)
(* The kernel's own work while it serves (checkpoint.rs, Kernel::             *)
(* spawn_maintenance): a loop that attests every stream, a loop that sweeps   *)
(* expired payloads after attesting the streams they belong to, and the two   *)
(* HTTP routes that run the same code on demand.  All of them write to one    *)
(* checkpoint stream, whose head each reads before it submits, so each can    *)
(* find its checkpoint refused because another was appended meanwhile.        *)
(*                                                                            *)
(* Of the checkpoint stream itself two things matter: whether it holds        *)
(* anything, and, to whoever has read its head or its last attestation,       *)
(* whether that has been appended to since.  It is never all attested, since  *)
(* attesting it appends to it.                                                *)
(******************************************************************************)
EXTENDS Integers, Sequences, FiniteSets, SequencesExt

CONSTANTS
  None,
  StreamOrder,    \* the streams envelopes arrive on, in name order
  CheckpointStream,
  Envelopes,      \* per stream, what its envelopes carry, in order: a payload,
                  \* or None, and until when it is to be retained
  Loop, Caller,   \* tasks: the two loops of the service, and HTTP handlers
  Duty,           \* what each task may be asked to do
  LastInstant,    \* bound on the clock
  MaxCalls,       \* bound on requests to the two routes
  MaxFaults       \* bound on unanswered queries and on restarts

Stream == ToSet(StreamOrder)
Task == Loop \cup Caller
Job == {"attest", "attest one", "decay"}

ASSUME CheckpointerAssumption ==
  /\ CheckpointStream \notin Stream
  /\ StreamOrder \in Seq(Stream)
  /\ DOMAIN Envelopes = Stream
  /\ \A s \in Stream : /\ Envelopes[s] \in Seq(ToSet(Envelopes[s]))
                      /\ \A c \in ToSet(Envelopes[s]) : c.until \in Nat
  /\ Duty \in [Task -> SUBSET Job]
  /\ {LastInstant, MaxCalls, MaxFaults} \subseteq Nat

VARIABLES
  len,        \* how many envelopes each stream holds
  late,       \* those whose payload's retention had ended when they arrived
  attested,   \* how many envelopes of each stream its checkpoints cover
  begun,      \* whether the checkpoint stream holds anything
  refused,    \* reasons the kernel has recorded against its own checkpoints
  stored,     \* payloads held
  clock,
  task,       \* where each task stands
  calls, faults

store == << len, late, attested, begun, refused, stored >>
vars == << store, clock, task, calls, faults >>

Entry == UNION {{s} \X (1..Len(Envelopes[s])) : s \in Stream}
Carried(e) == Envelopes[e[1]][e[2]]
Payload == {Carried(e).payload : e \in Entry} \ {None}

(* The rows of `payload_refs' of a payload. *)
Refs(p) == {e \in Entry : e[2] =< len[e[1]] /\ Carried(e).payload = p}
Retained(p, now) == \E e \in Refs(p) : Carried(e).until > now

(* Mutant: the instant retention ends at still retains. *)
ExpiredBefore(now) ==
  {p \in stored : \A e \in Refs(p) : Carried(e).until < now}

Expired(now) == {p \in stored : ~Retained(p, now)}

Idle == [pc |-> "idle"]

Init ==
  /\ len = [s \in Stream |-> 0] /\ attested = [s \in Stream |-> 0]
  /\ late = {} /\ stored = {}
  /\ begun = FALSE /\ refused = {}
  /\ clock = 0
  /\ task = [t \in Task |-> Idle]
  /\ calls = 0 /\ faults = 0

At(t, pc) == task[t].pc = pc
Subject(t) == Head(task[t].todo)
Become(t, r) == task' = [task EXCEPT ![t] = r]

(* A task about to do pc, which has read nothing of a stream yet. *)
Ready(job, todo, now, pc) ==
  [pc |-> pc, job |-> job, todo |-> todo, now |-> now, from |-> 0, to |-> 0,
   range |-> TRUE, prev |-> TRUE, seq |-> TRUE, twin |-> FALSE]

(* What a job does when the stream in hand is done with. *)
Proceed(r) ==
  IF Len(r.todo) > 1 THEN Ready(r.job, Tail(r.todo), r.now, "head")
  ELSE IF r.job = "decay" THEN Ready(r.job, << >>, r.now, "sweep")
  ELSE Idle

(* Mutant: the sweep goes on when a stream could not be attested. *)
SweepRegardless(r) == Proceed(r)

(* A failure is the stream's alone in an attestation; it ends a decay run. *)
Fail(r) == IF r.job = "decay" THEN Idle ELSE Proceed(r)

--------------------------------------------------------------------------------
(* Waking up and choosing the streams.                                        *)

(* The loop's period is over, or a request arrives.  A decay run is as of now *)
(* and stays so. *)
Wake(t) ==
  /\ At(t, "idle")
  /\ IF t \in Loop THEN UNCHANGED calls
     ELSE calls < MaxCalls /\ calls' = calls + 1
  /\ \E job \in Duty[t] :
       \/ /\ job = "attest one"
          /\ \E s \in Stream \cup {CheckpointStream} :
               Become(t, Ready(job, << s >>, 0, "head"))
       \/ /\ job = "attest"
          /\ Become(t, Ready(job, << >>, 0, "list"))
       \/ /\ job = "decay"
          /\ Become(t, Ready(job, << >>, clock, "list"))
  /\ UNCHANGED << store, clock, faults >>

(* Those of S, in name order. *)
Listed(S) ==
  LET listed[n \in 0..Len(StreamOrder)] ==
        IF n = 0 THEN << >>
        ELSE IF StreamOrder[n] \in S THEN Append(listed[n - 1], StreamOrder[n])
        ELSE listed[n - 1]
  IN listed[Len(StreamOrder)]

Holding == Listed({s \in Stream : len[s] > 0})
Affected(now) == Listed({e[1] : e \in UNION {Refs(p) : p \in Expired(now)}})

(* Every stream that holds something, the checkpoint stream last; or those    *)
(* with a reference to bytes about to go. *)
List(t) ==
  /\ At(t, "list")
  /\ LET r == task[t]
         todo == IF r.job = "decay" THEN Affected(r.now)
                 ELSE Append(Holding, CheckpointStream)
     IN Become(t, [r EXCEPT !.todo = todo,
                            !.pc = IF todo = << >> THEN "sweep" ELSE "head"])
  /\ UNCHANGED << store, clock, calls, faults >>

--------------------------------------------------------------------------------
(* checkpoint::emit, read by read.                                            *)

ReadHead(t) ==
  /\ At(t, "head")
  /\ LET r == task[t]
         size == IF Subject(t) # CheckpointStream THEN len[Subject(t)]
                 ELSE IF begun THEN 1 ELSE 0
     IN Become(t, IF size = 0 THEN Proceed(r)
                  ELSE [r EXCEPT !.to = size, !.range = TRUE, !.pc = "range"])
  /\ UNCHANGED << store, clock, calls, faults >>

(* Mutant: the head is held covered one envelope early. *)
ReadRangeShort(t) ==
  /\ At(t, "range")
  /\ LET r == task[t]
         goOn(n) == [r EXCEPT !.from = n, !.range = TRUE, !.pc = "prev"]
     IN IF Subject(t) = CheckpointStream
        THEN Become(t, goOn(1))
        ELSE Become(t, IF attested[Subject(t)] + 1 >= r.to THEN Proceed(r)
                       ELSE goOn(attested[Subject(t)] + 1))
  /\ UNCHANGED << store, clock, calls, faults >>

(* Nothing is emitted if the head read is covered by now.  Of the checkpoint  *)
(* stream it may be, if it has been attested since. *)
ReadRange(t) ==
  /\ At(t, "range")
  /\ LET r == task[t]
         goOn(n) == [r EXCEPT !.from = n, !.range = TRUE, !.pc = "prev"]
     IN IF Subject(t) = CheckpointStream
        THEN \/ Become(t, goOn(1))
             \/ ~r.range /\ Become(t, Proceed(r))
        ELSE Become(t, IF attested[Subject(t)] >= r.to THEN Proceed(r)
                       ELSE goOn(attested[Subject(t)] + 1))
  /\ UNCHANGED << store, clock, calls, faults >>

(* The head of the checkpoint stream is read twice: once for its hash and     *)
(* once for its number. *)
ReadPrev(t) ==
  /\ At(t, "prev")
  /\ Become(t, [task[t] EXCEPT !.prev = TRUE, !.pc = "seq"])
  /\ UNCHANGED << store, clock, calls, faults >>

ReadSeq(t) ==
  /\ At(t, "seq")
  /\ Become(t, [task[t] EXCEPT !.seq = TRUE, !.pc = "submit"])
  /\ UNCHANGED << store, clock, calls, faults >>

(* A checkpoint of the same content: one envelope, unless the clock has moved *)
(* a millisecond between the two; and ingest is idempotent. *)
SameContent(q, r) ==
  /\ q.pc = "submit" /\ q.prev /\ q.seq /\ q.range
  /\ << q.todo[1], q.from, q.to >> = << r.todo[1], r.from, r.to >>

(* What a checkpoint appended by another does to what a task has read. *)
Outdated(q, r, same) ==
  IF q.pc \notin {"range", "prev", "seq", "submit"} THEN q
  ELSE [q EXCEPT !.range = @ /\ q.todo[1] # r.todo[1],
                 !.prev = @ /\ q.pc \notin {"seq", "submit"},
                 !.seq = @ /\ q.pc # "submit",
                 !.twin = @ \/ same]

Accept(t) ==
  LET r == task[t]
  IN /\ attested' = IF Subject(t) = CheckpointStream THEN attested
                    ELSE [attested EXCEPT ![Subject(t)] = r.to]
     /\ begun' = TRUE
     /\ \E twins \in SUBSET {u \in Task \ {t} : SameContent(task[u], r)} :
          task' = [u \in Task |-> IF u = t THEN Proceed(r)
                                 ELSE Outdated(task[u], r, u \in twins)]
     /\ UNCHANGED refused

Reason(r) ==
  IF ~r.seq THEN "chain-seq-duplicate"
  ELSE IF ~r.prev THEN "chain-prev-hash-mismatch"
  ELSE "checkpoint-range-discontinuous"

(* Through ingest, like everything else: held already, appended, or refused   *)
(* and recorded in the rejection chain. *)
Submit(t) ==
  /\ At(t, "submit")
  /\ LET r == task[t]
     IN IF r.twin
        THEN /\ Become(t, Proceed(r))
             /\ UNCHANGED << attested, begun, refused >>
        ELSE IF r.prev /\ r.seq /\ r.range THEN Accept(t)
        ELSE /\ refused' = refused \cup {Reason(r)}
             /\ Become(t, Fail(r))
             /\ UNCHANGED << attested, begun >>
  /\ UNCHANGED << len, late, stored, clock, calls, faults >>

--------------------------------------------------------------------------------
(* The sweep.                                                                 *)

(* Store::decay_payloads, as of the instant the run began with. *)
Sweep(t) ==
  /\ At(t, "sweep")
  /\ stored' = stored \ Expired(task[t].now)
  /\ Become(t, Idle)
  /\ UNCHANGED << len, late, attested, begun, refused, clock, calls, faults >>

--------------------------------------------------------------------------------
(* Everything else.                                                           *)

(* An envelope is appended.  Nothing asks whether its retention is over: a    *)
(* signal's always is, since it is retained until it was emitted. *)
AppendTo(s) ==
  /\ len[s] < Len(Envelopes[s])
  /\ LET e == << s, len[s] + 1 >>
     IN /\ len' = [len EXCEPT ![s] = @ + 1]
        /\ stored' = stored \cup ({Carried(e).payload} \ {None})
        /\ late' = IF Carried(e).until =< clock THEN late \cup {e} ELSE late
  /\ UNCHANGED << attested, begun, refused, clock, task, calls, faults >>

(* A query fails; of a listing or a sweep, the run ends with it. *)
Unavailable(t) ==
  /\ ~At(t, "idle")
  /\ faults < MaxFaults
  /\ faults' = faults + 1
  /\ Become(t, IF task[t].pc \in {"list", "sweep"} THEN Idle ELSE Fail(task[t]))
  /\ UNCHANGED << store, clock, calls >>

(* A client goes away, and its handler with it. *)
Cancel(t) ==
  /\ t \in Caller /\ ~At(t, "idle")
  /\ Become(t, Idle)
  /\ UNCHANGED << store, clock, calls, faults >>

(* The kernel stops, wherever its tasks are, and is started again. *)
Restart ==
  /\ faults < MaxFaults
  /\ faults' = faults + 1
  /\ task' = [t \in Task |-> Idle]
  /\ UNCHANGED << store, clock, calls >>

Tick ==
  /\ clock < LastInstant
  /\ clock' = clock + 1
  /\ UNCHANGED << store, task, calls, faults >>

--------------------------------------------------------------------------------
Run(t) ==
  \/ Wake(t) \/ List(t)
  \/ ReadHead(t) \/ ReadRange(t) \/ ReadPrev(t) \/ ReadSeq(t) \/ Submit(t)
  \/ Sweep(t)

Next ==
  \/ \E t \in Task : Run(t) \/ Unavailable(t) \/ Cancel(t)
  \/ \E s \in Stream : AppendTo(s)
  \/ Restart \/ Tick

Spec == Init /\ [][Next]_vars

(* The runtime polls the two loops as long as the kernel serves; nobody need  *)
(* ever call a route, and nothing says envelopes arrive. *)
FairSpec == Spec /\ \A t \in Loop : WF_vars(Run(t))

--------------------------------------------------------------------------------
(* Properties.                                                                *)

Pc == {"list", "head", "range", "prev", "seq", "submit", "sweep"}

Working ==
  [pc : Pc, job : Job, todo : Seq(Stream \cup {CheckpointStream}), now : Nat,
   from : Nat, to : Nat, range : BOOLEAN, prev : BOOLEAN,
   seq : BOOLEAN, twin : BOOLEAN]

TaskState == Working \cup {Idle}

(* The log and every task are well formed; no checkpoint covers more than its *)
(* stream holds, and only a decay run comes to a sweep. *)
CheckpointerTypeOK ==
  /\ len \in [Stream -> Nat] /\ attested \in [Stream -> Nat]
  /\ \A s \in Stream : attested[s] =< len[s] /\ len[s] =< Len(Envelopes[s])
  /\ late \subseteq Entry /\ stored \subseteq Payload
  /\ begun \in BOOLEAN /\ clock \in Nat /\ calls \in Nat /\ faults \in Nat
  /\ refused \subseteq {"chain-seq-duplicate", "chain-prev-hash-mismatch",
                        "checkpoint-range-discontinuous"}
  /\ task \in [Task -> TaskState]
  /\ \A t \in Task : At(t, "sweep") => task[t].job = "decay"

(* No payload is erased before every envelope that committed to it is covered *)
(* by a checkpoint (decay_with_checkpoints): whatever arrives, is attested,   *)
(* refused or swept between the listing and the sweep.  An envelope whose     *)
(* retention was over when it arrived is not promised that. *)
DecayedWasAttested ==
  [][\A p \in stored \ stored' :
       \A e \in Refs(p) \ late : e[2] =< attested[e[1]]]_vars

(* Every envelope is attested in the end, though checkpoints go on being      *)
(* refused, handlers being dropped and the kernel being restarted (emit_all,  *)
(* run_interval). *)
EveryoneIsAttested ==
  \A e \in Entry : len[e[1]] >= e[2] ~> attested[e[1]] >= e[2]

(* Bytes nobody retains any more are erased in the end (run_decay_interval:   *)
(* "still past their retain-until on the next pass"). *)
ExpiredIsErased ==
  \A p \in Payload :
    p \in stored /\ ~Retained(p, clock) ~> p \notin stored \/ Retained(p, clock)
================================================================================

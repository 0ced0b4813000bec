------------------------------- MODULE GateQueue -------------------------------
(******************************************************************************)
(* The kernel's pending queue (kernel/stozher-kernel/src/gatequeue.rs, the    *)
(* gate routes of http.rs and console.rs, the queue tables of store.rs):      *)
(* components park requests, humans answer them, approvers are pinged, and    *)
(* the argument values shown beside a request go when it expires.  Several    *)
(* HTTP handlers run at once, each reading the database step by step.         *)
(*                                                                            *)
(* A flaw is the refusal the bytes alone earn (shape, encodings, signature,   *)
(* vocabulary), or None.  Argument values are the values args-hash commits to *)
(* ("match"), others ("mismatch"), over the cap ("large") or absent (None).   *)
(******************************************************************************)
EXTENDS Integers, Sequences, FiniteSets

CONSTANTS
  Handler,      \* HTTP handlers running at once
  Ask,          \* [request hash -> record]: what an action request says
  Offer,        \* [submission -> record]: the request, arguments and caller
  Answer,       \* [gate decision -> record]: what a signed decision says
  Rule,         \* [policy version -> record]: the keys that may approve
  Root,         \* the keys of enrolled roots
  Subject,      \* [Key -> subject]: the human a key belongs to
  Channel,      \* the configured notification channels
  PerSubject,   \* gate_rate_limit.per_subject
  Window,       \* gate_rate_limit.window_seconds
  Attempts,     \* ATTEMPTS of append_as_kernel
  LastInstant,  \* bound: the clock stops here
  CoreLimit,    \* bound: other writers append to the core stream up to here
  Calls,        \* bound: so many calls are taken up
  None

Hash == DOMAIN Ask

(* What a call that changed the queue, or found it changed already, is told. *)
Success == {"queued", "idempotent", "recorded"}

ASSUME QueueAssumption ==
  /\ IsFiniteSet(Hash)
  /\ \A r \in Hash : Ask[r].until \in Int
  /\ \A o \in DOMAIN Offer : /\ Offer[o].req \in Hash
                             /\ Offer[o].flaw \notin Success \cup {"ok"}
  /\ \A a \in DOMAIN Answer : /\ Answer[a].req \in Hash /\ Answer[a].at \in Int
                              /\ Answer[a].flaw \notin Success \cup {"ok"}
  /\ None \notin DOMAIN Answer \cup Success
  /\ {PerSubject, Window, Attempts, LastInstant, CoreLimit, Calls} \subseteq Nat

VARIABLES
  now,         \* the kernel's clock
  parked,      \* `gate_requests': [Hash -> <<>> or <<when it was received>>]
  arguments,   \* `gate_request_arguments': the hashes with a row
  notes,       \* `gate_notifications': [Hash -> [Channel -> number of rows]]
  due,         \* requests whose notification task is running (not persisted)
  mismatches,  \* the `rejections' rows of mismatched arguments, in order
  decisions,   \* `gate_decisions': [Hash -> answer or None]
  core,        \* how many envelopes the kernel's core stream holds
  policy,      \* the version in force
  handler,     \* [Handler -> record]: the call each handler is serving
  calls        \* how many calls were taken up

vars == <<now, parked, arguments, notes, due, mismatches, decisions, core,
          policy, handler, calls>>

Idle == [pc |-> "idle", of |-> None, at |-> 0, seen |-> FALSE, seq |-> 0,
         tries |-> 0, reply |-> None]

Parked(r) == parked[r] # <<>>

Goto(h, pc) == handler' = [handler EXCEPT ![h].pc = pc]
Tell(h, code) == handler' = [handler EXCEPT ![h].pc = "done", ![h].reply = code]

(* A refused call keeps nothing but its answer. *)
Refused(code) == [pc |-> "done", of |-> None, at |-> 0, seen |-> FALSE, seq |-> 0,
                  tries |-> 0, reply |-> code]
Refuse(h, code) == handler' = [handler EXCEPT ![h] = Refused(code)]

queue == <<parked, arguments, notes, due, decisions>>
tables == <<now, queue, mismatches, core, policy>>
ReadOnly == UNCHANGED <<tables, calls>>

Take(h) == /\ handler[h].pc = "idle" /\ calls < Calls
           /\ calls' = calls + 1
           /\ UNCHANGED tables

--------------------------------------------------------------------------------
(* POST /v1/gate/requests *)

(* What the bytes and the clock alone say of a submission. *)
OfferCode(o) == LET r == Offer[o].req IN
  CASE Offer[o].flaw # None -> Offer[o].flaw
    [] Ask[r].until <= now -> "gate-request-expired"
    [] Offer[o].args = "large" -> "gate-arguments-too-large"
    [] OTHER -> "ok"

Receive(h, o) ==
  /\ Take(h)
  /\ IF OfferCode(o) # "ok" THEN Refuse(h, OfferCode(o))
     ELSE handler' = [handler EXCEPT
            ![h].of = o, ![h].at = now,
            ![h].pc = IF Offer[o].args = "mismatch" THEN "mismatch" ELSE "lookup"]

(* The caller's own recorded mismatches in the window that ends at t. *)
Mismatched(by, t) == {i \in DOMAIN mismatches : /\ mismatches[i].by = by
                                                /\ mismatches[i].at >= t - Window}

CountMismatches(h) ==
  /\ handler[h].pc = "mismatch"
  /\ IF Cardinality(Mismatched(Offer[handler[h].of].by, handler[h].at)) >= PerSubject
     THEN Refuse(h, "gate-rate-limited")
     ELSE Goto(h, "record")
  /\ ReadOnly

RecordMismatch(h) ==
  /\ handler[h].pc = "record"
  /\ mismatches' = Append(mismatches, [by |-> Offer[handler[h].of].by,
                                       at |-> handler[h].at])
  /\ Refuse(h, "gate-arguments-hash-mismatch")
  /\ UNCHANGED <<now, queue, core, policy, calls>>

(* The requests of subject s parked in the window that ends at t. *)
ParkedSince(s, t) == {r \in Hash : /\ Parked(r) /\ Ask[r].subject = s
                                   /\ parked[r][1] >= t - Window}

OverCap(h) == LET r == Offer[handler[h].of].req IN
  Cardinality(ParkedSince(Ask[r].subject, handler[h].at)) >= PerSubject

LookUp(h) == LET found == Parked(Offer[handler[h].of].req) IN
  /\ handler[h].pc = "lookup"
  /\ handler' = [handler EXCEPT ![h].seen = found,
                                ![h].pc = IF found THEN "insert" ELSE "count"]
  /\ ReadOnly

CountParked(h) ==
  /\ handler[h].pc = "count"
  /\ IF OverCap(h) THEN Refuse(h, "gate-rate-limited") ELSE Goto(h, "insert")
  /\ ReadOnly

(* Mutant: the count is not repeated inside the transaction. *)
InsertUncounted(h) == LET o == handler[h].of  r == Offer[o].req IN
  /\ handler[h].pc = "insert"
  /\ IF Parked(r) THEN Tell(h, "idempotent") /\ UNCHANGED queue
     ELSE /\ parked' = [parked EXCEPT ![r] = <<handler[h].at>>]
          /\ arguments' = IF Offer[o].args = "match" THEN arguments \cup {r}
                          ELSE arguments
          /\ due' = due \cup {r}
          /\ Tell(h, "queued")
          /\ UNCHANGED <<notes, decisions>>
  /\ UNCHANGED <<now, mismatches, core, policy, calls>>

(* Mutant: a later submission's values are added, and its caller is pinged    *)
(* for again.                                                                 *)
InsertAgain(h) == LET o == handler[h].of  r == Offer[o].req IN
  /\ handler[h].pc = "insert"
  /\ IF ~handler[h].seen /\ OverCap(h)
     THEN Refuse(h, "gate-rate-limited") /\ UNCHANGED queue
     ELSE /\ parked' = IF Parked(r) THEN parked
                       ELSE [parked EXCEPT ![r] = <<handler[h].at>>]
          /\ arguments' = IF Offer[o].args = "match" THEN arguments \cup {r}
                          ELSE arguments
          /\ due' = due \cup {r}
          /\ Tell(h, "queued")
          /\ UNCHANGED <<notes, decisions>>
  /\ UNCHANGED <<now, mismatches, core, policy, calls>>

(* queue_gate_request: the cap again, the row, and its arguments; only a row  *)
(* that is new is announced.                                                  *)
Insert(h) == LET o == handler[h].of  r == Offer[o].req IN
  /\ handler[h].pc = "insert"
  /\ IF ~handler[h].seen /\ OverCap(h)
     THEN Refuse(h, "gate-rate-limited") /\ UNCHANGED queue
     ELSE IF Parked(r) THEN Tell(h, "idempotent") /\ UNCHANGED queue
     ELSE /\ parked' = [parked EXCEPT ![r] = <<handler[h].at>>]
          /\ arguments' = IF Offer[o].args = "match" THEN arguments \cup {r}
                          ELSE arguments
          /\ due' = due \cup {r}
          /\ Tell(h, "queued")
          /\ UNCHANGED <<notes, decisions>>
  /\ UNCHANGED <<now, mismatches, core, policy, calls>>

--------------------------------------------------------------------------------
(* The approver ping, off the response path: every channel is tried, and what *)
(* each did is a row.  A store that fails partway loses the rest of the rows. *)

Notify(r) ==
  /\ r \in due
  /\ due' = due \ {r}
  /\ \E written \in SUBSET Channel :
       notes' = [notes EXCEPT ![r] = [c \in Channel |->
                   IF c \in written THEN @[c] + 1 ELSE @[c]]]
  /\ UNCHANGED <<now, parked, arguments, mismatches, decisions, core, policy, handler, calls>>

--------------------------------------------------------------------------------
(* A signed answer: POST /console/pending/{request}/decide, which wraps it in *)
(* an envelope of the kernel's own, or POST /v1/ingest by an emitter that     *)
(* wrapped it itself.                                                         *)

(* check_decision, against the request as the queue holds it. *)
DecisionCode(a) == LET d == Answer[a]  r == d.req IN
  CASE d.flaw # None -> d.flaw
    [] d.key = Ask[r].key -> "gate-self-approval"
    [] d.at > Ask[r].until -> "gate-request-expired"
    [] d.until <= d.at -> "gate-approval-expired"
    [] OTHER -> "ok"

Decide(h, a) ==
  /\ Take(h)
  /\ handler' = [handler EXCEPT ![h].pc = "request", ![h].of = a]

ReadRequest(h) == LET a == handler[h].of IN
  /\ handler[h].pc = "request"
  /\ CASE ~Parked(Answer[a].req) -> Refuse(h, "not-found")
       [] DecisionCode(a) # "ok" -> Refuse(h, DecisionCode(a))
       [] OTHER -> Goto(h, "approvers")
  /\ ReadOnly

(* approvers_for this request's class and action, in the policy in force. *)
ReadApprovers(h) == LET d == Answer[handler[h].of] IN
  /\ handler[h].pc = "approvers"
  /\ CASE d.key \notin Rule[policy].of[d.req] -> Refuse(h, "gate-approver-not-permitted")
       [] Subject[d.key] = Ask[d.req].subject -> Refuse(h, "gate-self-approval")
       [] OTHER -> Goto(h, "head")
  /\ ReadOnly

(* append_as_kernel: the head is read, the envelope signed over it. *)
ReadHead(h) ==
  /\ handler[h].pc = "head"
  /\ handler' = [handler EXCEPT ![h].pc = "judge", ![h].seq = core]
  /\ ReadOnly

Wrapped(h, a) ==
  /\ Take(h)
  /\ handler' = [handler EXCEPT ![h].pc = "judge", ![h].of = a, ![h].seq = None]

(* Mutant: the subject behind the approving key is not compared. *)
KeyOnlyCode(a) ==
  CASE Answer[a].flaw # None -> Answer[a].flaw
    [] Answer[a].key \notin Rule[policy].any \cup Root -> "gate-approver-not-permitted"
    [] Parked(Answer[a].req) -> DecisionCode(a)
    [] OTHER -> "ok"

(* validate_gate_decision: whoever may approve anything here, and for a       *)
(* request of the queue everything above again.                               *)
JudgeCode(a) == LET d == Answer[a] IN
  CASE d.flaw # None -> d.flaw
    [] d.key \notin Rule[policy].any \cup Root -> "gate-approver-not-permitted"
    [] Parked(d.req) /\ DecisionCode(a) # "ok" -> DecisionCode(a)
    [] Parked(d.req) /\ Subject[d.key] = Ask[d.req].subject -> "gate-self-approval"
    [] OTHER -> "ok"

Judge(h) == LET a == handler[h].of IN
  /\ handler[h].pc = "judge"
  /\ IF JudgeCode(a) # "ok" THEN Refuse(h, JudgeCode(a))
     ELSE handler' = [handler EXCEPT ![h].pc = "commit",
                                     ![h].seen = Parked(Answer[a].req)]
  /\ ReadOnly

OnCore(h) == handler[h].seq # None
Contended(h) == OnCore(h) /\ handler[h].seq # core

(* The head moved: read it again, a bounded number of times. *)
Retry(h) ==
  /\ handler[h].pc = "commit" /\ Contended(h)
  /\ IF handler[h].tries + 1 < Attempts
     THEN handler' = [handler EXCEPT ![h].pc = "head", ![h].tries = @ + 1]
     ELSE Refuse(h, "store-unavailable")
  /\ ReadOnly

(* Mutant: the answer recorded last is the answer. *)
CommitLast(h) == LET a == handler[h].of  r == Answer[a].req IN
  /\ handler[h].pc = "commit" /\ ~Contended(h)
  /\ decisions' = IF handler[h].seen THEN [decisions EXCEPT ![r] = a] ELSE decisions
  /\ core' = IF OnCore(h) THEN core + 1 ELSE core
  /\ Tell(h, "recorded")
  /\ UNCHANGED <<now, parked, arguments, notes, due, mismatches, policy, calls>>

(* Mutant: the request need not be in the queue. *)
CommitUnqueued(h) == LET a == handler[h].of  r == Answer[a].req IN
  /\ handler[h].pc = "commit" /\ ~Contended(h)
  /\ IF decisions[r] # None
     THEN Refuse(h, "gate-decision-already-recorded") /\ UNCHANGED <<decisions, core>>
     ELSE /\ decisions' = [decisions EXCEPT ![r] = a]
          /\ core' = IF OnCore(h) THEN core + 1 ELSE core
          /\ Tell(h, "recorded")
  /\ UNCHANGED <<now, parked, arguments, notes, due, mismatches, policy, calls>>

(* The transaction: one decision per request; over a request this kernel      *)
(* never queued, the envelope alone.                                          *)
Commit(h) == LET a == handler[h].of  r == Answer[a].req IN
  /\ handler[h].pc = "commit" /\ ~Contended(h)
  /\ IF handler[h].seen /\ decisions[r] # None
     THEN Refuse(h, "gate-decision-already-recorded") /\ UNCHANGED <<decisions, core>>
     ELSE /\ decisions' = IF handler[h].seen THEN [decisions EXCEPT ![r] = a]
                          ELSE decisions
          /\ core' = IF OnCore(h) THEN core + 1 ELSE core
          /\ Tell(h, "recorded")
  /\ UNCHANGED <<now, parked, arguments, notes, due, mismatches, policy, calls>>

--------------------------------------------------------------------------------
(* The rest of the kernel. *)

(* The answer reaches the caller, or is lost on the way. *)
Respond(h) ==
  /\ handler[h].pc = "done"
  /\ handler' = [handler EXCEPT ![h] = Idle]
  /\ ReadOnly

Unavailable(h) ==
  /\ handler[h].pc \notin {"idle", "done"}
  /\ Refuse(h, "store-unavailable")
  /\ ReadOnly

(* Another writer of the core stream; a publication changes the policy. *)
WriteCore(v) ==
  /\ core < CoreLimit
  /\ core' = core + 1
  /\ policy' = v
  /\ UNCHANGED <<now, queue, mismatches, handler, calls>>

Tick ==
  /\ now < LastInstant
  /\ now' = now + 1
  /\ UNCHANGED <<queue, mismatches, core, policy, handler, calls>>

(* Mutant: a request that expires at this very instant is left. *)
SweepPast ==
  /\ arguments' = {r \in arguments : Ask[r].until >= now}
  /\ UNCHANGED <<now, parked, notes, due, mismatches, decisions, core, policy, handler, calls>>

(* erase_expired_gate_arguments, from the decay loop. *)
Sweep ==
  /\ arguments' = {r \in arguments : Ask[r].until > now}
  /\ UNCHANGED <<now, parked, notes, due, mismatches, decisions, core, policy, handler, calls>>

(* The process dies: calls in progress and pings not yet made are gone. *)
Restart ==
  /\ handler' = [h \in Handler |-> Idle]
  /\ due' = {}
  /\ UNCHANGED <<now, parked, arguments, notes, mismatches, decisions, core, policy, calls>>

Init ==
  /\ now = 0 /\ calls = 0 /\ core = 0 /\ policy \in DOMAIN Rule
  /\ parked = [r \in Hash |-> <<>>] /\ arguments = {} /\ due = {}
  /\ notes = [r \in Hash |-> [c \in Channel |-> 0]]
  /\ mismatches = <<>> /\ decisions = [r \in Hash |-> None]
  /\ handler = [h \in Handler |-> Idle]

Serve(h) ==
  \/ \E o \in DOMAIN Offer : Receive(h, o)
  \/ CountMismatches(h) \/ RecordMismatch(h)
  \/ LookUp(h) \/ CountParked(h) \/ Insert(h)
  \/ \E a \in DOMAIN Answer : Decide(h, a) \/ Wrapped(h, a)
  \/ ReadRequest(h) \/ ReadApprovers(h) \/ ReadHead(h)
  \/ Judge(h) \/ Retry(h) \/ Commit(h)
  \/ Respond(h) \/ Unavailable(h)

Next == \/ \E h \in Handler : Serve(h)
        \/ \E r \in Hash : Notify(r)
        \/ \E v \in DOMAIN Rule : WriteCore(v)
        \/ Tick \/ Sweep \/ Restart

Spec == Init /\ [][Next]_vars

(* The decay loop never stops (run_decay_interval). *)
FairSpec == Spec /\ WF_vars(Sweep)

--------------------------------------------------------------------------------
OfferStages == {"mismatch", "record", "lookup", "count", "insert"}
AnswerStages == {"request", "approvers", "head", "judge", "commit"}

Codes == Success \cup {None, "not-found", "gate-request-expired",
  "gate-arguments-too-large", "gate-rate-limited", "gate-arguments-hash-mismatch",
  "gate-self-approval", "gate-approval-expired", "gate-approver-not-permitted",
  "gate-decision-already-recorded", "store-unavailable"}
  \cup {Offer[o].flaw : o \in DOMAIN Offer} \cup {Answer[a].flaw : a \in DOMAIN Answer}

Call == [pc : {"idle", "done"} \cup OfferStages \cup AnswerStages,
         of : DOMAIN Offer \cup DOMAIN Answer \cup {None},
         at : 0..LastInstant, seen : BOOLEAN, seq : Nat \cup {None}, tries : Nat,
         reply : Codes]

(* Everything is of its type, every call in progress is about something, and  *)
(* values, pings and answers belong to requests the queue holds.              *)
QueueTypeOK ==
  /\ now \in 0..LastInstant /\ calls \in 0..Calls /\ core \in Nat /\ policy \in DOMAIN Rule
  /\ parked \in [Hash -> {<<>>} \cup {<<t>> : t \in 0..LastInstant}]
  /\ arguments \subseteq Hash /\ due \subseteq Hash
  /\ notes \in [Hash -> [Channel -> Nat]]
  /\ decisions \in [Hash -> DOMAIN Answer \cup {None}]
  /\ handler \in [Handler -> Call]
  /\ \A h \in Handler :
       /\ handler[h].pc \in OfferStages => handler[h].of \in DOMAIN Offer
       /\ handler[h].pc \in AnswerStages => handler[h].of \in DOMAIN Answer
  /\ \A r \in Hash : r \in arguments \cup due \/ decisions[r] # None => Parked(r)

(* §09 §7, the approval-fatigue limit: no window of the configured length     *)
(* ever holds more parked requests of one subject than the cap, however many  *)
(* arrive at once (store.rs, the comment on `cap').                           *)
WithinCap ==
  \A r \in Hash, t \in 0..LastInstant :
    Cardinality({q \in Hash : /\ Parked(q) /\ Ask[q].subject = Ask[r].subject
                              /\ t <= parked[q][1] /\ parked[q][1] <= t + Window})
      <= PerSubject

(* An approver is pinged for a request at most once on each channel: retries, *)
(* lost responses and restarts never ask for the same attention twice.        *)
PingedOnce == \A r \in Hash, c \in Channel : notes[r][c] <= 1

(* Nobody answers their own request, under this key or another of theirs,     *)
(* whichever of the two routes the answer took (§06 §5).                      *)
AnsweredByAnother ==
  \A r \in Hash : decisions[r] # None =>
    /\ Answer[decisions[r]].req = r
    /\ Answer[decisions[r]].key # Ask[r].key
    /\ Subject[Answer[decisions[r]].key] # Ask[r].subject

(* What a caller is told is so: a request reported queued is in the queue,    *)
(* and a human told that the answer is recorded reads that answer, not one    *)
(* that another handler recorded first.                                       *)
RepliesAreTrue ==
  \A h \in Handler :
    /\ handler[h].reply \in {"queued", "idempotent"} => Parked(Offer[handler[h].of].req)
    /\ handler[h].reply = "recorded" /\ handler[h].seen
         => decisions[Answer[handler[h].of].req] = handler[h].of

(* §06 §4.4 rule 7: values beside a request nobody can answer any more are    *)
(* erased, also when they were written after a sweep had passed.              *)
ExpiredAreErased ==
  \A r \in Hash : r \in arguments /\ Ask[r].until <= now ~> r \notin arguments

--------------------------------------------------------------------------------
(* The replies that may answer a request of the queue. *)
Fitting == {x \in Hash \X DOMAIN Answer :
              /\ Answer[x[2]].req = x[1]
              /\ Answer[x[2]].key # Ask[x[1]].key
              /\ Subject[Answer[x[2]].key] # Ask[x[1]].subject
              /\ Answer[x[2]].at <= Ask[x[1]].until}

(* The refinement. *)
Promised == INSTANCE ApprovalQueue WITH
  Question <- Hash,
  Verdict <- DOMAIN Answer,
  Fits <- Fitting,
  asked <- {r \in Hash : Parked(r)},
  shown <- arguments,
  answered <- {x \in Hash \X DOMAIN Answer : decisions[x[1]] = x[2]}

(* The queue is append-only, and one question has one answer (§06 §4.3 rules  *)
(* 5 and 7): no request is edited, no value is added to one an approver may   *)
(* have read, no answer is replaced.                                          *)
ImplementsApprovalQueue == Promised!QueueSpec
================================================================================

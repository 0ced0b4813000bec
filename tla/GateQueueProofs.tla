---------------------------- MODULE GateQueueProofs ----------------------------
(******************************************************************************)
(* Proofs about GateQueue, for any number of handlers, requests, answers and  *)
(* channels.  The invariant that carries them says of every call in progress  *)
(* what it may still rely on when it reaches its write (CallOk), and of the   *)
(* tables that windows keep within the cap, that a ping still due has left no *)
(* row yet, and that answers fit their requests (TablesOk).                   *)
(******************************************************************************)
EXTENDS GateQueue, FiniteSetTheorems, TLAPS

CallOk(c) ==
  /\ c \in Call
  /\ c.pc \in OfferStages => c.of \in DOMAIN Offer
  /\ c.pc \in AnswerStages => c.of \in DOMAIN Answer
  /\ c.pc = "count" => ~c.seen
  /\ c.pc = "insert" /\ c.seen => Parked(Offer[c.of].req)
  /\ c.pc = "commit" /\ c.seen => /\ Parked(Answer[c.of].req)
                                  /\ <<Answer[c.of].req, c.of>> \in Fitting
  /\ c.pc # "done" => c.reply = None
  /\ c.reply \in {"queued", "idempotent"} =>
       c.of \in DOMAIN Offer /\ Parked(Offer[c.of].req)
  /\ c.reply = "recorded" /\ c.seen =>
       c.of \in DOMAIN Answer /\ decisions[Answer[c.of].req] = c.of

TablesTyped ==
  /\ now \in 0..LastInstant /\ core \in Nat /\ policy \in DOMAIN Rule
  /\ parked \in [Hash -> {<<>>} \cup {<<t>> : t \in 0..LastInstant}]
  /\ arguments \subseteq Hash /\ due \subseteq Hash
  /\ notes \in [Hash -> [Channel -> Nat]]
  /\ decisions \in [Hash -> DOMAIN Answer \cup {None}]

Belongs == \A r \in Hash : r \in arguments \cup due \/ decisions[r] # None => Parked(r)

DueIsUnpinged ==
  \A r \in Hash, c \in Channel : ~Parked(r) \/ r \in due => notes[r][c] = 0

AnswersFit == \A r \in Hash : decisions[r] # None => <<r, decisions[r]>> \in Fitting

TablesOk == TablesTyped /\ Belongs /\ WithinCap /\ PingedOnce /\ DueIsUnpinged /\ AnswersFit

QueueInv == /\ TablesOk /\ calls \in 0..Calls
            /\ handler \in [Handler -> Call]
            /\ \A h \in Handler : CallOk(handler[h])

--------------------------------------------------------------------------------
(* What the invariant gives. *)

LEMMA InvTyped == QueueInv => QueueTypeOK
  BY DEF QueueInv, TablesOk, TablesTyped, Belongs, CallOk, QueueTypeOK

LEMMA InvAnswers == QueueInv => AnsweredByAnother
  BY DEF QueueInv, TablesOk, AnswersFit, Fitting, AnsweredByAnother

LEMMA InvReplies == QueueInv => RepliesAreTrue
  BY DEF QueueInv, CallOk, RepliesAreTrue

--------------------------------------------------------------------------------
(* Calls. *)

(* What a call relies on stays so while requests and answers are only added. *)
LEMMA CallStays ==
  ASSUME NEW c, CallOk(c),
         \A r \in Hash : Parked(r) => Parked(r)',
         \A r \in Hash : decisions[r] # None => decisions'[r] = decisions[r]
  PROVE  CallOk(c)'
<1>1. c.of \in DOMAIN Offer => Offer[c.of].req \in Hash
  BY QueueAssumption
<1>2. c.of \in DOMAIN Answer => Answer[c.of].req \in Hash /\ c.of # None
  BY QueueAssumption
<1>3. c.reply = "recorded" /\ c.seen =>
        c.of \in DOMAIN Answer /\ decisions'[Answer[c.of].req] = c.of
  BY <1>2 DEF CallOk
<1>4. c.pc = "insert" => c.of \in DOMAIN Offer
  BY DEF CallOk, OfferStages
<1>5. c.pc = "commit" => c.of \in DOMAIN Answer
  BY DEF CallOk, AnswerStages
<1> QED BY <1>1, <1>2, <1>3, <1>4, <1>5 DEF CallOk, Parked

(* A step that leaves the tables alone and gives one handler a call that may  *)
(* rely on them keeps the invariant.                                          *)
LEMMA CallStep ==
  ASSUME QueueInv, NEW h \in Handler, NEW c, CallOk(c),
         handler' = [handler EXCEPT ![h] = c],
         UNCHANGED tables, calls' \in 0..Calls
  PROVE  QueueInv'
<1> USE DEF tables, queue
<1>1. TablesOk'
  BY DEF QueueInv, TablesOk, TablesTyped, Belongs, WithinCap, PingedOnce, DueIsUnpinged,
         AnswersFit, Parked
<1>3. handler' \in [Handler -> Call]
  BY DEF QueueInv, CallOk
<1>4. \A g \in Handler : CallOk(handler'[g])
  BY DEF QueueInv
<1>5. ASSUME NEW g \in Handler PROVE CallOk(handler[g])'
  <2>1. CallOk(handler'[g])
    BY <1>4
  <2> QED BY <2>1 DEF CallOk, Parked
<1> QED BY <1>1, <1>3, <1>5 DEF QueueInv

(* A call moves on to a stage that relies on nothing it did not already. *)
LEMMA IdleOk == CallOk(Idle)
  BY QueueAssumption DEF CallOk, Idle, Call, Codes, OfferStages, AnswerStages, Success

LEMMA RefuseOk ==
  ASSUME NEW code \in Codes \ Success
  PROVE  CallOk(Refused(code))
<1>1. Refused(code) \in Call
  BY QueueAssumption DEF Call, Refused
<1>2. code \notin {"queued", "idempotent", "recorded"}
  BY DEF Success
<1> QED BY <1>1, <1>2 DEF CallOk, OfferStages, AnswerStages, Refused

LEMMA RefuseStep ==
  ASSUME QueueInv, NEW h \in Handler, NEW code \in Codes \ Success, Refuse(h, code),
         UNCHANGED tables, calls' \in 0..Calls
  PROVE  QueueInv'
  BY RefuseOk, CallStep DEF Refuse

(* The stages a call passes through before the one that writes. *)
LEMMA GotoStep ==
  ASSUME QueueInv, NEW h \in Handler, NEW pc, Goto(h, pc),
         UNCHANGED tables, calls' \in 0..Calls,
         \/ pc \in OfferStages /\ handler[h].pc \in OfferStages \ {"insert"}
         \/ pc \in AnswerStages \ {"commit"} /\ handler[h].pc \in AnswerStages,
         pc \in {"count", "insert"} => ~handler[h].seen
  PROVE  QueueInv'
<1> DEFINE c == [handler[h] EXCEPT !.pc = pc]
<1>1. CallOk(handler[h]) /\ handler[h] \in Call
  BY DEF QueueInv
<1>2. CallOk(c)
  BY <1>1 DEF CallOk, Call, OfferStages, AnswerStages
<1>3. handler' = [handler EXCEPT ![h] = c]
  BY DEF Goto
<1> QED BY <1>2, <1>3, CallStep

--------------------------------------------------------------------------------
(* What the checks answer. *)

LEMMA OfferCodes ==
  ASSUME NEW o \in DOMAIN Offer
  PROVE  OfferCode(o) # "ok" => OfferCode(o) \in Codes \ Success
<1>1. Offer[o].flaw # None => Offer[o].flaw \in Codes \ Success
  BY QueueAssumption DEF Codes
<1>2. {"gate-request-expired", "gate-arguments-too-large"} \subseteq Codes \ Success
  BY DEF Codes, Success
<1> QED BY <1>1, <1>2 DEF OfferCode

LEMMA DecisionCodes ==
  ASSUME NEW a \in DOMAIN Answer
  PROVE  /\ DecisionCode(a) # "ok" => DecisionCode(a) \in Codes \ Success
         /\ JudgeCode(a) # "ok" => JudgeCode(a) \in Codes \ Success
<1>1. Answer[a].flaw # None => Answer[a].flaw \in Codes \ Success
  BY QueueAssumption DEF Codes
<1>2. {"gate-self-approval", "gate-request-expired", "gate-approval-expired",
       "gate-approver-not-permitted"} \subseteq Codes \ Success
  BY DEF Codes, Success
<1>3. DecisionCode(a) # "ok" => DecisionCode(a) \in Codes \ Success
  BY <1>1, <1>2 DEF DecisionCode
<1> QED BY <1>1, <1>2, <1>3 DEF JudgeCode

(* Ingest judges an answer to a request of the queue on that request alone:   *)
(* whatever the policy says by the time it commits, the answer fits.          *)
LEMMA JudgedFits ==
  ASSUME NEW a \in DOMAIN Answer, JudgeCode(a) = "ok", Parked(Answer[a].req)
  PROVE  <<Answer[a].req, a>> \in Fitting
<1>1. Answer[a].flaw # "ok" /\ Answer[a].req \in Hash /\ Answer[a].at \in Int
      /\ Ask[Answer[a].req].until \in Int
  BY QueueAssumption
<1>2. /\ Answer[a].flaw = None
      /\ DecisionCode(a) = "ok"
      /\ Subject[Answer[a].key] # Ask[Answer[a].req].subject
  BY <1>1 DEF JudgeCode
<1>3. /\ Answer[a].key # Ask[Answer[a].req].key
      /\ ~(Answer[a].at > Ask[Answer[a].req].until)
  BY <1>2 DEF DecisionCode
<1>4. Answer[a].at <= Ask[Answer[a].req].until
  BY <1>1, <1>3
<1> QED BY <1>1, <1>2, <1>3, <1>4 DEF Fitting

--------------------------------------------------------------------------------
(* The steps that read. *)

LEMMA SubmissionReads ==
  ASSUME QueueInv, NEW h \in Handler, calls' \in 0..Calls,
         \/ \E o \in DOMAIN Offer : Receive(h, o)
         \/ CountMismatches(h) \/ LookUp(h) \/ CountParked(h)
  PROVE  QueueInv'
<1>1. CallOk(handler[h]) /\ handler[h] \in Call
  BY DEF QueueInv
<1>2. "gate-rate-limited" \in Codes \ Success
  BY DEF Codes, Success
<1>3. ASSUME NEW o \in DOMAIN Offer, Receive(h, o) PROVE QueueInv'
  <2>1. CASE OfferCode(o) # "ok"
    BY <1>3, <2>1, OfferCodes, RefuseStep DEF Receive, Take
  <2>2. CASE OfferCode(o) = "ok"
    <3> DEFINE pc == IF Offer[o].args = "mismatch" THEN "mismatch" ELSE "lookup"
               c == [handler[h] EXCEPT !.of = o, !.at = now, !.pc = pc]
    <3>1. handler' = [handler EXCEPT ![h] = c]
      BY <1>3, <2>2 DEF Receive
    <3>2. now \in 0..LastInstant
      BY DEF QueueInv, TablesOk, TablesTyped
    <3>3. pc \in {"mismatch", "lookup"}
      OBVIOUS
    <3> HIDE DEF pc
    <3>4. handler[h].pc = "idle"
      BY <1>3 DEF Receive, Take
    <3>5. c \in Call
      BY <1>1, <3>2, <3>3 DEF Call, OfferStages
    <3>6. CallOk(c)
      BY <1>1, <3>3, <3>4, <3>5, QueueAssumption
         DEF CallOk, Call, OfferStages, AnswerStages, Success
    <3> QED BY <1>3, <3>1, <3>6, CallStep DEF Receive, Take
  <2> QED BY <2>1, <2>2
<1>4. ASSUME CountMismatches(h) PROVE QueueInv'
  BY <1>2, <1>4, RefuseStep, GotoStep DEF CountMismatches, ReadOnly, OfferStages
<1>5. ASSUME LookUp(h) PROVE QueueInv'
  <2> DEFINE found == Parked(Offer[handler[h].of].req)
             pc == IF found THEN "insert" ELSE "count"
             c == [handler[h] EXCEPT !.seen = found, !.pc = pc]
  <2>1. handler' = [handler EXCEPT ![h] = c]
    BY <1>5 DEF LookUp
  <2>2. found \in BOOLEAN
    BY DEF Parked
  <2>3. handler[h].pc = "lookup"
    BY <1>5 DEF LookUp
  <2>4. c \in Call /\ c.of = handler[h].of /\ c.pc \in {"insert", "count"} /\ c.seen = found
        /\ c.reply = handler[h].reply
    BY <1>1, <2>2 DEF Call, OfferStages
  <2>5. CallOk(c)
    BY <1>1, <2>3, <2>4, QueueAssumption DEF CallOk, OfferStages, AnswerStages, Success
  <2> QED BY <1>5, <2>1, <2>5, CallStep DEF LookUp, ReadOnly
<1>6. ASSUME CountParked(h) PROVE QueueInv'
  <2>1. handler[h].pc = "count" /\ ~handler[h].seen
    BY <1>1, <1>6 DEF CountParked, CallOk
  <2> QED BY <1>2, <1>6, <2>1, RefuseStep, GotoStep DEF CountParked, ReadOnly, OfferStages
<1> QED BY <1>3, <1>4, <1>5, <1>6

LEMMA AnswerReads ==
  ASSUME QueueInv, NEW h \in Handler, calls' \in 0..Calls,
         \/ \E a \in DOMAIN Answer : Decide(h, a) \/ Wrapped(h, a)
         \/ ReadRequest(h) \/ ReadApprovers(h) \/ ReadHead(h) \/ Judge(h) \/ Retry(h)
  PROVE  QueueInv'
<1>1. CallOk(handler[h]) /\ handler[h] \in Call
  BY DEF QueueInv
<1>2. {"not-found", "gate-approver-not-permitted", "gate-self-approval",
       "store-unavailable"} \subseteq Codes \ Success
  BY DEF Codes, Success
<1>3. core \in Nat
  BY DEF QueueInv, TablesOk, TablesTyped
<1>4. ASSUME NEW a \in DOMAIN Answer, Decide(h, a) PROVE QueueInv'
  <2> DEFINE c == [handler[h] EXCEPT !.pc = "request", !.of = a]
  <2>1. handler[h].pc = "idle" /\ handler' = [handler EXCEPT ![h] = c] /\ UNCHANGED tables
    BY <1>4 DEF Decide, Take
  <2>2. c \in Call
    BY <1>1 DEF Call, AnswerStages
  <2>3. CallOk(c)
    BY <1>1, <2>1, <2>2, QueueAssumption DEF CallOk, Call, OfferStages, AnswerStages, Success
  <2> QED BY <2>1, <2>3, CallStep
<1>5. ASSUME NEW a \in DOMAIN Answer, Wrapped(h, a) PROVE QueueInv'
  <2> DEFINE c == [handler[h] EXCEPT !.pc = "judge", !.of = a, !.seq = None]
  <2>1. handler[h].pc = "idle" /\ handler' = [handler EXCEPT ![h] = c] /\ UNCHANGED tables
    BY <1>5 DEF Wrapped, Take
  <2>2. c \in Call
    BY <1>1 DEF Call, AnswerStages
  <2>3. CallOk(c)
    BY <1>1, <2>1, <2>2, QueueAssumption DEF CallOk, Call, OfferStages, AnswerStages, Success
  <2> QED BY <2>1, <2>3, CallStep
<1>6. ASSUME ReadRequest(h) PROVE QueueInv'
  <2>1. handler[h].of \in DOMAIN Answer
    BY <1>1, <1>6 DEF ReadRequest, CallOk, AnswerStages
  <2>2. DecisionCode(handler[h].of) # "ok" => DecisionCode(handler[h].of) \in Codes \ Success
    BY <2>1, DecisionCodes
  <2> QED BY <1>2, <1>6, <2>2, RefuseStep, GotoStep DEF ReadRequest, ReadOnly, AnswerStages
<1>7. ASSUME ReadApprovers(h) PROVE QueueInv'
  BY <1>2, <1>7, RefuseStep, GotoStep DEF ReadApprovers, ReadOnly, AnswerStages
<1>8. ASSUME ReadHead(h) PROVE QueueInv'
  <2> DEFINE c == [handler[h] EXCEPT !.pc = "judge", !.seq = core]
  <2>1. handler[h].pc = "head" /\ handler' = [handler EXCEPT ![h] = c] /\ UNCHANGED tables
    BY <1>8 DEF ReadHead, ReadOnly
  <2>2. c \in Call
    BY <1>1, <1>3 DEF Call, AnswerStages
  <2>3. CallOk(c)
    BY <1>1, <2>1, <2>2, QueueAssumption DEF CallOk, Call, OfferStages, AnswerStages, Success
  <2> QED BY <2>1, <2>3, CallStep
<1>9. ASSUME Judge(h) PROVE QueueInv'
  <2> DEFINE a == handler[h].of
  <2>1. a \in DOMAIN Answer
    BY <1>1, <1>9 DEF Judge, CallOk, AnswerStages
  <2>2. CASE JudgeCode(a) # "ok"
    BY <1>9, <2>1, <2>2, DecisionCodes, RefuseStep DEF Judge, ReadOnly
  <2>3. CASE JudgeCode(a) = "ok"
    <3> DEFINE found == Parked(Answer[a].req)
               c == [handler[h] EXCEPT !.pc = "commit", !.seen = found]
    <3>1. handler' = [handler EXCEPT ![h] = c] /\ handler[h].pc = "judge" /\ UNCHANGED tables
      BY <1>9, <2>3 DEF Judge, ReadOnly
    <3>2. found \in BOOLEAN
      BY DEF Parked
    <3>3. found => <<Answer[a].req, a>> \in Fitting
      BY <2>1, <2>3, JudgedFits
    <3>4. c \in Call /\ c.of = a /\ c.pc = "commit" /\ c.seen = found
          /\ c.reply = handler[h].reply
      BY <1>1, <3>2 DEF Call, AnswerStages
    <3>5. CallOk(c)
      BY <1>1, <2>1, <3>1, <3>3, <3>4, QueueAssumption
         DEF CallOk, OfferStages, AnswerStages, Success
    <3> QED BY <3>1, <3>5, CallStep
  <2> QED BY <2>2, <2>3
<1>10. ASSUME Retry(h) PROVE QueueInv'
  <2>1. CASE handler[h].tries + 1 < Attempts
    <3> DEFINE n == handler[h].tries + 1
               c == [handler[h] EXCEPT !.pc = "head", !.tries = n]
    <3>1. handler' = [handler EXCEPT ![h] = c] /\ handler[h].pc = "commit" /\ UNCHANGED tables
      BY <1>10, <2>1 DEF Retry, ReadOnly
    <3>4. n \in Nat
      BY <1>1 DEF Call
    <3> HIDE DEF n
    <3>2. c \in Call
      BY <1>1, <3>4 DEF Call, AnswerStages
    <3>3. CallOk(c)
      BY <1>1, <3>1, <3>2, QueueAssumption
         DEF CallOk, Call, OfferStages, AnswerStages, Success
    <3> QED BY <3>1, <3>3, CallStep
  <2>2. CASE ~(handler[h].tries + 1 < Attempts)
    BY <1>2, <1>10, <2>2, RefuseStep DEF Retry, ReadOnly
  <2> QED BY <2>1, <2>2
<1> QED BY <1>4, <1>5, <1>6, <1>7, <1>8, <1>9, <1>10

LEMMA CallEnds ==
  ASSUME QueueInv, NEW h \in Handler, calls' \in 0..Calls, Respond(h) \/ Unavailable(h)
  PROVE  QueueInv'
<1>1. "store-unavailable" \in Codes \ Success
  BY DEF Codes, Success
<1> QED BY <1>1, IdleOk, CallStep, RefuseStep DEF Respond, Unavailable, ReadOnly

--------------------------------------------------------------------------------
(* The steps that write. *)

(* The cap.  A window that holds the new row ends no earlier than the instant *)
(* the row bears and begins no earlier than the window the transaction        *)
(* counted, so everything else in it was counted.                             *)
LEMMA CapKept ==
  ASSUME TablesTyped, WithinCap, NEW r \in Hash, NEW at \in 0..LastInstant,
         ~(Cardinality(ParkedSince(Ask[r].subject, at)) >= PerSubject),
         parked' = [parked EXCEPT ![r] = <<at>>], ~Parked(r)
  PROVE  WithinCap'
<1> DEFINE In(q, s, t) == /\ Parked(q) /\ Ask[q].subject = s
                          /\ t <= parked[q][1] /\ parked[q][1] <= t + Window
           W(s, t) == {q \in Hash : In(q, s, t)}
           N(s, t) == {q \in Hash : /\ parked'[q] # <<>> /\ Ask[q].subject = s
                                    /\ t <= parked'[q][1] /\ parked'[q][1] <= t + Window}
<1>1. \A q \in Hash : parked'[q] # <<>> /\ q # r => Parked(q) /\ parked'[q] = parked[q]
  BY DEF TablesTyped, Parked
<1>2. parked'[r] = <<at>> /\ parked'[r][1] = at
  BY DEF TablesTyped
<1>3. \A q \in Hash : Parked(q) => parked[q][1] \in Int
  BY DEF TablesTyped, Parked
<1>4. PerSubject \in Nat /\ Window \in Nat /\ IsFiniteSet(Hash)
  BY QueueAssumption
<1>5. \A S \in SUBSET Hash : IsFiniteSet(S) /\ Cardinality(S) \in Nat
  BY <1>4, FS_Subset, FS_CardinalityType
<1>6. ASSUME NEW p \in Hash, NEW t \in 0..LastInstant
      PROVE  Cardinality(N(Ask[p].subject, t)) <= PerSubject
  <2> DEFINE s == Ask[p].subject
  <2>1. CASE r \in N(s, t)
    <3> DEFINE C == ParkedSince(s, at)
    <3>1. Ask[r].subject = s /\ t <= at /\ at <= t + Window
      BY <1>2, <2>1
    <3>2. C \in SUBSET Hash /\ r \in Hash
      BY DEF ParkedSince
    <3>3. N(s, t) \subseteq C \cup {r}
      <4>1. ASSUME NEW q \in N(s, t), q # r PROVE q \in C
        <5>1. Parked(q) /\ parked'[q] = parked[q] /\ Ask[q].subject = s /\ q \in Hash
          BY <1>1, <4>1
        <5>2. t <= parked[q][1] /\ parked[q][1] \in Int
          BY <1>3, <5>1
        <5>3. parked[q][1] >= at - Window
          BY <1>4, <3>1, <5>2
        <5> QED BY <5>1, <5>3 DEF ParkedSince
      <4> QED BY <4>1
    <3>4. Cardinality(C) < PerSubject
      <4>1. Cardinality(C) \in Nat /\ ~(Cardinality(C) >= PerSubject)
        BY <1>5, <3>1, <3>2
      <4> HIDE DEF C
      <4> QED BY <1>4, <4>1
    <3>5. Cardinality(C \cup {r}) <= Cardinality(C) + 1 /\ IsFiniteSet(C \cup {r})
      <4> HIDE DEF C
      <4>1. IsFiniteSet(C) /\ Cardinality(C) \in Nat
        BY <1>5, <3>2
      <4>2. /\ IsFiniteSet(C \cup {r})
            /\ Cardinality(C \cup {r}) = IF r \in C THEN Cardinality(C) ELSE Cardinality(C) + 1
        BY <4>1, FS_AddElement
      <4> QED BY <4>1, <4>2
    <3>6. Cardinality(N(s, t)) <= Cardinality(C \cup {r})
      <4> HIDE DEF C, N
      <4> QED BY <3>3, <3>5, FS_Subset
    <3>7. Cardinality(C) \in Nat /\ Cardinality(C \cup {r}) \in Nat
          /\ Cardinality(N(s, t)) \in Nat
      <4>1. C \cup {r} \in SUBSET Hash /\ N(s, t) \in SUBSET Hash
        BY <3>2
      <4> HIDE DEF C, N
      <4> QED BY <1>5, <3>2, <4>1
    <3> HIDE DEF C, N
    <3> QED BY <1>4, <3>4, <3>5, <3>6, <3>7
  <2>2. CASE r \notin N(s, t)
    <3>1. N(s, t) \subseteq W(s, t)
      BY <1>1, <2>2
    <3>2. W(s, t) \in SUBSET Hash
      OBVIOUS
    <3>3. Cardinality(W(s, t)) <= PerSubject
      BY DEF WithinCap
    <3>4. IsFiniteSet(W(s, t)) /\ Cardinality(W(s, t)) \in Nat
          /\ Cardinality(N(s, t)) \in Nat
      <4>1. N(s, t) \in SUBSET Hash
        OBVIOUS
      <4> HIDE DEF N, W
      <4> QED BY <1>5, <3>2, <4>1
    <3>5. Cardinality(N(s, t)) <= Cardinality(W(s, t))
      <4> HIDE DEF N, W
      <4> QED BY <3>1, <3>4, FS_Subset
    <3> HIDE DEF N, W
    <3> QED BY <1>4, <3>3, <3>4, <3>5
  <2> QED BY <2>1, <2>2
<1> QED BY <1>6 DEF WithinCap, Parked

(* A step that adds requests or answers and ends one handler's call.          *)
LEMMA WriteStep ==
  ASSUME QueueInv, NEW h \in Handler, NEW c,
         handler' = [handler EXCEPT ![h] = c], CallOk(c)', c \in Call,
         TablesOk', calls' = calls,
         \A r \in Hash : Parked(r) => Parked(r)',
         \A r \in Hash : decisions[r] # None => decisions'[r] = decisions[r]
  PROVE  QueueInv'
<1>1. ASSUME NEW g \in Handler PROVE CallOk(handler[g])'
  <2>1. CASE g = h
    <3>1. handler'[g] = c
      BY <2>1 DEF QueueInv
    <3> QED BY <3>1 DEF CallOk, Parked
  <2>2. CASE g # h
    <3>1. PICK d : d = handler[g]
      OBVIOUS
    <3>2. CallOk(d) /\ handler'[g] = d
      BY <2>2, <3>1 DEF QueueInv
    <3>3. CallOk(d)'
      BY <3>2, CallStays
    <3> QED BY <3>2, <3>3 DEF CallOk, Parked
  <2> QED BY <2>1, <2>2
<1> QED BY <1>1 DEF QueueInv

LEMMA FreshRow ==
  ASSUME QueueInv, NEW r \in Hash, NEW at \in 0..LastInstant,
         ~Parked(r), ~(Cardinality(ParkedSince(Ask[r].subject, at)) >= PerSubject),
         parked' = [parked EXCEPT ![r] = <<at>>],
         arguments' \in {arguments, arguments \cup {r}},
         due' = due \cup {r},
         UNCHANGED <<now, notes, mismatches, decisions, core, policy>>
  PROVE  TablesOk' /\ Parked(r)' /\ \A q \in Hash : Parked(q) => Parked(q)'
<1>1. TablesTyped /\ WithinCap /\ Belongs /\ PingedOnce /\ DueIsUnpinged /\ AnswersFit
  BY DEF QueueInv, TablesOk
<1>2. WithinCap'
  BY <1>1, CapKept
<1>3. TablesTyped'
  BY <1>1 DEF TablesTyped
<1>4. parked'[r] = <<at>> /\ \A q \in Hash : q # r => parked'[q] = parked[q]
  BY <1>1 DEF TablesTyped
<1>5. \A q \in Hash : Parked(q) => Parked(q)'
  BY <1>4 DEF Parked
<1>6. Parked(r)'
  BY <1>4 DEF Parked
<1>7. Belongs'
  BY <1>1, <1>5, <1>6 DEF Belongs
<1>8. DueIsUnpinged' /\ PingedOnce' /\ AnswersFit'
  BY <1>1, <1>4 DEF DueIsUnpinged, PingedOnce, AnswersFit, Parked
<1> QED BY <1>2, <1>3, <1>5, <1>6, <1>7, <1>8 DEF TablesOk

LEMMA InsertStep ==
  ASSUME QueueInv, NEW h \in Handler, Insert(h)
  PROVE  QueueInv'
<1>1. PICK d : d = handler[h]
  OBVIOUS
<1>2. CallOk(d) /\ d \in Call /\ d.pc = "insert" /\ calls' = calls /\ calls \in 0..Calls
  BY <1>1 DEF QueueInv, Insert
<1>3. PICK r : r = Offer[d.of].req
  OBVIOUS
<1>4. d.of \in DOMAIN Offer /\ r \in Hash /\ d.at \in 0..LastInstant
  BY <1>2, <1>3, QueueAssumption DEF CallOk, OfferStages, Call
<1>5. CASE ~d.seen /\ OverCap(h)
  <2>1. "gate-rate-limited" \in Codes \ Success
    BY DEF Codes, Success
  <2>2. Refuse(h, "gate-rate-limited") /\ UNCHANGED tables
    BY <1>1, <1>5 DEF Insert, tables
  <2> QED BY <1>2, <2>1, <2>2, RefuseStep
<1>6. CASE ~(~d.seen /\ OverCap(h)) /\ Parked(r)
  <2> DEFINE c == [d EXCEPT !.pc = "done", !.reply = "idempotent"]
  <2>1. handler' = [handler EXCEPT ![h] = c] /\ UNCHANGED tables
    BY <1>1, <1>3, <1>6 DEF Insert, Tell, tables
  <2>2. c \in Call
    BY <1>2 DEF Call, Codes, Success
  <2>3. CallOk(c)
    BY <1>2, <1>3, <1>4, <1>6, <2>2 DEF CallOk, Call, OfferStages, AnswerStages
  <2> QED BY <1>2, <2>1, <2>3, CallStep
<1>7. CASE ~(~d.seen /\ OverCap(h)) /\ ~Parked(r)
  <2> DEFINE c == [d EXCEPT !.pc = "done", !.reply = "queued"]
  <2>1. /\ parked' = [parked EXCEPT ![r] = <<d.at>>]
        /\ arguments' \in {arguments, arguments \cup {r}}
        /\ due' = due \cup {r}
        /\ handler' = [handler EXCEPT ![h] = c]
        /\ UNCHANGED <<now, notes, mismatches, decisions, core, policy>>
    BY <1>1, <1>3, <1>7 DEF Insert, Tell
  <2>2. ~d.seen
    BY <1>2, <1>3, <1>7 DEF CallOk
  <2>3. ~(Cardinality(ParkedSince(Ask[r].subject, d.at)) >= PerSubject)
    BY <1>1, <1>3, <1>7, <2>2 DEF OverCap
  <2>4. TablesOk' /\ Parked(r)' /\ \A q \in Hash : Parked(q) => Parked(q)'
    BY <1>4, <1>7, <2>1, <2>3, FreshRow
  <2>5. c \in Call /\ c.pc = "done" /\ c.reply = "queued" /\ c.of = d.of
    BY <1>2 DEF Call, Codes, Success
  <2>6. CallOk(c)'
    <3> HIDE DEF c
    <3> QED BY <1>3, <1>4, <2>4, <2>5 DEF CallOk, OfferStages, AnswerStages
  <2> HIDE DEF c
  <2> QED BY <1>2, <2>1, <2>4, <2>5, <2>6, WriteStep
<1> QED BY <1>5, <1>6, <1>7

LEMMA RecordMismatchStep ==
  ASSUME QueueInv, NEW h \in Handler, RecordMismatch(h)
  PROVE  QueueInv'
<1>1. /\ handler' = [handler EXCEPT ![h] = Refused("gate-arguments-hash-mismatch")]
      /\ UNCHANGED <<now, parked, arguments, notes, due, decisions, core, policy, calls>>
  BY DEF RecordMismatch, Refuse, queue
<1>2. "gate-arguments-hash-mismatch" \in Codes \ Success
  BY DEF Codes, Success
<1>3. PICK c : c = Refused("gate-arguments-hash-mismatch")
  OBVIOUS
<1>4. CallOk(c)
  BY <1>2, <1>3, RefuseOk
<1>5. CallOk(c)' /\ c \in Call
  BY <1>1, <1>4 DEF CallOk, Parked
<1>6. TablesOk'
  BY <1>1 DEF QueueInv, TablesOk, TablesTyped, Belongs, WithinCap, PingedOnce, DueIsUnpinged,
              AnswersFit, Parked
<1> QED BY <1>1, <1>3, <1>5, <1>6, WriteStep DEF Parked

LEMMA CommitStep ==
  ASSUME QueueInv, NEW h \in Handler, Commit(h)
  PROVE  QueueInv'
<1>1. PICK d : d = handler[h]
  OBVIOUS
<1>2. CallOk(d) /\ d \in Call /\ d.pc = "commit" /\ calls' = calls /\ calls \in 0..Calls
  BY <1>1 DEF QueueInv, Commit
<1>3. PICK a : a = d.of
  OBVIOUS
<1>4. PICK r : r = Answer[a].req
  OBVIOUS
<1>5. a \in DOMAIN Answer /\ r \in Hash /\ a # None
  BY <1>2, <1>3, <1>4, QueueAssumption DEF CallOk, AnswerStages
<1>6. TablesTyped /\ Belongs /\ WithinCap /\ PingedOnce /\ DueIsUnpinged /\ AnswersFit
  BY DEF QueueInv, TablesOk
<1>7. CASE d.seen /\ decisions[r] # None
  <2>1. "gate-decision-already-recorded" \in Codes \ Success
    BY DEF Codes, Success
  <2>2. Refuse(h, "gate-decision-already-recorded") /\ UNCHANGED tables
    BY <1>1, <1>3, <1>4, <1>7 DEF Commit, tables, queue
  <2> QED BY <1>2, <2>1, <2>2, RefuseStep
<1>8. CASE ~(d.seen /\ decisions[r] # None)
  <2> DEFINE c == [d EXCEPT !.pc = "done", !.reply = "recorded"]
  <2>1. /\ decisions' = IF d.seen THEN [decisions EXCEPT ![r] = a] ELSE decisions
        /\ core' \in {core, core + 1}
        /\ handler' = [handler EXCEPT ![h] = c]
        /\ UNCHANGED <<now, parked, arguments, notes, due, mismatches, policy>>
    BY <1>1, <1>3, <1>4, <1>8 DEF Commit, Tell
  <2>2. c \in Call /\ c.pc = "done" /\ c.reply = "recorded" /\ c.of = a /\ c.seen = d.seen
    BY <1>2, <1>3 DEF Call, Codes, Success
  <2>3. d.seen => Parked(r) /\ <<r, a>> \in Fitting
    BY <1>2, <1>3, <1>4 DEF CallOk
  <2>4. d.seen => decisions'[r] = a
    BY <1>5, <1>6, <2>1 DEF TablesTyped
  <2>5. \A q \in Hash : decisions[q] # None => decisions'[q] = decisions[q]
    BY <1>6, <1>8, <2>1 DEF TablesTyped
  <2>6. \A q \in Hash : decisions'[q] # None =>
          (decisions[q] = decisions'[q] \/ (d.seen /\ q = r /\ decisions'[q] = a))
    BY <1>6, <2>1 DEF TablesTyped
  <2>7. TablesTyped'
    BY <1>5, <1>6, <2>1 DEF TablesTyped
  <2>8. Belongs' /\ AnswersFit'
    BY <1>6, <2>1, <2>3, <2>6 DEF Belongs, AnswersFit, Parked
  <2>9. WithinCap' /\ PingedOnce' /\ DueIsUnpinged'
    BY <1>6, <2>1 DEF WithinCap, PingedOnce, DueIsUnpinged, Parked
  <2>10. TablesOk'
    BY <2>7, <2>8, <2>9 DEF TablesOk
  <2>11. CallOk(c)'
    <3> HIDE DEF c
    <3> QED BY <1>4, <1>5, <2>2, <2>4 DEF CallOk, OfferStages, AnswerStages
  <2>12. \A q \in Hash : Parked(q) => Parked(q)'
    BY <2>1 DEF Parked
  <2> HIDE DEF c
  <2> QED BY <1>2, <2>1, <2>2, <2>5, <2>10, <2>11, <2>12, WriteStep
<1> QED BY <1>7, <1>8

LEMMA NotifyStep ==
  ASSUME QueueInv, NEW r \in Hash, Notify(r)
  PROVE  QueueInv'
<1>1. PICK written \in SUBSET Channel :
        notes' = [notes EXCEPT ![r] = [c \in Channel |->
                    IF c \in written THEN @[c] + 1 ELSE @[c]]]
  BY DEF Notify
<1>2. /\ r \in due /\ due' = due \ {r}
      /\ UNCHANGED <<now, parked, arguments, mismatches, decisions, core, policy, handler, calls>>
  BY DEF Notify
<1>3. TablesTyped /\ Belongs /\ WithinCap /\ PingedOnce /\ DueIsUnpinged /\ AnswersFit
  BY DEF QueueInv, TablesOk
<1>4. \A c \in Channel : notes[r][c] = 0 /\ notes'[r][c] \in {0, 1}
  BY <1>1, <1>2, <1>3 DEF DueIsUnpinged, TablesTyped
<1>5. \A q \in Hash : q # r => notes'[q] = notes[q]
  BY <1>1, <1>3 DEF TablesTyped
<1>6. notes' \in [Hash -> [Channel -> Nat]]
  BY <1>1, <1>3 DEF TablesTyped
<1>7. PingedOnce' /\ DueIsUnpinged'
  BY <1>2, <1>3, <1>4, <1>5 DEF PingedOnce, DueIsUnpinged, Parked, Belongs
<1>8. TablesTyped' /\ Belongs' /\ WithinCap' /\ AnswersFit'
  BY <1>2, <1>3, <1>6 DEF TablesTyped, Belongs, WithinCap, AnswersFit, Parked
<1>9. \A h \in Handler : CallOk(handler[h])'
  BY <1>2 DEF QueueInv, CallOk, Parked
<1> QED BY <1>2, <1>7, <1>8, <1>9 DEF QueueInv, TablesOk

(* Steps of the kernel's other writers, the clock, the sweep, and a restart.  *)
LEMMA OtherStep ==
  ASSUME QueueInv, (\E v \in DOMAIN Rule : WriteCore(v)) \/ Tick \/ Sweep \/ Restart
  PROVE  QueueInv'
<1>1. TablesTyped /\ Belongs /\ WithinCap /\ PingedOnce /\ DueIsUnpinged /\ AnswersFit
  BY DEF QueueInv, TablesOk
<1>2. /\ UNCHANGED <<parked, notes, mismatches, decisions, calls>>
      /\ arguments' \subseteq arguments /\ due' \subseteq due
      /\ now' \in 0..LastInstant /\ core' \in Nat /\ policy' \in DOMAIN Rule
  <2>1. LastInstant \in Nat /\ now \in 0..LastInstant /\ core \in Nat /\ policy \in DOMAIN Rule
    BY <1>1, QueueAssumption DEF TablesTyped
  <2> QED BY <2>1 DEF WriteCore, Tick, Sweep, Restart, queue
<1>3. TablesOk'
  BY <1>1, <1>2 DEF TablesOk, TablesTyped, Belongs, WithinCap, PingedOnce, DueIsUnpinged,
                    AnswersFit, Parked
<1>4. CASE handler' = handler
  <2>1. \A h \in Handler : CallOk(handler[h])'
    BY <1>2, <1>4 DEF QueueInv, CallOk, Parked
  <2> QED BY <1>2, <1>3, <1>4, <2>1 DEF QueueInv
<1>5. CASE Restart
  <2>1. PICK c : c = Idle
    OBVIOUS
  <2>2. CallOk(c) /\ c \in Call
    BY <2>1, IdleOk DEF CallOk
  <2>3. CallOk(c)'
    BY <1>2, <2>2 DEF CallOk, Parked
  <2>4. \A h \in Handler : CallOk(handler[h])'
    BY <1>5, <2>1, <2>3 DEF Restart, CallOk, Parked
  <2> QED BY <1>2, <1>3, <1>5, <2>1, <2>2, <2>4 DEF QueueInv, Restart
<1> QED BY <1>4, <1>5 DEF WriteCore, Tick, Sweep

--------------------------------------------------------------------------------
(* The theorems. *)

LEMMA InitInv == Init => QueueInv
<1> SUFFICES ASSUME Init PROVE QueueInv
  OBVIOUS
<1>1. \A r \in Hash : ~Parked(r)
  BY DEF Init, Parked
<1>2. TablesTyped
  BY QueueAssumption DEF Init, TablesTyped
<1>3. WithinCap
  <2>1. ASSUME NEW r \in Hash, NEW t \in 0..LastInstant
        PROVE  {q \in Hash : /\ Parked(q) /\ Ask[q].subject = Ask[r].subject
                             /\ t <= parked[q][1] /\ parked[q][1] <= t + Window} = {}
    BY <1>1
  <2>2. Cardinality({}) = 0 /\ 0 <= PerSubject
    BY FS_EmptySet, QueueAssumption
  <2> QED BY <2>1, <2>2 DEF WithinCap
<1>4. Belongs /\ PingedOnce /\ DueIsUnpinged /\ AnswersFit
  BY DEF Init, Belongs, PingedOnce, DueIsUnpinged, AnswersFit
<1>5. \A h \in Handler : CallOk(handler[h])
  BY IdleOk DEF Init
<1>6. handler \in [Handler -> Call]
  BY IdleOk DEF Init, CallOk
<1>7. calls \in 0..Calls
  BY QueueAssumption DEF Init
<1> QED BY <1>2, <1>3, <1>4, <1>5, <1>6, <1>7 DEF QueueInv, TablesOk

LEMMA ServeStep ==
  ASSUME QueueInv, NEW h \in Handler, Serve(h)
  PROVE  QueueInv'
<1>1. calls \in 0..Calls /\ Calls \in Nat
  BY QueueAssumption DEF QueueInv
<1>2. CASE \E o \in DOMAIN Offer : Receive(h, o)
  <2>1. calls' \in 0..Calls
    BY <1>1, <1>2 DEF Receive, Take
  <2> QED BY <1>2, <2>1, SubmissionReads
<1>3. CASE CountMismatches(h) \/ LookUp(h) \/ CountParked(h)
  <2>1. calls' \in 0..Calls
    BY <1>1, <1>3 DEF CountMismatches, LookUp, CountParked, ReadOnly
  <2> QED BY <1>3, <2>1, SubmissionReads
<1>4. CASE \E a \in DOMAIN Answer : Decide(h, a) \/ Wrapped(h, a)
  <2>1. calls' \in 0..Calls
    BY <1>1, <1>4 DEF Decide, Wrapped, Take
  <2> QED BY <1>4, <2>1, AnswerReads
<1>5. CASE ReadRequest(h) \/ ReadApprovers(h) \/ ReadHead(h) \/ Judge(h) \/ Retry(h)
  <2>1. calls' \in 0..Calls
    BY <1>1, <1>5 DEF ReadRequest, ReadApprovers, ReadHead, Judge, Retry, ReadOnly
  <2> QED BY <1>5, <2>1, AnswerReads
<1>6. CASE Respond(h) \/ Unavailable(h)
  <2>1. calls' \in 0..Calls
    BY <1>1, <1>6 DEF Respond, Unavailable, ReadOnly
  <2> QED BY <1>6, <2>1, CallEnds
<1> QED BY <1>2, <1>3, <1>4, <1>5, <1>6, RecordMismatchStep, InsertStep, CommitStep DEF Serve

LEMMA NextInv == QueueInv /\ [Next]_vars => QueueInv'
<1> SUFFICES ASSUME QueueInv, [Next]_vars PROVE QueueInv'
  OBVIOUS
<1>1. CASE UNCHANGED vars
  BY <1>1 DEF vars, QueueInv, TablesOk, TablesTyped, Belongs, WithinCap, PingedOnce,
              DueIsUnpinged, AnswersFit, CallOk, Parked
<1>2. CASE Next
  BY <1>2, ServeStep, NotifyStep, OtherStep DEF Next
<1> QED BY <1>1, <1>2

LEMMA QueueInvariant == Spec => []QueueInv
  BY InitInv, NextInv, PTL DEF Spec

(* Every call in progress is about something of its kind, and values, pings   *)
(* and answers belong to parked requests.                                     *)
THEOREM QueueTyped == Spec => []QueueTypeOK
  BY QueueInvariant, InvTyped, PTL

(* The approval-fatigue limit holds of every window, for any number of        *)
(* submissions arriving at once, whatever they read before they wrote.        *)
THEOREM CapHolds == Spec => []WithinCap
<1>1. QueueInv => WithinCap
  BY DEF QueueInv, TablesOk
<1> QED BY <1>1, QueueInvariant, PTL

(* No retry, race or restart pings an approver for one request twice.         *)
THEOREM PingsOnce == Spec => []PingedOnce
<1>1. QueueInv => PingedOnce
  BY DEF QueueInv, TablesOk
<1> QED BY <1>1, QueueInvariant, PTL

(* Nobody answers for themselves, by whichever route, under whichever policy. *)
THEOREM AnsweredByAnotherHolds == Spec => []AnsweredByAnother
  BY QueueInvariant, InvAnswers, PTL

(* What callers are told of the queue stays true.                             *)
THEOREM RepliesHold == Spec => []RepliesAreTrue
  BY QueueInvariant, InvReplies, PTL

--------------------------------------------------------------------------------
(* The refinement. *)

LEMMA Stutters ==
  ASSUME UNCHANGED <<parked, arguments, decisions>>
  PROVE  UNCHANGED Promised!queueVars
  BY DEF Promised!queueVars, Parked

LEMMA InsertPuts ==
  ASSUME QueueInv, NEW h \in Handler, Insert(h)
  PROVE  [Promised!QueueNext]_Promised!queueVars
<1>1. PICK r : r = Offer[handler[h].of].req
  OBVIOUS
<1>2. handler[h].of \in DOMAIN Offer /\ r \in Hash
  BY <1>1, QueueAssumption DEF Insert, QueueInv, CallOk, OfferStages
<1>3. \/ UNCHANGED <<parked, arguments, decisions>>
      \/ /\ ~Parked(r)
         /\ parked' = [parked EXCEPT ![r] = <<handler[h].at>>]
         /\ arguments' \in {arguments, arguments \cup {r}}
         /\ decisions' = decisions
  BY <1>1 DEF Insert, queue
<1>4. CASE ~Parked(r) /\ parked' = [parked EXCEPT ![r] = <<handler[h].at>>]
           /\ arguments' \in {arguments, arguments \cup {r}} /\ decisions' = decisions
  <2>1. \A q \in Hash : Parked(q)' <=> Parked(q) \/ q = r
    BY <1>2, <1>4 DEF Parked, QueueInv, TablesOk, TablesTyped
  <2>2. {q \in Hash : Parked(q)}' = {q \in Hash : Parked(q)} \cup {r}
    BY <1>2, <2>1
  <2>3. r \notin {q \in Hash : Parked(q)}
    BY <1>4
  <2>4. Promised!Put(r)
    BY <1>2, <1>4, <2>2, <2>3 DEF Promised!Put
  <2> QED BY <1>2, <2>4 DEF Promised!QueueNext
<1> QED BY <1>3, <1>4, Stutters

LEMMA CommitSettles ==
  ASSUME QueueInv, NEW h \in Handler, Commit(h)
  PROVE  [Promised!QueueNext]_Promised!queueVars
<1>1. PICK a : a = handler[h].of
  OBVIOUS
<1>2. PICK r : r = Answer[a].req
  OBVIOUS
<1>3. a \in DOMAIN Answer /\ r \in Hash /\ a # None
  BY <1>1, <1>2, QueueAssumption DEF Commit, QueueInv, CallOk, AnswerStages
<1>4. \/ UNCHANGED <<parked, arguments, decisions>>
      \/ /\ handler[h].seen /\ decisions[r] = None
         /\ decisions' = [decisions EXCEPT ![r] = a]
         /\ UNCHANGED <<parked, arguments>>
  BY <1>1, <1>2 DEF Commit
<1>5. CASE handler[h].seen /\ decisions[r] = None
           /\ decisions' = [decisions EXCEPT ![r] = a] /\ UNCHANGED <<parked, arguments>>
  <2>1. Parked(r) /\ <<r, a>> \in Fitting
    BY <1>1, <1>2, <1>5 DEF Commit, QueueInv, CallOk
  <2>2. decisions'[r] = a /\ \A q \in Hash : q # r => decisions'[q] = decisions[q]
    BY <1>3, <1>5 DEF QueueInv, TablesOk, TablesTyped
  <2> DEFINE D(d) == {x \in Hash \X DOMAIN Answer : d[x[1]] = x[2]}
  <2>3. D(decisions') = D(decisions) \cup {<<r, a>>}
    BY <1>3, <1>5, <2>2, QueueAssumption
  <2>4. \A x \in D(decisions) : x[1] # r
    BY <1>5, QueueAssumption
  <2>5. {q \in Hash : Parked(q)}' = {q \in Hash : Parked(q)}
    BY <1>5 DEF Parked
  <2>6. Promised!Settle(r, a)
    BY <1>3, <1>5, <2>1, <2>3, <2>4, <2>5 DEF Promised!Settle
  <2> QED BY <1>3, <2>6 DEF Promised!QueueNext
<1> QED BY <1>4, <1>5, Stutters

LEMMA StepPromised ==
  ASSUME QueueInv, [Next]_vars
  PROVE  [Promised!QueueNext]_Promised!queueVars
<1>1. ASSUME NEW h \in Handler, Serve(h)
      PROVE  Insert(h) \/ Commit(h) \/ UNCHANGED <<parked, arguments, decisions>>
  BY <1>1 DEF Serve, Receive, Take, CountMismatches, RecordMismatch, LookUp, CountParked,
              Decide, Wrapped, ReadRequest, ReadApprovers, ReadHead, Judge, Retry, Respond,
              Unavailable, ReadOnly, tables, queue
<1>2. ASSUME Sweep PROVE [Promised!QueueNext]_Promised!queueVars
  <2>1. arguments' \subseteq arguments /\ UNCHANGED <<parked, decisions>>
    BY <1>2 DEF Sweep
  <2>2. Promised!Withdraw
    BY <2>1 DEF Promised!Withdraw, Parked
  <2> QED BY <2>2 DEF Promised!QueueNext
<1>3. (\E r \in Hash : Notify(r)) \/ (\E v \in DOMAIN Rule : WriteCore(v)) \/ Tick \/ Restart
      \/ UNCHANGED vars => UNCHANGED <<parked, arguments, decisions>>
  BY DEF Notify, WriteCore, Tick, Restart, vars, queue
<1> QED BY <1>1, <1>2, <1>3, InsertPuts, CommitSettles, Stutters DEF Next

(* The queue is append-only, with one fitting answer to a question: every     *)
(* handler step is a step of the abstract queue, or none.                     *)
THEOREM QueueImplements == Spec => ImplementsApprovalQueue
<1>1. Init => Promised!QueueInit
  <2> SUFFICES ASSUME Init PROVE Promised!QueueInit
    OBVIOUS
  <2>1. {r \in Hash : Parked(r)} = {}
    BY DEF Init, Parked
  <2>2. {x \in Hash \X DOMAIN Answer : decisions[x[1]] = x[2]} = {}
    BY QueueAssumption DEF Init
  <2> QED BY <2>1, <2>2 DEF Promised!QueueInit, Init
<1>2. QueueInv /\ [Next]_vars => [Promised!QueueNext]_Promised!queueVars
  BY StepPromised
<1> QED BY <1>1, <1>2, QueueInvariant, PTL DEF Spec, ImplementsApprovalQueue, Promised!QueueSpec

================================================================================

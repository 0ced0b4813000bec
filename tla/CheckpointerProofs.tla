--------------------------- MODULE CheckpointerProofs --------------------------
(******************************************************************************)
(* What the kernel's loops promise about erasure, for any streams, envelopes, *)
(* tasks and duties.  The argument is about one decay run: as of the instant  *)
(* it began with, whatever still has to be covered before the sweep is in a   *)
(* stream it has yet to do, and the head it reads there is not passed by.     *)
(******************************************************************************)
EXTENDS Checkpointer, WellFoundedInduction, TLAPS

Pcs == {"range", "prev", "seq", "submit"}

(* What has to be attested before a run as of now may erase what it carries.  *)
Owed(now) ==
  {e \in Entry : /\ e[2] =< len[e[1]] /\ e \notin late
                 /\ Carried(e).payload # None
                 /\ ~Retained(Carried(e).payload, now)
                 /\ attested[e[1]] < e[2]}

(* A run is as of an instant that has passed, has a stream in hand until it   *)
(* comes to the sweep, and only a decay run comes to one.                     *)
Punctual(r) ==
  /\ r.now =< clock
  /\ r.pc \in {"list", "sweep"} <=> r.todo = << >>
  /\ r.pc = "sweep" => r.job = "decay"

(* What has been read of the stream in hand: the head is one it had, a range  *)
(* that is still current starts where the attested part ends, and a twin      *)
(* appended the same checkpoint. *)
Current(r) ==
  /\ r.twin => r.pc = "submit"
  /\ r.pc \in Pcs /\ Head(r.todo) \in Stream =>
       /\ r.to =< len[Head(r.todo)]
       /\ r.pc # "range" /\ r.range => attested[Head(r.todo)] =< r.to
       /\ r.twin => r.to =< attested[Head(r.todo)]

(* A decay run past its listing has what is owed before it: in a stream still *)
(* to do and, of the one in hand, no later than the head that was read. *)
Covers(r) ==
  r.job = "decay" /\ r.pc # "list" =>
    \A e \in Owed(r.now) :
      /\ e[1] \in ToSet(r.todo)
      /\ r.pc \in Pcs /\ e[1] = Head(r.todo) => e[2] =< r.to

Sound(r) ==
  \/ r = Idle
  \/ r \in Working /\ Punctual(r) /\ Current(r) /\ Covers(r)

(* What was erased had been attested, unless its retention was over when it   *)
(* arrived; it may be held again since. *)
ErasedWasAttested ==
  \A e \in Entry : /\ e[2] =< len[e[1]] /\ e \notin late
                   /\ Carried(e).payload # None
                   => Carried(e).payload \in stored \/ e[2] =< attested[e[1]]

LogTyped ==
  /\ len \in [Stream -> Nat] /\ attested \in [Stream -> Nat]
  /\ \A s \in Stream : attested[s] =< len[s] /\ len[s] =< Len(Envelopes[s])
  /\ late \subseteq Entry /\ stored \subseteq Payload
  /\ begun \in BOOLEAN /\ clock \in Nat /\ calls \in Nat /\ faults \in Nat
  /\ refused \subseteq {"chain-seq-duplicate", "chain-prev-hash-mismatch",
                        "checkpoint-range-discontinuous"}
  /\ DOMAIN task = Task

CheckpointerInv ==
  /\ LogTyped
  /\ ErasedWasAttested
  /\ task = [t \in Task |-> task[t]]
  /\ \A t \in Task : Sound(task[t])

--------------------------------------------------------------------------------
(* The streams listed. *)

(* Induction over the naturals, as a statement about a set of naturals. *)
LEMMA NaturalInduction ==
  ASSUME NEW S \in SUBSET Nat, 0 \in S, \A n \in S : n + 1 \in S
  PROVE  S = Nat
<1>1. SUFFICES ASSUME Nat \ S # {} PROVE FALSE
  OBVIOUS
<1>2. PICK n \in Nat \ S : \A m \in Nat \ S : << m, n >> \notin OpToRel(<, Nat)
  BY <1>1, NatLessThanWellFounded, WFMin
<1>3. \A m \in Nat \ S : ~(m < n)
  BY <1>2 DEF OpToRel
<1>4. n # 0 /\ n - 1 \in Nat /\ n - 1 \in S
  BY <1>3
<1> QED
  BY <1>4

LEMMA AppendAdds ==
  ASSUME NEW T, NEW q \in Seq(T), NEW x \in T
  PROVE  Append(q, x) \in Seq(T) /\ ToSet(Append(q, x)) = ToSet(q) \cup {x}
<1>1. /\ Append(q, x) \in Seq(T) /\ Len(q) \in Nat
      /\ DOMAIN q = 1..Len(q) /\ DOMAIN Append(q, x) = 1..(Len(q) + 1)
      /\ Append(q, x)[Len(q) + 1] = x
      /\ \A i \in 1..Len(q) : Append(q, x)[i] = q[i]
  OBVIOUS
<1>2. PICK n \in Nat : n = Len(q)
  BY <1>1
<1>3. \A i \in 1..(n + 1) : i \in 1..n \/ i = n + 1
  BY <1>2
<1>4. 1..n \subseteq 1..(n + 1) /\ n + 1 \in 1..(n + 1)
  BY <1>2
<1> QED
  BY <1>1, <1>2, <1>3, <1>4 DEF ToSet

(* What Listed's recursive function satisfies. *)
Lists(g, S, k) ==
  g = [n \in 0..k |->
         IF n = 0 THEN << >>
         ELSE IF StreamOrder[n] \in S THEN Append(g[n - 1], StreamOrder[n])
         ELSE g[n - 1]]

(* Such a function exists: the streams are listed one by one. *)
LEMMA ListsExist ==
  ASSUME NEW S
  PROVE  \E g : Lists(g, S, Len(StreamOrder))
<1> DEFINE K == {k \in Nat : k =< Len(StreamOrder) => \E g : Lists(g, S, k)}
<1>1. 0 \in K
  <2>1. Lists([n \in 0..0 |-> << >>], S, 0)
    BY DEF Lists
  <2> QED
    BY <2>1
<1>2. ASSUME NEW k \in K PROVE k + 1 \in K
  <2>1. SUFFICES ASSUME k + 1 =< Len(StreamOrder)
                 PROVE  \E g : Lists(g, S, k + 1)
    OBVIOUS
  <2>2. PICK g : Lists(g, S, k)
    <3>1. Len(StreamOrder) \in Nat
      BY CheckpointerAssumption DEF CheckpointerAssumption
    <3> QED
      BY <2>1, <3>1
  <2> DEFINE last == IF StreamOrder[k + 1] \in S THEN Append(g[k], StreamOrder[k + 1])
                     ELSE g[k]
             h == [n \in 0..(k + 1) |-> IF n = k + 1 THEN last ELSE g[n]]
  <2>3. ASSUME NEW n \in 0..(k + 1)
        PROVE  h[n] = IF n = 0 THEN << >>
                      ELSE IF StreamOrder[n] \in S THEN Append(h[n - 1], StreamOrder[n])
                      ELSE h[n - 1]
    <3>1. CASE n = k + 1
      <4>1. n # 0 /\ n - 1 = k /\ h[k] = g[k]
        BY <3>1
      <4> QED
        BY <3>1, <4>1
    <3>2. CASE n = 0
      BY <2>2, <3>2 DEF Lists
    <3>3. CASE n \in 1..k
      <4>1. h[n] = g[n] /\ h[n - 1] = g[n - 1]
        BY <3>3
      <4>2. g[n] = IF StreamOrder[n] \in S THEN Append(g[n - 1], StreamOrder[n])
                   ELSE g[n - 1]
        <5>1. n \in 0..k /\ n # 0
          BY <3>3
        <5> QED
          BY <2>2, <5>1 DEF Lists
      <4> QED
        BY <3>3, <4>1, <4>2
    <3> QED
      BY <3>1, <3>2, <3>3
  <2>4. Lists(h, S, k + 1)
    BY <2>3 DEF Lists
  <2> QED
    BY <2>4
<1>3. K = Nat
  <2> HIDE DEF K
  <2>1. K \in SUBSET Nat
    BY DEF K
  <2> QED
    BY <1>1, <1>2, <2>1, NaturalInduction
<1>4. Len(StreamOrder) \in Nat
  BY CheckpointerAssumption DEF CheckpointerAssumption
<1> QED
  BY <1>3, <1>4

(* The streams of S, each at least once and nothing else. *)
LEMMA ListedIsSet ==
  ASSUME NEW S \in SUBSET Stream
  PROVE  Listed(S) \in Seq(Stream) /\ ToSet(Listed(S)) = S
<1>1. PICK g : Lists(g, S, Len(StreamOrder)) /\ Listed(S) = g[Len(StreamOrder)]
  <2>1. PICK g : g = CHOOSE f : Lists(f, S, Len(StreamOrder))
    OBVIOUS
  <2>2. Lists(g, S, Len(StreamOrder))
    BY <2>1, ListsExist
  <2>3. Listed(S) = g[Len(StreamOrder)]
    BY <2>1 DEF Listed, Lists
  <2> QED
    BY <2>2, <2>3
<1>2. StreamOrder \in Seq(Stream) /\ Len(StreamOrder) \in Nat
  BY CheckpointerAssumption DEF CheckpointerAssumption
<1> DEFINE upTo(k) == {StreamOrder[i] : i \in 1..k}
           K == {k \in Nat : k =< Len(StreamOrder) =>
                   g[k] \in Seq(Stream) /\ ToSet(g[k]) = upTo(k) \cap S}
<1>3. 0 \in K
  BY <1>1, <1>2 DEF Lists, ToSet
<1>4. ASSUME NEW k \in K PROVE k + 1 \in K
  <2>1. SUFFICES ASSUME k + 1 =< Len(StreamOrder)
                 PROVE  /\ g[k + 1] \in Seq(Stream)
                        /\ ToSet(g[k + 1]) = upTo(k + 1) \cap S
    OBVIOUS
  <2>2. PICK q \in Seq(Stream) : q = g[k] /\ ToSet(q) = upTo(k) \cap S
    BY <1>2, <2>1
  <2>3. PICK s \in Stream : s = StreamOrder[k + 1]
    BY <1>2, <2>1
  <2>4. g[k + 1] = IF s \in S THEN Append(q, s) ELSE q
    <3>1. k + 1 \in 0..Len(StreamOrder) /\ k + 1 # 0 /\ (k + 1) - 1 = k
      BY <1>2, <2>1
    <3>2. g[k + 1] = IF StreamOrder[k + 1] \in S
                     THEN Append(g[(k + 1) - 1], StreamOrder[k + 1])
                     ELSE g[(k + 1) - 1]
      BY <1>1, <3>1 DEF Lists
    <3> QED
      BY <2>2, <2>3, <3>1, <3>2
  <2>5. upTo(k + 1) = upTo(k) \cup {s}
    <3>1. \A i \in 1..(k + 1) : i \in 1..k \/ i = k + 1
      OBVIOUS
    <3> QED
      BY <2>3, <3>1
  <2>6. Append(q, s) \in Seq(Stream) /\ ToSet(Append(q, s)) = ToSet(q) \cup {s}
    BY AppendAdds
  <2> QED
    BY <2>2, <2>4, <2>5, <2>6
<1>5. K = Nat
  <2> HIDE DEF K
  <2>1. K \in SUBSET Nat
    BY DEF K
  <2> QED
    BY <1>3, <1>4, <2>1, NaturalInduction
<1>6. /\ g[Len(StreamOrder)] \in Seq(Stream)
      /\ ToSet(g[Len(StreamOrder)]) = upTo(Len(StreamOrder)) \cap S
  <2>1. Len(StreamOrder) \in K
    BY <1>2, <1>5
  <2> QED
    BY <1>2, <2>1
<1>7. upTo(Len(StreamOrder)) = Stream
  BY <1>2 DEF Stream, ToSet
<1> QED
  BY <1>1, <1>6, <1>7

--------------------------------------------------------------------------------
(* Envelopes. *)

(* An entry is a stream and a place in it. *)
LEMMA Entries ==
  \A e \in Entry : /\ e = << e[1], e[2] >> /\ e[1] \in Stream
                  /\ e[2] \in 1..Len(Envelopes[e[1]])
                  /\ Carried(e).until \in Nat
<1>1. ASSUME NEW e \in Entry
      PROVE  /\ e = << e[1], e[2] >> /\ e[1] \in Stream
             /\ e[2] \in 1..Len(Envelopes[e[1]])
  BY DEF Entry
<1>2. ASSUME NEW e \in Entry PROVE Carried(e).until \in Nat
  <2>1. PICK q : q = Envelopes[e[1]] /\ q \in Seq(ToSet(q))
    BY <1>1, CheckpointerAssumption DEF CheckpointerAssumption
  <2>2. q[e[2]] \in ToSet(q)
    BY <1>1, <2>1 DEF ToSet
  <2> QED
    BY <1>1, <2>1, <2>2, CheckpointerAssumption DEF CheckpointerAssumption, Carried
<1> QED
  BY <1>1, <1>2

--------------------------------------------------------------------------------
(* Tasks. *)

LEMMA HeadAndTail ==
  ASSUME NEW S, NEW q \in Seq(S), q # << >>
  PROVE  /\ Tail(q) \in Seq(S) /\ Len(q) \in Nat \ {0}
         /\ Len(Tail(q)) = Len(q) - 1
         /\ ToSet(q) = {Head(q)} \cup ToSet(Tail(q))
<1>1. /\ Tail(q) \in Seq(S) /\ Len(q) \in Nat \ {0}
      /\ Len(Tail(q)) = Len(q) - 1
      /\ \A i \in 1..Len(Tail(q)) : Tail(q)[i] = q[i + 1]
  OBVIOUS
<1>2. ASSUME NEW x \in ToSet(q) PROVE x = Head(q) \/ x \in ToSet(Tail(q))
  <2>1. PICK i \in 1..Len(q) : x = q[i]
    BY <1>2 DEF ToSet
  <2>2. CASE i = 1
    BY <2>1, <2>2
  <2>3. CASE i # 1
    <3>1. i - 1 \in 1..Len(Tail(q)) /\ (i - 1) + 1 = i
      BY <1>1, <2>3
    <3>2. PICK rest \in Seq(S) : rest = Tail(q)
      BY <1>1
    <3>3. x = rest[i - 1] /\ i - 1 \in 1..Len(rest)
      BY <1>1, <2>1, <3>1, <3>2
    <3>4. x \in ToSet(rest)
      BY <3>3 DEF ToSet
    <3> QED
      BY <3>2, <3>4
  <2> QED
    BY <2>2, <2>3
<1>3. \A i \in 1..Len(Tail(q)) : i + 1 \in 1..Len(q)
  BY <1>1
<1>4. ToSet(Tail(q)) \subseteq ToSet(q) /\ Head(q) \in ToSet(q)
  BY <1>1, <1>3 DEF ToSet
<1> QED
  BY <1>1, <1>2, <1>4

LEMMA LongerThanOne ==
  ASSUME NEW S, NEW q \in Seq(S), Len(q) > 1
  PROVE  Tail(q) # << >>
<1>1. PICK n \in Nat : n = Len(q)
  OBVIOUS
<1>2. n > 1 /\ n - 1 # 0
  BY <1>1
<1>3. q # << >> /\ Len(Tail(q)) = n - 1
  BY <1>1, <1>2
<1>4. Len(<< >>) = 0
  OBVIOUS
<1> QED
  BY <1>2, <1>3, <1>4

(* A stream is done with when nothing of it is owed any more. *)
LEMMA ProceedIsSound ==
  ASSUME NEW r \in Working, Punctual(r), Covers(r), r.pc \notin {"list", "sweep"},
         r.job = "decay" => \A e \in Owed(r.now) : e[1] # Head(r.todo)
  PROVE  Sound(Proceed(r))
<1>1. /\ r.job \in Job /\ r.now \in Nat /\ r.now =< clock
      /\ r.todo \in Seq(Stream \cup {CheckpointStream}) /\ r.todo # << >>
  BY DEF Working, Punctual
<1>2. CASE Len(r.todo) > 1
  <2>1. PICK rest : rest = Tail(r.todo)
    OBVIOUS
  <2>2. /\ rest \in Seq(Stream \cup {CheckpointStream}) /\ rest # << >>
        /\ ToSet(r.todo) = {Head(r.todo)} \cup ToSet(rest)
    <3>1. /\ Tail(r.todo) \in Seq(Stream \cup {CheckpointStream})
          /\ ToSet(r.todo) = {Head(r.todo)} \cup ToSet(Tail(r.todo))
      BY <1>1, HeadAndTail
    <3>2. Tail(r.todo) # << >>
      BY <1>1, <1>2, LongerThanOne
    <3> QED
      BY <2>1, <3>1, <3>2
  <2>3. PICK q : q = Ready(r.job, rest, r.now, "head")
    OBVIOUS
  <2>4. /\ q \in Working /\ q.pc = "head" /\ q.job = r.job /\ q.todo = rest
        /\ q.now = r.now /\ q.twin = FALSE
    BY <1>1, <2>2, <2>3 DEF Ready, Working, Pc
  <2>5. Punctual(q) /\ Current(q)
    BY <1>1, <2>2, <2>4 DEF Punctual, Current, Pcs
  <2>6. Covers(q)
    BY <2>2, <2>4 DEF Covers, Pcs
  <2>7. Proceed(r) = q
    BY <1>2, <2>1, <2>3 DEF Proceed
  <2> QED
    BY <2>4, <2>5, <2>6, <2>7 DEF Sound
<1>3. CASE ~(Len(r.todo) > 1) /\ r.job = "decay"
  <2>1. ToSet(r.todo) = {Head(r.todo)}
    <3>1. Len(Tail(r.todo)) = 0 /\ Tail(r.todo) \in Seq(Stream \cup {CheckpointStream})
      <4>1. Tail(r.todo) \in Seq(Stream \cup {CheckpointStream})
        BY <1>1, HeadAndTail
      <4>2. PICK n \in Nat : n # 0 /\ n = Len(r.todo) /\ Len(Tail(r.todo)) = n - 1
        BY <1>1, HeadAndTail
      <4>3. n # 0 /\ ~(n > 1)
        BY <1>3, <4>2
      <4>4. n = 1
        BY <4>3
      <4> QED
        BY <4>1, <4>2, <4>4
    <3>2. ToSet(Tail(r.todo)) = {}
      BY <3>1 DEF ToSet
    <3> QED
      BY <1>1, <3>2, HeadAndTail
  <2>2. Owed(r.now) = {}
    BY <1>3, <2>1 DEF Covers
  <2>3. PICK q : q = Ready(r.job, << >>, r.now, "sweep")
    OBVIOUS
  <2>4. /\ q \in Working /\ q.pc = "sweep" /\ q.job = r.job /\ q.todo = << >>
        /\ q.now = r.now /\ q.twin = FALSE
    BY <1>1, <2>3 DEF Ready, Working, Pc
  <2>5. Punctual(q) /\ Current(q) /\ Covers(q)
    BY <1>1, <1>3, <2>2, <2>4 DEF Punctual, Current, Covers, Pcs
  <2>6. Proceed(r) = q
    BY <1>3, <2>3 DEF Proceed
  <2> QED
    BY <2>4, <2>5, <2>6 DEF Sound
<1>4. CASE ~(Len(r.todo) > 1) /\ r.job # "decay"
  BY <1>4 DEF Proceed, Sound
<1> QED
  BY <1>2, <1>3, <1>4

(* A decay run that fails ends; any other goes on to its next stream. *)
LEMMA FailIsSound ==
  ASSUME NEW r \in Working, Punctual(r), Covers(r), r.pc \notin {"list", "sweep"}
  PROVE  Sound(Fail(r))
BY ProceedIsSound DEF Fail, Sound

--------------------------------------------------------------------------------
(* Steps that leave the checkpoints alone. *)

(* A task stays sound when the log grows and nothing more is owed. *)
LEMMA StaysSound ==
  ASSUME LogTyped, NEW r, Sound(r), UNCHANGED attested,
         clock' \in Nat, clock =< clock',
         \A s \in Stream : len'[s] \in Nat /\ len[s] =< len'[s],
         r # Idle => Owed(r.now)' \subseteq Owed(r.now)
  PROVE  Sound(r)'
<1>1. CASE r = Idle
  BY <1>1 DEF Sound
<1>2. CASE r # Idle
  <2>1. r \in Working /\ Punctual(r) /\ Current(r) /\ Covers(r)
    BY <1>2 DEF Sound
  <2>2. Punctual(r)'
    <3>1. r.now \in Nat /\ clock \in Nat
      BY <2>1 DEF Working, LogTyped
    <3> QED
      BY <2>1, <3>1 DEF Punctual
  <2>3. Current(r)'
    <3>1. ASSUME r.pc \in Pcs, Head(r.todo) \in Stream
          PROVE  r.to =< len'[Head(r.todo)]
      <4>1. r.to =< len[Head(r.todo)] /\ r.to \in Nat /\ len[Head(r.todo)] \in Nat
        BY <2>1, <3>1 DEF Current, Working, LogTyped
      <4> QED
        BY <3>1, <4>1
    <3> QED
      BY <2>1, <3>1 DEF Current
  <2>4. Covers(r)'
    <3>1. PICK owed : owed = Owed(r.now)'
      OBVIOUS
    <3>2. owed \subseteq Owed(r.now)
      BY <1>2, <3>1
    <3> QED
      BY <2>1, <3>1, <3>2 DEF Covers
  <2> QED
    BY <2>1, <2>2, <2>3, <2>4 DEF Sound
<1> QED
  BY <1>1, <1>2

(* A step of one task that appends nothing. *)
LEMMA RefusedKeeps ==
  ASSUME CheckpointerInv, NEW t \in Task, NEW r, Sound(r), Become(t, r),
         UNCHANGED << len, late, attested, begun, stored, clock >>,
         calls' \in Nat, faults' \in Nat,
         refused' \subseteq {"chain-seq-duplicate", "chain-prev-hash-mismatch",
                             "checkpoint-range-discontinuous"}
  PROVE  CheckpointerInv'
<1>1. LogTyped'
  BY DEF CheckpointerInv, LogTyped, Become
<1>2. ErasedWasAttested'
  BY DEF CheckpointerInv, ErasedWasAttested
<1>3. task' = [u \in Task |-> IF u = t THEN r ELSE task[u]]
  BY DEF CheckpointerInv, LogTyped, Become
<1>4. \A u \in Task : Sound(task'[u])
  BY <1>3 DEF CheckpointerInv
<1>5. ASSUME NEW q, Sound(q) PROVE Sound(q)'
  BY <1>5 DEF Sound, Punctual, Current, Covers, Owed, Retained, Refs
<1>6. ASSUME NEW u \in Task PROVE Sound(task[u])'
  <2>1. PICK q : q = task'[u]
    OBVIOUS
  <2>2. Sound(q)'
    BY <1>4, <1>5, <2>1
  <2> QED
    BY <2>1, <2>2 DEF Sound, Punctual, Current, Covers, Owed, Retained, Refs
<1> QED
  BY <1>1, <1>2, <1>3, <1>6 DEF CheckpointerInv

(* A step of one task that writes nothing at all. *)
LEMMA BecomeKeeps ==
  ASSUME CheckpointerInv, NEW t \in Task, NEW r, Sound(r), Become(t, r),
         UNCHANGED << store, clock >>, calls' \in Nat, faults' \in Nat
  PROVE  CheckpointerInv'
<1>1. /\ refused' = refused /\ UNCHANGED << len, late, attested, begun, stored, clock >>
      /\ refused \subseteq {"chain-seq-duplicate", "chain-prev-hash-mismatch",
                            "checkpoint-range-discontinuous"}
  BY DEF CheckpointerInv, LogTyped, store
<1> QED
  BY <1>1, RefusedKeeps

(* An append adds nothing to what a run owes: what arrives after the run began *)
(* either is retained beyond it, with the bytes it names, or arrived late.       *)
LEMMA AppendOwes ==
  ASSUME LogTyped, NEW s \in Stream, AppendTo(s), NEW now \in Nat, now =< clock
  PROVE  Owed(now)' \subseteq Owed(now)
<1> DEFINE new == << s, len[s] + 1 >>
<1>1. /\ len \in [Stream -> Nat] /\ clock \in Nat
      /\ len' = [len EXCEPT ![s] = len[s] + 1] /\ UNCHANGED attested
      /\ len[s] < Len(Envelopes[s])
      /\ late' = IF Carried(new).until =< clock THEN late \cup {new} ELSE late
  BY DEF LogTyped, AppendTo
<1>2. new \in Entry
  <2>1. len[s] + 1 \in 1..Len(Envelopes[s])
    <3>1. Envelopes[s] \in Seq(ToSet(Envelopes[s]))
      BY CheckpointerAssumption DEF CheckpointerAssumption
    <3>2. len[s] \in Nat /\ Len(Envelopes[s]) \in Nat
      BY <1>1, <3>1
    <3> QED
      BY <1>1, <3>2
  <2> QED
    BY <2>1 DEF Entry
<1>3. \A p : Refs(p) \subseteq Refs(p)'
  <2>1. ASSUME NEW p, NEW e \in Refs(p) PROVE e \in Refs(p)'
    <3>1. e \in Entry /\ e[2] =< len[e[1]] /\ Carried(e).payload = p
      BY <2>1 DEF Refs
    <3>2. e[1] \in Stream /\ e[2] \in Nat /\ len[e[1]] \in Nat
      BY <1>1, <3>1, Entries
    <3>3. e[2] =< len'[e[1]]
      BY <1>1, <3>1, <3>2
    <3> QED
      BY <3>1, <3>3 DEF Refs
  <2> QED
    BY <2>1
<1>4. SUFFICES ASSUME NEW e \in Entry, e[2] =< len'[e[1]], e \notin late',
                      Carried(e).payload # None, ~Retained(Carried(e).payload, now)',
                      attested[e[1]] < e[2]
               PROVE  e \in Owed(now)
  BY <1>1 DEF Owed
<1>5. e # new
  <2>1. SUFFICES ASSUME e = new PROVE FALSE
    OBVIOUS
  <2>2. ~(Carried(e).until =< clock) /\ Carried(e).until \in Nat
    BY <1>1, <1>2, <1>4, <2>1, Entries
  <2>3. Carried(e).until > now
    BY <1>1, <2>2
  <2>4. e \in Refs(Carried(e).payload)'
    BY <1>4 DEF Refs
  <2> QED
    BY <1>4, <2>3, <2>4 DEF Retained
<1>6. e[2] =< len[e[1]]
  <2>1. e = << e[1], e[2] >> /\ e[1] \in Stream /\ e[2] \in Nat
    BY Entries
  <2>2. CASE e[1] = s
    <3>1. e[2] # len[s] + 1
      BY <1>5, <2>1, <2>2
    <3>2. e[2] =< len[s] + 1 /\ len[s] \in Nat
      BY <1>1, <1>4, <2>2
    <3> QED
      BY <2>1, <2>2, <3>1, <3>2
  <2>3. CASE e[1] # s
    BY <1>1, <1>4, <2>1, <2>3
  <2> QED
    BY <2>2, <2>3
<1>7. ~Retained(Carried(e).payload, now)
  <2>1. PICK p : p = Carried(e).payload
    OBVIOUS
  <2>2. Refs(p) \subseteq Refs(p)' /\ ~Retained(p, now)'
    BY <1>3, <1>4, <2>1
  <2>3. ~Retained(p, now)
    BY <2>2 DEF Retained
  <2> QED
    BY <2>1, <2>3
<1>8. e \notin late
  BY <1>1, <1>4
<1> QED
  BY <1>4, <1>6, <1>7, <1>8 DEF Owed

LEMMA AppendKeeps ==
  ASSUME CheckpointerInv, NEW s \in Stream, AppendTo(s)
  PROVE  CheckpointerInv'
<1> DEFINE new == << s, len[s] + 1 >>
<1>1. /\ LogTyped /\ ErasedWasAttested
      /\ len' = [len EXCEPT ![s] = len[s] + 1]
      /\ len[s] < Len(Envelopes[s]) /\ Len(Envelopes[s]) \in Nat
      /\ stored' = stored \cup ({Carried(new).payload} \ {None})
      /\ late' = IF Carried(new).until =< clock THEN late \cup {new} ELSE late
      /\ UNCHANGED << attested, begun, refused, clock, task, calls, faults >>
  <2>1. Envelopes[s] \in Seq(ToSet(Envelopes[s]))
    BY CheckpointerAssumption DEF CheckpointerAssumption
  <2> QED
    BY <2>1 DEF CheckpointerInv, AppendTo
<1>2. new \in Entry
  <2>1. len[s] + 1 \in 1..Len(Envelopes[s])
    BY <1>1 DEF LogTyped
  <2> QED
    BY <2>1 DEF Entry
<1>3. LogTyped'
  <2>1. len' \in [Stream -> Nat]
    BY <1>1 DEF LogTyped
  <2>2. ASSUME NEW x \in Stream
        PROVE  attested'[x] =< len'[x] /\ len'[x] =< Len(Envelopes[x])
    <3>1. attested[x] =< len[x] /\ len[x] =< Len(Envelopes[x])
      BY <1>1 DEF LogTyped
    <3>2. attested[x] \in Nat /\ len[x] \in Nat
      BY <1>1 DEF LogTyped
    <3> QED
      BY <1>1, <3>1, <3>2 DEF LogTyped
  <2>3. stored' \subseteq Payload /\ late' \subseteq Entry
    BY <1>1, <1>2 DEF LogTyped, Payload
  <2> QED
    BY <1>1, <2>1, <2>2, <2>3 DEF LogTyped
<1>4. ErasedWasAttested'
  <2>1. SUFFICES ASSUME NEW e \in Entry, e[2] =< len'[e[1]], e \notin late',
                        Carried(e).payload # None
                 PROVE  Carried(e).payload \in stored' \/ e[2] =< attested[e[1]]
    BY <1>1 DEF ErasedWasAttested
  <2>2. CASE e = new
    BY <1>1, <2>1, <2>2
  <2>3. CASE e # new
    <3>1. e = << e[1], e[2] >> /\ e[1] \in Stream /\ e[2] \in Nat
      BY Entries
    <3>2. e[2] =< len[e[1]]
      <4>1. CASE e[1] = s
        <5>1. e[2] # len[s] + 1 /\ e[2] =< len[s] + 1 /\ len[s] \in Nat
          BY <1>1, <2>1, <2>3, <3>1, <4>1 DEF LogTyped
        <5> QED
          BY <3>1, <4>1, <5>1
      <4>2. CASE e[1] # s
        BY <1>1, <2>1, <3>1, <4>2 DEF LogTyped
      <4> QED
        BY <4>1, <4>2
    <3>3. e \notin late
      BY <1>1, <2>1
    <3> QED
      BY <1>1, <2>1, <3>2, <3>3 DEF ErasedWasAttested
  <2> QED
    BY <2>2, <2>3
<1>5. ASSUME NEW t \in Task PROVE Sound(task[t])'
  <2>1. PICK r : r = task[t]
    OBVIOUS
  <2>2. Sound(r)
    BY <2>1 DEF CheckpointerInv
  <2>3. r # Idle => Owed(r.now)' \subseteq Owed(r.now)
    BY <1>1, <2>2, AppendOwes DEF Sound, Punctual, Working
  <2>4. \A x \in Stream : len'[x] \in Nat /\ len[x] =< len'[x]
    BY <1>1 DEF LogTyped
  <2>5. clock' \in Nat /\ clock =< clock'
    BY <1>1 DEF LogTyped
  <2>6. Sound(r)'
    BY <1>1, <2>2, <2>3, <2>4, <2>5, StaysSound
  <2>7. task'[t] = r
    BY <1>1, <2>1
  <2> QED
    BY <2>6, <2>7 DEF Sound, Punctual, Current, Covers, Owed, Retained, Refs
<1> QED
  BY <1>1, <1>3, <1>4, <1>5 DEF CheckpointerInv

LEMMA TickKeeps == CheckpointerInv /\ Tick => CheckpointerInv'
<1> SUFFICES ASSUME CheckpointerInv, Tick PROVE CheckpointerInv'
  OBVIOUS
<1>1. /\ LogTyped /\ clock' = clock + 1 /\ clock \in Nat
      /\ UNCHANGED << store, task, calls, faults >>
  BY DEF CheckpointerInv, Tick, LogTyped
<1>2. LogTyped' /\ ErasedWasAttested'
  BY <1>1 DEF CheckpointerInv, LogTyped, ErasedWasAttested, store
<1>3. ASSUME NEW t \in Task PROVE Sound(task[t])'
  <2>1. PICK r : r = task[t]
    OBVIOUS
  <2>2. Sound(r)
    BY <2>1 DEF CheckpointerInv
  <2>3. Owed(r.now)' = Owed(r.now)
    BY <1>1 DEF Owed, Retained, Refs, store
  <2>4. \A x \in Stream : len'[x] \in Nat /\ len[x] =< len'[x]
    BY <1>1 DEF LogTyped, store
  <2>5. clock' \in Nat /\ clock =< clock' /\ UNCHANGED attested
    BY <1>1 DEF store
  <2>6. Sound(r)'
    BY <1>1, <2>2, <2>3, <2>4, <2>5, StaysSound
  <2>7. task'[t] = r
    BY <1>1, <2>1
  <2> QED
    BY <2>6, <2>7 DEF Sound, Punctual, Current, Covers, Owed, Retained, Refs
<1> QED
  BY <1>1, <1>2, <1>3 DEF CheckpointerInv

(* The kernel stopped: no task is anywhere. *)
LEMMA RestartKeeps == CheckpointerInv /\ Restart => CheckpointerInv'
<1> SUFFICES ASSUME CheckpointerInv, Restart PROVE CheckpointerInv'
  OBVIOUS
<1>1. /\ LogTyped /\ faults' = faults + 1
      /\ task' = [t \in Task |-> Idle] /\ UNCHANGED << store, clock, calls >>
  BY DEF CheckpointerInv, Restart
<1>2. LogTyped' /\ ErasedWasAttested'
  BY <1>1 DEF CheckpointerInv, LogTyped, ErasedWasAttested, store
<1>3. \A t \in Task : Sound(task[t])'
  BY <1>1 DEF Sound
<1> QED
  BY <1>1, <1>2, <1>3 DEF CheckpointerInv

--------------------------------------------------------------------------------
(* A task at work. *)

LEMMA WakeKeeps ==
  ASSUME CheckpointerInv, NEW t \in Task, Wake(t)
  PROVE  CheckpointerInv'
<1>1. clock \in Nat /\ calls' \in Nat /\ faults' \in Nat
      /\ UNCHANGED << store, clock >>
  <2>1. clock \in Nat /\ calls \in Nat /\ faults \in Nat
    BY DEF CheckpointerInv, LogTyped
  <2>2. calls' = calls \/ calls' = calls + 1
    BY DEF Wake
  <2>3. UNCHANGED << store, clock, faults >>
    BY DEF Wake
  <2> QED
    BY <2>1, <2>2, <2>3
<1>2. \A job \in Duty[t] : job \in Job
  BY CheckpointerAssumption DEF CheckpointerAssumption
<1>3. PICK job \in Job :
        \/ /\ job = "attest one"
           /\ \E s \in Stream \cup {CheckpointStream} :
                Become(t, Ready(job, << s >>, 0, "head"))
        \/ job = "attest" /\ Become(t, Ready(job, << >>, 0, "list"))
        \/ job = "decay" /\ Become(t, Ready(job, << >>, clock, "list"))
  BY <1>2 DEF Wake
<1>4. CASE job = "attest one"
  <2>1. PICK s \in Stream \cup {CheckpointStream} :
          Become(t, Ready(job, << s >>, 0, "head"))
    BY <1>3, <1>4
  <2>2. PICK r : r = Ready(job, << s >>, 0, "head")
    OBVIOUS
  <2>3. PICK todo \in Seq(Stream \cup {CheckpointStream}) : todo = << s >> /\ todo # << >>
    <3>1. PICK S : S = Stream \cup {CheckpointStream}
      OBVIOUS
    <3>2. << s >> \in Seq(S) /\ << s >> # << >>
      BY <3>1
    <3> QED
      BY <3>1, <3>2
  <2>4. /\ r \in Working /\ r.pc = "head" /\ r.job = job /\ r.now = 0
        /\ r.todo = todo /\ ~r.twin
    BY <2>2, <2>3 DEF Ready, Working, Pc
  <2>5. Sound(r)
    <3>1. Punctual(r)
      BY <1>1, <2>3, <2>4 DEF Punctual
    <3>2. Current(r) /\ Covers(r)
      BY <1>4, <2>4 DEF Current, Covers, Pcs
    <3> QED
      BY <2>4, <3>1, <3>2 DEF Sound
  <2> QED
    BY <1>1, <2>1, <2>2, <2>5, BecomeKeeps
<1>5. CASE job = "attest"
  <2>1. PICK r : r = Ready(job, << >>, 0, "list")
    OBVIOUS
  <2>2. Sound(r)
    BY <1>1, <1>5, <2>1
    DEF Ready, Working, Pc, Sound, Punctual, Current, Covers, Pcs
  <2> QED
    BY <1>1, <1>3, <1>5, <2>1, <2>2, BecomeKeeps
<1>6. CASE job = "decay"
  <2>1. PICK r : r = Ready(job, << >>, clock, "list")
    OBVIOUS
  <2>2. Sound(r)
    BY <1>1, <1>6, <2>1
    DEF Ready, Working, Pc, Sound, Punctual, Current, Covers, Pcs
  <2> QED
    BY <1>1, <1>3, <1>6, <2>1, <2>2, BecomeKeeps
<1> QED
  BY <1>3, <1>4, <1>5, <1>6

(* What a decay run lists holds all it owes. *)
LEMMA ListKeeps ==
  ASSUME CheckpointerInv, NEW t \in Task, List(t)
  PROVE  CheckpointerInv'
<1>1. PICK r : r = task[t]
  OBVIOUS
<1>2. r.pc = "list" /\ r \in Working /\ Punctual(r) /\ Current(r)
  BY <1>1 DEF CheckpointerInv, List, At, Sound, Idle
<1>3. LogTyped /\ calls' \in Nat /\ faults' \in Nat /\ UNCHANGED << store, clock >>
  BY DEF CheckpointerInv, LogTyped, List
<1>4. PICK todo : todo = IF r.job = "decay" THEN Affected(r.now)
                         ELSE Append(Holding, CheckpointStream)
  OBVIOUS
<1>5. PICK q : q = [r EXCEPT !.todo = todo,
                             !.pc = IF todo = << >> THEN "sweep" ELSE "head"]
  OBVIOUS
<1>6. Become(t, q)
  BY <1>1, <1>4, <1>5 DEF List
<1>7. Holding \in Seq(Stream) /\ Affected(r.now) \in Seq(Stream)
  <2>1. {e[1] : e \in UNION {Refs(p) : p \in Expired(r.now)}} \in SUBSET Stream
    BY Entries DEF Refs
  <2> QED
    BY <2>1, ListedIsSet DEF Holding, Affected
<1>8. /\ todo \in Seq(Stream \cup {CheckpointStream})
      /\ todo = << >> => r.job = "decay"
  <2>1. Append(Holding, CheckpointStream) # << >>
    BY <1>7
  <2> QED
    BY <1>4, <1>7, <2>1
<1>9. /\ q \in Working /\ q.todo = todo /\ q.now = r.now /\ q.job = r.job
      /\ q.pc = IF todo = << >> THEN "sweep" ELSE "head"
      /\ q.twin = r.twin
  BY <1>2, <1>5, <1>8 DEF Working, Pc
<1>10. Punctual(q) /\ Current(q)
  BY <1>2, <1>8, <1>9 DEF Punctual, Current, Pcs
<1>11. Covers(q)
  <2>1. SUFFICES ASSUME r.job = "decay", NEW e \in Owed(r.now)
                 PROVE  e[1] \in ToSet(todo)
    BY <1>9 DEF Covers, Pcs
  <2>2. PICK p : p = Carried(e).payload
    OBVIOUS
  <2>3. /\ e \in Refs(p) /\ p # None /\ ~Retained(p, r.now)
        /\ e \in Entry /\ e[2] =< len[e[1]] /\ e \notin late /\ attested[e[1]] < e[2]
    BY <2>1, <2>2 DEF Owed, Refs
  <2>4. p \in stored
    <3>1. e[2] \in Nat /\ attested[e[1]] \in Nat
      BY <1>3, <2>3, Entries DEF LogTyped
    <3> QED
      BY <2>2, <2>3, <3>1 DEF CheckpointerInv, ErasedWasAttested
  <2>5. PICK S : S = {x[1] : x \in UNION {Refs(y) : y \in Expired(r.now)}}
    OBVIOUS
  <2>6. e[1] \in S
    BY <2>3, <2>4, <2>5 DEF Expired
  <2>7. S \in SUBSET Stream
    BY <2>5, Entries DEF Refs
  <2>8. ToSet(Listed(S)) = S /\ todo = Listed(S)
    BY <1>4, <2>1, <2>5, <2>7, ListedIsSet DEF Affected
  <2> QED
    BY <2>6, <2>8
<1> QED
  BY <1>3, <1>6, <1>9, <1>10, <1>11, BecomeKeeps DEF Sound

(* A task between listing and sweep has a stream in hand. *)
LEMMA AtWork ==
  ASSUME CheckpointerInv, NEW t \in Task, task[t].pc \notin {"idle", "list", "sweep"}
  PROVE  /\ task[t] \in Working /\ Punctual(task[t]) /\ Current(task[t])
         /\ Covers(task[t]) /\ task[t].todo # << >>
         /\ Subject(t) \in Stream \cup {CheckpointStream}
         /\ Subject(t) = Head(task[t].todo)
<1>1. /\ task[t] \in Working /\ Punctual(task[t]) /\ Current(task[t])
      /\ Covers(task[t])
  BY DEF CheckpointerInv, Sound, Idle
<1>2. PICK todo \in Seq(Stream \cup {CheckpointStream}) : todo = task[t].todo
  BY <1>1 DEF Working
<1>3. todo # << >>
  BY <1>1, <1>2 DEF Punctual
<1>4. Head(todo) \in Stream \cup {CheckpointStream}
  BY <1>3
<1> QED
  BY <1>1, <1>2, <1>3, <1>4 DEF Subject

(* A stream whose head is not there holds nothing owed. *)
LEMMA ReadHeadKeeps ==
  ASSUME CheckpointerInv, NEW t \in Task, ReadHead(t)
  PROVE  CheckpointerInv'
<1>1. PICK r : r = task[t]
  OBVIOUS
<1>2. r.pc = "head"
  BY <1>1 DEF ReadHead, At
<1>3. /\ r \in Working /\ Punctual(r) /\ Current(r) /\ Covers(r) /\ r.todo # << >>
      /\ Head(r.todo) \in Stream \cup {CheckpointStream}
      /\ Subject(t) = Head(r.todo)
  BY <1>1, <1>2, AtWork
<1>4. LogTyped /\ calls' \in Nat /\ faults' \in Nat /\ UNCHANGED << store, clock >>
  BY DEF CheckpointerInv, LogTyped, ReadHead
<1>5. PICK size : size = IF Subject(t) # CheckpointStream THEN len[Subject(t)]
                         ELSE IF begun THEN 1 ELSE 0
  OBVIOUS
<1>6. /\ size \in Nat
      /\ Subject(t) \in Stream => size = len[Subject(t)]
  BY <1>3, <1>4, <1>5, CheckpointerAssumption DEF LogTyped, CheckpointerAssumption
<1>7. CASE size = 0
  <2>1. Become(t, Proceed(r))
    BY <1>1, <1>5, <1>7 DEF ReadHead
  <2>2. ASSUME NEW e \in Owed(r.now) PROVE e[1] # Head(r.todo)
    <3>1. e[1] \in Stream /\ e[2] \in 1..Len(Envelopes[e[1]]) /\ e[2] =< len[e[1]]
      BY <2>2, Entries DEF Owed
    <3>2. len[e[1]] # 0
      BY <1>4, <3>1 DEF LogTyped
    <3> QED
      BY <1>3, <1>6, <1>7, <3>1, <3>2
  <2>3. Sound(Proceed(r))
    BY <1>2, <1>3, <2>2, ProceedIsSound
  <2> QED
    BY <1>4, <2>1, <2>3, BecomeKeeps
<1>8. CASE size # 0
  <2>1. PICK q : q = [r EXCEPT !.to = size, !.range = TRUE, !.pc = "range"]
    OBVIOUS
  <2>2. Become(t, q)
    BY <1>1, <1>5, <1>8, <2>1 DEF ReadHead
  <2>3. /\ q \in Working /\ q.todo = r.todo /\ q.now = r.now /\ q.job = r.job
        /\ q.pc = "range" /\ q.to = size /\ q.twin = r.twin
    BY <1>3, <1>6, <2>1 DEF Working, Pc
  <2>4. Punctual(q)
    BY <1>2, <1>3, <2>3 DEF Punctual
  <2>5. Current(q)
    BY <1>2, <1>3, <1>4, <1>6, <2>3 DEF Current, Pcs, LogTyped
  <2>6. Covers(q)
    <3>1. \A e \in Owed(r.now) : e[1] \in Stream /\ e[2] =< len[e[1]]
      BY Entries DEF Owed
    <3> QED
      BY <1>2, <1>3, <1>6, <2>3, <3>1 DEF Covers, Pcs
  <2> QED
    BY <1>4, <2>2, <2>3, <2>4, <2>5, <2>6, BecomeKeeps DEF Sound
<1> QED
  BY <1>7, <1>8

(* A head that is covered already leaves nothing of its stream owed. *)
LEMMA ReadRangeKeeps ==
  ASSUME CheckpointerInv, NEW t \in Task, ReadRange(t)
  PROVE  CheckpointerInv'
<1>1. PICK r : r = task[t]
  OBVIOUS
<1>2. r.pc = "range"
  BY <1>1 DEF ReadRange, At
<1>3. /\ r \in Working /\ Punctual(r) /\ Current(r) /\ Covers(r) /\ r.todo # << >>
      /\ Head(r.todo) \in Stream \cup {CheckpointStream}
      /\ Subject(t) = Head(r.todo)
  BY <1>1, <1>2, AtWork
<1>4. LogTyped /\ calls' \in Nat /\ faults' \in Nat /\ UNCHANGED << store, clock >>
  BY DEF CheckpointerInv, LogTyped, ReadRange
<1>5. \A e \in Owed(r.now) : /\ e[1] \in Stream /\ e[2] \in Nat
                             /\ attested[e[1]] \in Nat /\ attested[e[1]] < e[2]
  BY <1>4, Entries DEF Owed, LogTyped
<1>6. CheckpointStream \notin Stream
  BY CheckpointerAssumption DEF CheckpointerAssumption
<1>7. ASSUME Become(t, Proceed(r)),
             Subject(t) \in Stream => attested[Subject(t)] >= r.to
      PROVE  CheckpointerInv'
  <2>1. ASSUME r.job = "decay", NEW e \in Owed(r.now) PROVE e[1] # Head(r.todo)
    <3>1. SUFFICES ASSUME e[1] = Head(r.todo) PROVE FALSE
      OBVIOUS
    <3>2. e[2] =< r.to /\ r.to \in Nat
      BY <1>2, <1>3, <2>1, <3>1 DEF Covers, Pcs, Working
    <3> QED
      BY <1>3, <1>5, <1>7, <2>1, <3>1, <3>2
  <2>2. Sound(Proceed(r))
    BY <1>2, <1>3, <2>1, ProceedIsSound
  <2> QED
    BY <1>4, <1>7, <2>2, BecomeKeeps
<1>8. ASSUME NEW n \in Nat, Become(t, [r EXCEPT !.from = n, !.range = TRUE, !.pc = "prev"]),
             Subject(t) \in Stream => attested[Subject(t)] =< r.to
      PROVE  CheckpointerInv'
  <2>1. PICK q : q = [r EXCEPT !.from = n, !.range = TRUE, !.pc = "prev"]
    OBVIOUS
  <2>2. /\ q \in Working /\ q.todo = r.todo /\ q.now = r.now /\ q.job = r.job
        /\ q.pc = "prev" /\ q.to = r.to /\ q.twin = r.twin
    BY <1>3, <2>1 DEF Working, Pc
  <2>3. Punctual(q)
    BY <1>2, <1>3, <2>2 DEF Punctual
  <2>4. Current(q)
    BY <1>2, <1>3, <1>8, <2>2 DEF Current, Pcs
  <2>5. Covers(q)
    BY <1>2, <1>3, <2>2 DEF Covers, Pcs
  <2> QED
    BY <1>4, <1>8, <2>1, <2>2, <2>3, <2>4, <2>5, BecomeKeeps DEF Sound
<1>9. CASE Subject(t) = CheckpointStream
  <2>1. \/ Become(t, [r EXCEPT !.from = 1, !.range = TRUE, !.pc = "prev"])
        \/ Become(t, Proceed(r))
    BY <1>1, <1>9 DEF ReadRange
  <2> QED
    BY <1>6, <1>7, <1>8, <1>9, <2>1
<1>10. CASE Subject(t) # CheckpointStream
  <2>1. attested[Subject(t)] \in Nat /\ r.to \in Nat
    BY <1>3, <1>4, <1>10 DEF LogTyped, Working
  <2>2. CASE attested[Subject(t)] >= r.to
    <3>1. Become(t, Proceed(r))
      BY <1>1, <1>10, <2>2 DEF ReadRange
    <3> QED
      BY <1>7, <2>2, <3>1
  <2>3. CASE ~(attested[Subject(t)] >= r.to)
    <3>1. PICK n \in Nat : n = attested[Subject(t)] + 1
      BY <2>1
    <3>2. Become(t, [r EXCEPT !.from = n, !.range = TRUE, !.pc = "prev"])
      BY <1>1, <1>10, <2>3, <3>1 DEF ReadRange
    <3>3. attested[Subject(t)] =< r.to
      BY <2>1, <2>3
    <3> QED
      BY <1>8, <3>2, <3>3
  <2> QED
    BY <2>2, <2>3
<1> QED
  BY <1>9, <1>10

LEMMA ReadPrevKeeps ==
  ASSUME CheckpointerInv, NEW t \in Task, ReadPrev(t) \/ ReadSeq(t)
  PROVE  CheckpointerInv'
<1>1. PICK r : r = task[t]
  OBVIOUS
<1>2. /\ r.pc \in {"prev", "seq"}
      /\ \/ Become(t, [r EXCEPT !.prev = TRUE, !.pc = "seq"])
         \/ Become(t, [r EXCEPT !.seq = TRUE, !.pc = "submit"])
  BY <1>1 DEF ReadPrev, ReadSeq, At
<1>3. /\ r \in Working /\ Punctual(r) /\ Current(r) /\ Covers(r) /\ r.todo # << >>
  BY <1>1, <1>2, AtWork
<1>4. LogTyped /\ calls' \in Nat /\ faults' \in Nat /\ UNCHANGED << store, clock >>
  BY DEF CheckpointerInv, LogTyped, ReadPrev, ReadSeq
<1>5. PICK q : /\ Become(t, q)
              /\ \/ q = [r EXCEPT !.prev = TRUE, !.pc = "seq"]
                 \/ q = [r EXCEPT !.seq = TRUE, !.pc = "submit"]
  BY <1>2
<1>6. /\ q \in Working /\ q.todo = r.todo /\ q.now = r.now /\ q.job = r.job
      /\ q.pc \in {"seq", "submit"} /\ q.to = r.to /\ q.twin = r.twin
      /\ q.range = r.range
  BY <1>3, <1>5 DEF Working, Pc
<1>7. Punctual(q)
  BY <1>2, <1>3, <1>6 DEF Punctual
<1>8. Current(q)
  BY <1>2, <1>3, <1>6 DEF Current, Pcs
<1>9. Covers(q)
  BY <1>2, <1>3, <1>6 DEF Covers, Pcs
<1> QED
  BY <1>4, <1>5, <1>6, <1>7, <1>8, <1>9, BecomeKeeps DEF Sound

(* At the sweep nothing is owed, so what goes was attested. *)
LEMMA SweepKeeps ==
  ASSUME CheckpointerInv, NEW t \in Task, Sweep(t)
  PROVE  CheckpointerInv'
<1>1. PICK r : r = task[t]
  OBVIOUS
<1>2. /\ r.pc = "sweep" /\ r.job = "decay" /\ r.todo = << >> /\ Covers(r)
  BY <1>1 DEF CheckpointerInv, Sweep, At, Sound, Idle, Punctual
<1>3. /\ LogTyped /\ stored' = stored \ Expired(r.now) /\ Become(t, Idle)
      /\ UNCHANGED << len, late, attested, begun, refused, clock, calls, faults >>
  BY <1>1 DEF CheckpointerInv, Sweep
<1>4. LogTyped'
  BY <1>3 DEF LogTyped, Become
<1>5. Owed(r.now) = {}
  BY <1>2 DEF Covers, ToSet
<1>6. ErasedWasAttested'
  <2>1. SUFFICES ASSUME NEW e \in Entry, e[2] =< len[e[1]], e \notin late,
                        Carried(e).payload # None, Carried(e).payload \notin stored'
                 PROVE  e[2] =< attested[e[1]]
    BY <1>3 DEF ErasedWasAttested
  <2>2. CASE Carried(e).payload \notin stored
    BY <2>1, <2>2 DEF CheckpointerInv, ErasedWasAttested
  <2>3. CASE Carried(e).payload \in stored
    <3>1. ~Retained(Carried(e).payload, r.now)
      BY <1>3, <2>1, <2>3 DEF Expired
    <3>2. ~(attested[e[1]] < e[2])
      BY <1>5, <2>1, <3>1 DEF Owed
    <3>3. attested[e[1]] \in Nat /\ e[2] \in Nat
      BY <1>3, Entries DEF LogTyped
    <3> QED
      BY <3>2, <3>3
  <2> QED
    BY <2>2, <2>3
<1>7. task' = [u \in Task |-> IF u = t THEN Idle ELSE task[u]]
  BY <1>3 DEF CheckpointerInv, Become
<1>8. ASSUME NEW q, Sound(q) PROVE Sound(q)'
  BY <1>3, <1>8 DEF Sound, Punctual, Current, Covers, Owed, Retained, Refs
<1>9. ASSUME NEW u \in Task PROVE Sound(task[u])'
  <2>1. PICK q : q = task'[u]
    OBVIOUS
  <2>2. Sound(q)
    BY <1>7, <2>1 DEF CheckpointerInv, Sound
  <2>3. Sound(q)'
    BY <1>8, <2>2
  <2> QED
    BY <2>1, <2>3 DEF Sound, Punctual, Current, Covers, Owed, Retained, Refs
<1> QED
  BY <1>4, <1>6, <1>7, <1>9 DEF CheckpointerInv

(* A run that fails or is dropped. *)
LEMMA EndKeeps ==
  ASSUME CheckpointerInv, NEW t \in Task, Unavailable(t) \/ Cancel(t)
  PROVE  CheckpointerInv'
<1>1. LogTyped /\ calls' \in Nat /\ faults' \in Nat /\ UNCHANGED << store, clock >>
  <2>1. LogTyped /\ calls \in Nat /\ faults \in Nat
    BY DEF CheckpointerInv, LogTyped
  <2> QED
    BY <2>1 DEF Unavailable, Cancel
<1>2. CASE Become(t, Idle)
  BY <1>1, <1>2, BecomeKeeps DEF Sound
<1>3. CASE Become(t, Fail(task[t])) /\ task[t].pc \notin {"idle", "list", "sweep"}
  <2>1. Sound(Fail(task[t]))
    BY <1>3, AtWork, FailIsSound
  <2> QED
    BY <1>1, <1>3, <2>1, BecomeKeeps
<1> QED
  BY <1>2, <1>3 DEF Unavailable, Cancel, At

--------------------------------------------------------------------------------
(* A checkpoint is submitted. *)

ProceedsSoundly ==
  \A r \in Working : \A next :
    /\ next = Proceed(r)
    /\ Punctual(r) /\ Covers(r) /\ r.pc \notin {"list", "sweep"}
    /\ r.job = "decay" => \A e \in Owed(r.now) : e[1] # Head(r.todo)
    => Sound(next)

LEMMA ProceedsNow == ProceedsSoundly
BY ProceedIsSound DEF ProceedsSoundly

(* So it does in the next state. *)
LEMMA ProceedsNext == ProceedsSoundly'
BY ProceedsNow, PTL

(* What being overtaken changes of what a task has read. *)
LEMMA OutdatedIs ==
  ASSUME NEW q \in Working, NEW r, NEW same, q.pc \in Pcs,
         NEW x, x = Outdated(q, r, same)
  PROVE  /\ x \in Working /\ x.pc = q.pc /\ x.job = q.job /\ x.todo = q.todo
         /\ x.now = q.now /\ x.to = q.to
         /\ x.range => q.range /\ q.todo[1] # r.todo[1]
         /\ x.twin => q.twin \/ same
<1>1. x = [q EXCEPT !.range = q.range /\ q.todo[1] # r.todo[1],
                    !.prev = q.prev /\ q.pc \notin {"seq", "submit"},
                    !.seq = q.seq /\ q.pc # "submit",
                    !.twin = q.twin \/ same]
  BY DEF Outdated, Pcs
<1> QED
  BY <1>1 DEF Working

(* What an appended checkpoint does to the log. *)
LEMMA AcceptAttests ==
  ASSUME CheckpointerInv, NEW t \in Task, At(t, "submit"), Accept(t),
         task[t].range, UNCHANGED << len, late, stored, clock, calls, faults >>
  PROVE  /\ LogTyped' /\ ErasedWasAttested'
         /\ \A x \in Stream :
              /\ attested'[x] \in Nat /\ attested[x] =< attested'[x]
              /\ attested'[x] = IF x = Subject(t) THEN task[t].to ELSE attested[x]
         /\ \A now : Owed(now)' \subseteq Owed(now)
<1>1. PICK r : r = task[t]
  OBVIOUS
<1>2. /\ r.pc = "submit" /\ r \in Working /\ Current(r)
      /\ Subject(t) \in Stream \cup {CheckpointStream} /\ Subject(t) = Head(r.todo)
  BY <1>1, AtWork DEF At
<1>3. LogTyped /\ r.range /\ r.to \in Nat
  BY <1>1, <1>2 DEF CheckpointerInv, Working
<1>4. CheckpointStream \notin Stream
  BY CheckpointerAssumption DEF CheckpointerAssumption
<1>5. Subject(t) \in Stream => attested[Subject(t)] =< r.to /\ r.to =< len[Subject(t)]
  BY <1>2, <1>3 DEF Current, Pcs
<1>6. attested' = [x \in Stream |-> IF x = Subject(t) THEN r.to ELSE attested[x]]
  BY <1>1, <1>2, <1>3, <1>4 DEF Accept, LogTyped
<1>7. ASSUME NEW x \in Stream
      PROVE  /\ attested'[x] \in Nat /\ attested[x] =< attested'[x]
             /\ attested'[x] =< len[x]
             /\ attested'[x] = IF x = Subject(t) THEN r.to ELSE attested[x]
  <2>1. attested[x] \in Nat /\ attested[x] =< len[x]
    BY <1>3 DEF LogTyped
  <2> QED
    BY <1>3, <1>5, <1>6, <2>1
<1>8. LogTyped'
  <2>1. /\ begun' \in BOOLEAN /\ DOMAIN task' = Task
        /\ UNCHANGED << len, late, stored, clock, calls, faults, refused >>
    BY DEF Accept
  <2>2. attested' \in [Stream -> Nat]
    BY <1>6, <1>7
  <2> QED
    BY <1>3, <1>7, <2>1, <2>2 DEF LogTyped
<1>9. ErasedWasAttested'
  <2>1. ASSUME NEW e \in Entry, e[2] =< attested[e[1]] PROVE e[2] =< attested'[e[1]]
    <3>1. e[1] \in Stream /\ e[2] \in Nat /\ attested[e[1]] \in Nat
      BY <1>3, Entries DEF LogTyped
    <3> QED
      BY <1>7, <2>1, <3>1
  <2> QED
    BY <2>1 DEF CheckpointerInv, ErasedWasAttested
<1>10. ASSUME NEW now, NEW e \in Owed(now)' PROVE e \in Owed(now)
  <2>1. /\ e \in Entry /\ e[2] =< len[e[1]] /\ e \notin late
        /\ Carried(e).payload # None /\ ~Retained(Carried(e).payload, now)
        /\ attested'[e[1]] < e[2]
    BY <1>10 DEF Owed, Retained, Refs
  <2>2. e[1] \in Stream /\ e[2] \in Nat /\ attested[e[1]] \in Nat
    BY <1>3, <2>1, Entries DEF LogTyped
  <2>3. attested[e[1]] < e[2]
    BY <1>7, <2>1, <2>2
  <2> QED
    BY <2>1, <2>3 DEF Owed
<1> QED
  BY <1>1, <1>7, <1>8, <1>9, <1>10

(* A run that covers what it owes covers less. *)
LEMMA CoversNext ==
  ASSUME NEW r, Covers(r), \A now : Owed(now)' \subseteq Owed(now)
  PROVE  Covers(r)'
<1>1. PICK owed : owed = Owed(r.now)'
  OBVIOUS
<1>2. owed \subseteq Owed(r.now)
  BY <1>1
<1> QED
  BY <1>1, <1>2 DEF Covers

(* The task whose checkpoint it is goes on. *)
LEMMA AcceptProceeds ==
  ASSUME CheckpointerInv, NEW t \in Task, At(t, "submit"), Accept(t),
         task[t].range, UNCHANGED << len, late, stored, clock, calls, faults >>,
         NEW x, x = Proceed(task[t])
  PROVE  Sound(x)'
<1>1. PICK r : r = task[t]
  OBVIOUS
<1>2. /\ r.pc = "submit" /\ r \in Working /\ Punctual(r) /\ Covers(r)
      /\ Subject(t) \in Stream \cup {CheckpointStream} /\ Subject(t) = Head(r.todo)
  BY <1>1, AtWork DEF At
<1>3. /\ LogTyped'
      /\ \A s \in Stream : attested'[s] = IF s = Subject(t) THEN r.to ELSE attested[s]
      /\ \A now : Owed(now)' \subseteq Owed(now)
  BY <1>1, AcceptAttests
<1>4. Punctual(r)' /\ Covers(r)'
  BY <1>2, <1>3, CoversNext DEF Punctual
<1>5. ASSUME r.job = "decay", NEW e \in Owed(r.now)' PROVE e[1] # Head(r.todo)
  <2>1. SUFFICES ASSUME e[1] = Head(r.todo) PROVE FALSE
    OBVIOUS
  <2>2. e \in Owed(r.now) /\ e \in Entry /\ attested'[e[1]] < e[2]
    BY <1>3, <1>5 DEF Owed
  <2>3. e[2] =< r.to /\ r.to \in Nat
    BY <1>2, <1>5, <2>1, <2>2 DEF Covers, Pcs, Working
  <2>4. e[1] \in Stream /\ e[2] \in Nat
    BY <2>2, Entries
  <2>5. attested'[e[1]] = r.to
    BY <1>2, <1>3, <2>1, <2>4
  <2> QED
    BY <2>2, <2>3, <2>4, <2>5
<1> QED
  BY <1>1, <1>2, <1>4, <1>5, ProceedsNext DEF ProceedsSoundly

(* Another learns, when it submits in turn, that it was overtaken. *)
LEMMA AcceptOutdates ==
  ASSUME CheckpointerInv, NEW t \in Task, At(t, "submit"), Accept(t),
         task[t].range, UNCHANGED << len, late, stored, clock, calls, faults >>,
         NEW u \in Task, NEW same,
         same => SameContent(task[u], task[t]),
         NEW x, x = Outdated(task[u], task[t], same)
  PROVE  Sound(x)'
<1>1. PICK r : r = task[t]
  OBVIOUS
<1>2. PICK q : q = task[u]
  OBVIOUS
<1>3. /\ r.pc = "submit" /\ r \in Working /\ r.todo # << >>
      /\ Subject(t) = Head(r.todo)
  BY <1>1, AtWork DEF At
<1>4. /\ LogTyped /\ LogTyped'
      /\ \A s \in Stream :
           /\ attested'[s] \in Nat /\ attested[s] =< attested'[s]
           /\ attested'[s] = IF s = Subject(t) THEN r.to ELSE attested[s]
      /\ \A now : Owed(now)' \subseteq Owed(now)
  BY <1>1, AcceptAttests DEF CheckpointerInv
<1>5. CASE q.pc = "idle"
  <2>1. x = Idle
    BY <1>2, <1>5 DEF CheckpointerInv, Sound, Working, Pc, Outdated
  <2> QED
    BY <2>1 DEF Sound
<1>6. CASE q.pc \in {"list", "head", "sweep"}
  <2>1. x = q /\ q \in Working /\ Punctual(q) /\ Current(q) /\ Covers(q)
    BY <1>2, <1>6 DEF CheckpointerInv, Sound, Idle, Outdated
  <2>2. Punctual(q)' /\ Current(q)' /\ Covers(q)'
    BY <1>4, <1>6, <2>1, CoversNext DEF Punctual, Current, Pcs
  <2> QED
    BY <2>1, <2>2 DEF Sound
<1>7. CASE q.pc \in Pcs
  <2>1. /\ q \in Working /\ Punctual(q) /\ Current(q) /\ Covers(q) /\ q.todo # << >>
    BY <1>2, <1>7, AtWork DEF Pcs
  <2>2. /\ x \in Working /\ x.pc = q.pc /\ x.job = q.job /\ x.todo = q.todo
        /\ x.now = q.now /\ x.to = q.to
        /\ x.range => q.range /\ q.todo[1] # r.todo[1]
        /\ x.twin => q.twin \/ same
    BY <1>1, <1>2, <1>7, <2>1, OutdatedIs
  <2>3. Head(q.todo) = q.todo[1] /\ Head(r.todo) = r.todo[1]
    BY <1>3, <2>1
  <2>4. same => q.pc = "submit" /\ q.todo[1] = r.todo[1] /\ q.to = r.to
    BY <1>1, <1>2 DEF SameContent
  <2>5. Punctual(x)'
    BY <2>1, <2>2 DEF Punctual
  <2>6. Covers(x)
    BY <2>1, <2>2 DEF Covers
  <2>7. Covers(x)'
    BY <1>4, <2>6, CoversNext
  <2>8. x.twin => x.pc = "submit"
    BY <2>1, <2>2, <2>4 DEF Current
  <2>9. ASSUME x.pc \in Pcs, Head(x.todo) \in Stream
        PROVE  /\ x.to =< len[Head(x.todo)]
               /\ x.pc # "range" /\ x.range => attested'[Head(x.todo)] =< x.to
               /\ x.twin => x.to =< attested'[Head(x.todo)]
    <3>1. PICK s \in Stream : s = Head(x.todo)
      BY <2>9
    <3>2. /\ q.to =< len[s]
          /\ q.pc # "range" /\ q.range => attested[s] =< q.to
          /\ q.twin => q.to =< attested[s]
      BY <1>7, <2>1, <2>2, <3>1 DEF Current
    <3>3. x.range => s # Subject(t)
      BY <1>3, <2>2, <2>3, <3>1
    <3>4. same => s = Subject(t) /\ q.to = r.to
      BY <1>3, <2>2, <2>3, <2>4, <3>1
    <3>5. q.to \in Nat /\ r.to \in Nat /\ attested[s] \in Nat
      BY <1>3, <1>4, <2>1 DEF Working, LogTyped
    <3>6. x.twin => x.to =< attested'[s]
      <4>1. q.twin => q.to =< attested'[s]
        BY <1>4, <3>2, <3>5
      <4>2. same => q.to =< attested'[s]
        BY <1>4, <3>4, <3>5
      <4> QED
        BY <2>2, <4>1, <4>2
    <3>7. x.pc # "range" /\ x.range => attested'[s] =< x.to
      BY <1>4, <2>2, <3>2, <3>3
    <3> QED
      BY <2>2, <3>1, <3>2, <3>6, <3>7
  <2>10. Current(x)'
    BY <2>8, <2>9 DEF Current
  <2> QED
    BY <2>2, <2>5, <2>7, <2>10 DEF Sound
<1>8. q.pc \in {"idle", "list", "head", "sweep"} \cup Pcs
  BY <1>2 DEF CheckpointerInv, Sound, Idle, Working, Pc, Pcs
<1> QED
  BY <1>5, <1>6, <1>7, <1>8

LEMMA SubmitKeeps ==
  ASSUME CheckpointerInv, NEW t \in Task, Submit(t)
  PROVE  CheckpointerInv'
<1>1. PICK r : r = task[t]
  OBVIOUS
<1>2. /\ r.pc = "submit" /\ r \in Working /\ Punctual(r) /\ Current(r) /\ Covers(r)
      /\ Subject(t) \in Stream \cup {CheckpointStream} /\ Subject(t) = Head(r.todo)
  BY <1>1, AtWork DEF Submit, At
<1>3. /\ LogTyped /\ calls' \in Nat /\ faults' \in Nat
      /\ UNCHANGED << len, late, stored, clock, calls, faults >>
  BY DEF CheckpointerInv, LogTyped, Submit
<1>4. CASE r.twin
  <2>1. Become(t, Proceed(r)) /\ UNCHANGED << attested, begun, refused >>
    BY <1>1, <1>4 DEF Submit
  <2>2. ASSUME r.job = "decay", NEW e \in Owed(r.now) PROVE e[1] # Head(r.todo)
    <3>1. SUFFICES ASSUME e[1] = Head(r.todo) PROVE FALSE
      OBVIOUS
    <3>2. e \in Entry /\ attested[e[1]] < e[2] /\ e[2] =< r.to /\ r.to \in Nat
      BY <1>2, <2>2, <3>1 DEF Covers, Pcs, Working, Owed
    <3>3. e[1] \in Stream /\ e[2] \in Nat /\ attested[e[1]] \in Nat
      BY <1>3, <3>2, Entries DEF LogTyped
    <3>4. r.to =< attested[e[1]]
      BY <1>2, <1>4, <3>1, <3>3 DEF Current, Pcs
    <3> QED
      BY <3>2, <3>3, <3>4
  <2>3. Sound(Proceed(r))
    BY <1>2, <2>2, ProceedIsSound
  <2>4. refused' \subseteq {"chain-seq-duplicate", "chain-prev-hash-mismatch",
                            "checkpoint-range-discontinuous"}
    BY <1>3, <2>1 DEF LogTyped
  <2> QED
    BY <1>3, <2>1, <2>3, <2>4, RefusedKeeps
<1>5. CASE ~r.twin /\ r.prev /\ r.seq /\ r.range
  <2>1. Accept(t)
    BY <1>1, <1>5 DEF Submit
  <2>2. At(t, "submit") /\ task[t].range
    BY <1>1, <1>2, <1>5 DEF At
  <2>3. PICK twins \in SUBSET {u \in Task \ {t} : SameContent(task[u], r)} :
          task' = [u \in Task |-> IF u = t THEN Proceed(r)
                                  ELSE Outdated(task[u], r, u \in twins)]
    BY <1>1, <2>1 DEF Accept
  <2>4. ASSUME NEW u \in Task PROVE Sound(task[u])'
    <3>1. CASE u = t
      <4>1. PICK x : x = Proceed(task[t])
        OBVIOUS
      <4>2. Sound(x)'
        BY <1>3, <2>1, <2>2, <4>1, AcceptProceeds
      <4>3. Sound(x)' /\ task'[u] = x
        BY <1>1, <2>3, <3>1, <4>1, <4>2
      <4> QED
        BY <4>3 DEF Sound, Punctual, Current, Covers, Owed, Retained, Refs
    <3>2. CASE u # t
      <4>1. PICK same : same = (u \in twins)
        OBVIOUS
      <4>2. PICK x : x = Outdated(task[u], task[t], same)
        OBVIOUS
      <4>3. same => SameContent(task[u], task[t])
        BY <1>1, <2>3, <4>1
      <4>4. Sound(x)'
        BY <1>3, <2>1, <2>2, <4>2, <4>3, AcceptOutdates
      <4>5. task'[u] = x
        BY <1>1, <2>3, <3>2, <4>1, <4>2
      <4> QED
        BY <4>4, <4>5 DEF Sound, Punctual, Current, Covers, Owed, Retained, Refs
    <3> QED
      BY <3>1, <3>2
  <2>5. LogTyped' /\ ErasedWasAttested'
    BY <1>3, <2>1, <2>2, AcceptAttests
  <2>6. task' = [u \in Task |-> task'[u]]
    BY <2>3
  <2> QED
    BY <2>4, <2>5, <2>6 DEF CheckpointerInv
<1>6. CASE ~r.twin /\ ~(r.prev /\ r.seq /\ r.range)
  <2>1. /\ refused' = refused \cup {Reason(r)} /\ Become(t, Fail(r))
        /\ UNCHANGED << attested, begun >>
    BY <1>1, <1>6 DEF Submit
  <2>2. refused' \subseteq {"chain-seq-duplicate", "chain-prev-hash-mismatch",
                            "checkpoint-range-discontinuous"}
    BY <1>3, <2>1 DEF LogTyped, Reason
  <2>3. Sound(Fail(r))
    BY <1>2, FailIsSound
  <2> QED
    BY <1>3, <2>1, <2>2, <2>3, RefusedKeeps
<1> QED
  BY <1>4, <1>5, <1>6

--------------------------------------------------------------------------------
LEMMA InitHolds == Init => CheckpointerInv
<1> SUFFICES ASSUME Init PROVE CheckpointerInv
  OBVIOUS
<1>1. \A s \in Stream : Len(Envelopes[s]) \in Nat
  BY CheckpointerAssumption DEF CheckpointerAssumption
<1>2. LogTyped
  <2>1. \A s \in Stream : attested[s] =< len[s] /\ len[s] =< Len(Envelopes[s])
    BY <1>1 DEF Init
  <2>2. /\ len \in [Stream -> Nat] /\ attested \in [Stream -> Nat]
        /\ late \subseteq Entry /\ stored \subseteq Payload
        /\ begun \in BOOLEAN /\ clock \in Nat /\ calls \in Nat /\ faults \in Nat
        /\ refused = {} /\ DOMAIN task = Task
    BY DEF Init
  <2> QED
    BY <2>1, <2>2 DEF LogTyped
<1>3. ErasedWasAttested
  BY Entries DEF Init, ErasedWasAttested
<1> QED
  BY <1>2, <1>3 DEF Init, CheckpointerInv, Sound

LEMMA NextKeeps == CheckpointerInv /\ [Next]_vars => CheckpointerInv'
<1> SUFFICES ASSUME CheckpointerInv, [Next]_vars PROVE CheckpointerInv'
  OBVIOUS
<1>1. ASSUME NEW t \in Task, Run(t) PROVE CheckpointerInv'
  BY <1>1, WakeKeeps, ListKeeps, ReadHeadKeeps, ReadRangeKeeps, ReadPrevKeeps,
     SubmitKeeps, SweepKeeps DEF Run
<1>2. ASSUME NEW t \in Task, Unavailable(t) \/ Cancel(t) PROVE CheckpointerInv'
  BY <1>2, EndKeeps
<1>3. ASSUME UNCHANGED vars PROVE CheckpointerInv'
  BY <1>3 DEF CheckpointerInv, LogTyped, ErasedWasAttested, Sound, Punctual, Current,
              Covers, Owed, Retained, Refs, vars, store
<1> QED
  BY <1>1, <1>2, <1>3, AppendKeeps, RestartKeeps, TickKeeps DEF Next

(* The log and every task stay well formed; no checkpoint covers more than    *)
(* its stream holds, and only a decay run comes to a sweep.                   *)
THEOREM CheckpointerTyped == Spec => []CheckpointerTypeOK
<1>1. CheckpointerInv => CheckpointerTypeOK
  <2> SUFFICES ASSUME CheckpointerInv PROVE CheckpointerTypeOK
    OBVIOUS
  <2>1. ASSUME NEW t \in Task
        PROVE  task[t] \in TaskState /\ (At(t, "sweep") => task[t].job = "decay")
    BY DEF CheckpointerInv, Sound, TaskState, At, Idle, Punctual
  <2>2. task \in [Task -> TaskState]
    BY <2>1 DEF CheckpointerInv
  <2> QED
    BY <2>1, <2>2 DEF CheckpointerInv, LogTyped, CheckpointerTypeOK
<1> QED
  BY <1>1, InitHolds, NextKeeps, PTL DEF Spec

(* A payload is erased only when every envelope that committed to it is       *)
(* covered by a checkpoint, but for those whose retention was over when they  *)
(* arrived (decay_with_checkpoints), whatever is appended, attested, refused, *)
(* swept, dropped or restarted between the listing and the sweep.             *)
THEOREM ErasureFollowsAttestation == Spec => DecayedWasAttested
<1>1. CheckpointerInv /\ [Next]_vars =>
        [\A p \in stored \ stored' :
           \A e \in Refs(p) \ late : e[2] =< attested[e[1]]]_vars
  <2> SUFFICES ASSUME CheckpointerInv, Next, NEW p \in stored \ stored',
                      NEW e \in Refs(p) \ late
               PROVE  e[2] =< attested[e[1]]
    OBVIOUS
  <2>1. PICK t \in Task : Sweep(t)
    <3>1. ASSUME NEW t \in Task, Run(t) \/ Unavailable(t) \/ Cancel(t), ~Sweep(t)
          PROVE  stored' = stored
      BY <3>1 DEF Run, Unavailable, Cancel, Wake, List, ReadHead, ReadRange, ReadPrev,
                  ReadSeq, Submit, store
    <3>2. ASSUME NEW s \in Stream, AppendTo(s) PROVE stored \subseteq stored'
      BY <3>2 DEF AppendTo
    <3>3. ASSUME Restart \/ Tick PROVE stored' = stored
      BY <3>3 DEF Restart, Tick, store
    <3> QED
      BY <3>1, <3>2, <3>3 DEF Next
  <2>2. PICK r : r = task[t]
    OBVIOUS
  <2>3. r.pc = "sweep" /\ r.job = "decay" /\ r.todo = << >> /\ Covers(r)
    BY <2>1, <2>2 DEF CheckpointerInv, Sweep, At, Sound, Idle, Punctual
  <2>4. Owed(r.now) = {}
    BY <2>3 DEF Covers, ToSet
  <2>5. p \in Payload /\ ~Retained(p, r.now)
    BY <2>1, <2>2 DEF CheckpointerInv, LogTyped, Sweep, Expired
  <2>6. e \in Entry /\ e[2] =< len[e[1]] /\ Carried(e).payload = p /\ p # None
    BY <2>5 DEF Refs, Payload
  <2>7. ~(attested[e[1]] < e[2])
    BY <2>4, <2>5, <2>6 DEF Owed
  <2>8. attested[e[1]] \in Nat /\ e[2] \in Nat
    BY <2>6, Entries DEF CheckpointerInv, LogTyped
  <2> QED
    BY <2>7, <2>8
<1> QED
  BY <1>1, InitHolds, NextKeeps, PTL DEF Spec, DecayedWasAttested
================================================================================

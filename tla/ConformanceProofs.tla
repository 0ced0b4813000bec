--------------------------- MODULE ConformanceProofs ---------------------------
(******************************************************************************)
(* What a certification run is worth, for any manifests, policy, tables of    *)
(* durable objects and departures of the component.  A green run is earned:   *)
(* the argument is about a run no group of which has failed, where every      *)
(* answer was the answer to what was asked, and every step that is over has   *)
(* left behind what it was taken for.  And a component that keeps to the      *)
(* protocol gets one: there the argument is that what it has signed and not   *)
(* yet submitted lands, one after the other, on what the kernel holds.        *)
(******************************************************************************)
EXTENDS Conformance, SequenceTheorems, WellFoundedInduction, TLAPS

--------------------------------------------------------------------------------
(* The actions of a class. *)

(* Induction over the naturals, as a statement about a set of naturals. *)
LEMMA NaturalInduction ==
  ASSUME NEW S \in SUBSET Nat, 0 \in S, \A n \in S : n + 1 \in S
  PROVE  S = Nat
<1>1. SUFFICES ASSUME Nat \ S # {} PROVE FALSE
  OBVIOUS
<1>2. PICK n \in Nat \ S : \A m \in Nat \ S : <<m, n>> \notin OpToRel(<, Nat)
  BY <1>1, NatLessThanWellFounded, WFMin
<1>3. \A m \in Nat \ S : ~(m < n)
  BY <1>2 DEF OpToRel
<1>4. n # 0 /\ n - 1 \in Nat /\ n - 1 \in S
  BY <1>3
<1> QED
  BY <1>4

LEMMA AppendAdds ==
  ASSUME NEW T, NEW q \in Seq(T), NEW x
  PROVE  Range(Append(q, x)) = Range(q) \cup {x}
<1>1. /\ Len(q) \in Nat
      /\ DOMAIN q = 1 .. Len(q) /\ DOMAIN Append(q, x) = 1 .. (Len(q) + 1)
      /\ Append(q, x)[Len(q) + 1] = x
      /\ \A i \in 1 .. Len(q) : Append(q, x)[i] = q[i]
  <2>1. q \in Seq(T \cup {x}) /\ x \in T \cup {x}
    OBVIOUS
  <2> QED
    BY <2>1
<1>2. PICK n \in Nat : n = Len(q)
  BY <1>1
<1>3. \A i \in 1 .. (n + 1) : i \in 1 .. n \/ i = n + 1
  BY <1>2
<1>4. 1 .. n \subseteq 1 .. (n + 1) /\ n + 1 \in 1 .. (n + 1)
  BY <1>2
<1> QED
  BY <1>1, <1>2, <1>3, <1>4 DEF Range

LEMMA AppendExtends ==
  ASSUME NEW T, NEW q \in Seq(T), NEW x
  PROVE  /\ DOMAIN q \subseteq DOMAIN Append(q, x)
         /\ \A i \in DOMAIN q : Append(q, x)[i] = q[i]
         /\ \E b \in DOMAIN Append(q, x) \ DOMAIN q : Append(q, x)[b] = x
<1>1. PICK n \in Nat : n = Len(q) /\ DOMAIN q = 1 .. n
  OBVIOUS
<1>2. /\ DOMAIN Append(q, x) = 1 .. (n + 1)
      /\ Append(q, x)[n + 1] = x
      /\ \A i \in 1 .. n : Append(q, x)[i] = q[i]
  <2>1. q \in Seq(T \cup {x}) /\ x \in T \cup {x}
    OBVIOUS
  <2> QED
    BY <1>1, <2>1
<1>3. 1 .. n \subseteq 1 .. (n + 1) /\ n + 1 \in 1 .. (n + 1) /\ n + 1 \notin 1 .. n
  BY <1>1
<1> QED
  BY <1>1, <1>2, <1>3

(* What the recursive function of OfClass satisfies. *)
Selects(g, m, c, k) ==
  g = [n \in 0 .. k |->
         IF n = 0 THEN <<>>
         ELSE IF m[n].class = c THEN Append(g[n - 1], m[n]) ELSE g[n - 1]]

(* Such a function exists: the actions are gone through one by one. *)
LEMMA SelectionExists ==
  ASSUME NEW m, NEW c, NEW k \in Nat
  PROVE  \E g : Selects(g, m, c, k)
<1> DEFINE K == {n \in Nat : \E g : Selects(g, m, c, n)}
<1>1. 0 \in K
  <2>1. Selects([n \in 0 .. 0 |-> <<>>], m, c, 0)
    BY DEF Selects
  <2> QED
    BY <2>1
<1>2. ASSUME NEW n \in K PROVE n + 1 \in K
  <2>1. PICK g : Selects(g, m, c, n)
    OBVIOUS
  <2> DEFINE last == IF m[n + 1].class = c THEN Append(g[n], m[n + 1]) ELSE g[n]
             h == [i \in 0 .. (n + 1) |-> IF i = n + 1 THEN last ELSE g[i]]
  <2>2. ASSUME NEW i \in 0 .. (n + 1)
        PROVE  h[i] = IF i = 0 THEN <<>>
                      ELSE IF m[i].class = c THEN Append(h[i - 1], m[i])
                      ELSE h[i - 1]
    <3>1. CASE i = n + 1
      <4>1. i # 0 /\ i - 1 = n /\ h[n] = g[n]
        BY <3>1
      <4> QED
        BY <3>1, <4>1
    <3>2. CASE i = 0
      BY <2>1, <3>2 DEF Selects
    <3>3. CASE i \in 1 .. n
      <4>1. h[i] = g[i] /\ h[i - 1] = g[i - 1]
        BY <3>3
      <4>2. i \in 0 .. n /\ i # 0
        BY <3>3
      <4>3. g[i] = IF m[i].class = c THEN Append(g[i - 1], m[i]) ELSE g[i - 1]
        BY <2>1, <4>2 DEF Selects
      <4> QED
        BY <3>3, <4>1, <4>3
    <3> QED
      BY <3>1, <3>2, <3>3
  <2>3. Selects(h, m, c, n + 1)
    BY <2>2 DEF Selects
  <2> QED
    BY <2>3
<1>3. K = Nat
  <2> HIDE DEF K
  <2>1. K \in SUBSET Nat
    BY DEF K
  <2> QED
    BY <1>1, <1>2, <2>1, NaturalInduction
<1> QED
  BY <1>3

(* OfClass lists the actions of the class and no others, each as often.       *)
LEMMA OfClassSelects ==
  ASSUME NEW m, m \in Seq(Range(m)), NEW c
  PROVE  /\ OfClass(m, c) \in Seq(Range(m))
         /\ Range(OfClass(m, c)) = {a \in Range(m) : a.class = c}
         /\ \A i, j \in DOMAIN m : i < j /\ m[i].class = c /\ m[j].class = c =>
              \E a, b \in DOMAIN OfClass(m, c) :
                a # b /\ OfClass(m, c)[a] = m[i] /\ OfClass(m, c)[b] = m[j]
<1>0. Len(m) \in Nat /\ DOMAIN m = 1 .. Len(m)
  OBVIOUS
<1>1. PICK g : Selects(g, m, c, Len(m)) /\ OfClass(m, c) = g[Len(m)]
  <2>1. PICK g : g = CHOOSE f : Selects(f, m, c, Len(m))
    OBVIOUS
  <2>2. Selects(g, m, c, Len(m))
    BY <1>0, <2>1, SelectionExists
  <2>3. OfClass(m, c) = g[Len(m)]
    BY <2>1 DEF OfClass, Selects
  <2> QED
    BY <2>2, <2>3
<1> DEFINE upTo(k) == {m[i] : i \in 1 .. k}
           Twice(q, k) == \A i, j \in 1 .. k : i < j /\ m[i].class = c /\ m[j].class = c =>
                            \E a, b \in DOMAIN q : a # b /\ q[a] = m[i] /\ q[b] = m[j]
           K == {k \in Nat : k <= Len(m) =>
                   /\ g[k] \in Seq(Range(m))
                   /\ Range(g[k]) = {a \in upTo(k) : a.class = c}
                   /\ Twice(g[k], k)}
<1>2. 0 \in K
  BY <1>0, <1>1 DEF Selects, Range
<1>3. ASSUME NEW k \in K PROVE k + 1 \in K
  <2>1. SUFFICES ASSUME k + 1 <= Len(m)
                 PROVE  /\ g[k + 1] \in Seq(Range(m))
                        /\ Range(g[k + 1]) = {a \in upTo(k + 1) : a.class = c}
                        /\ Twice(g[k + 1], k + 1)
    OBVIOUS
  <2>2. PICK q \in Seq(Range(m)) :
          q = g[k] /\ Range(q) = {a \in upTo(k) : a.class = c} /\ Twice(q, k)
    BY <1>0, <2>1
  <2>3. PICK x \in Range(m) : x = m[k + 1]
    BY <1>0, <2>1 DEF Range
  <2>4. g[k + 1] = IF x.class = c THEN Append(q, x) ELSE q
    <3>1. k + 1 \in 0 .. Len(m) /\ k + 1 # 0 /\ (k + 1) - 1 = k
      BY <1>0, <2>1
    <3>2. g[k + 1] = IF m[k + 1].class = c THEN Append(g[(k + 1) - 1], m[k + 1])
                     ELSE g[(k + 1) - 1]
      BY <1>1, <3>1 DEF Selects
    <3> QED
      BY <2>2, <2>3, <3>1, <3>2
  <2>5. upTo(k + 1) = upTo(k) \cup {x}
    <3>1. \A i \in 1 .. (k + 1) : i \in 1 .. k \/ i = k + 1
      OBVIOUS
    <3> QED
      BY <2>3, <3>1
  <2>6. Append(q, x) \in Seq(Range(m)) /\ Range(Append(q, x)) = Range(q) \cup {x}
    BY AppendAdds
  <2>7. Twice(g[k + 1], k + 1)
    <3> SUFFICES ASSUME NEW i \in 1 .. (k + 1), NEW j \in 1 .. (k + 1), i < j,
                        m[i].class = c, m[j].class = c
                 PROVE  \E a, b \in DOMAIN g[k + 1] :
                          a # b /\ g[k + 1][a] = m[i] /\ g[k + 1][b] = m[j]
      OBVIOUS
    <3>1. /\ DOMAIN q \subseteq DOMAIN Append(q, x)
          /\ \A n \in DOMAIN q : Append(q, x)[n] = q[n]
          /\ \E b \in DOMAIN Append(q, x) \ DOMAIN q : Append(q, x)[b] = x
      BY AppendExtends
    <3>2. i \in 1 .. k /\ (j \in 1 .. k \/ j = k + 1)
      OBVIOUS
    <3>3. CASE j \in 1 .. k
      <4>1. PICK a \in DOMAIN q, b \in DOMAIN q : a # b /\ q[a] = m[i] /\ q[b] = m[j]
        BY <2>2, <3>2, <3>3
      <4>2. g[k + 1] = q \/ g[k + 1] = Append(q, x)
        BY <2>4
      <4>3. CASE g[k + 1] = q
        BY <4>1, <4>3
      <4>4. CASE g[k + 1] = Append(q, x)
        BY <3>1, <4>1, <4>4
      <4> QED
        BY <4>2, <4>3, <4>4
    <3>4. CASE j = k + 1
      <4>1. PICK a \in DOMAIN q : q[a] = m[i]
        <5>1. m[i] \in Range(q)
          BY <2>2, <3>2
        <5> QED
          BY <5>1 DEF Range
      <4>2. g[k + 1] = Append(q, x)
        BY <2>3, <2>4, <3>4
      <4>3. PICK b \in DOMAIN Append(q, x) \ DOMAIN q : Append(q, x)[b] = x
        BY <3>1
      <4> QED
        BY <2>3, <3>1, <3>4, <4>1, <4>2, <4>3
    <3> QED
      BY <3>2, <3>3, <3>4
  <2>8. /\ g[k + 1] \in Seq(Range(m))
        /\ Range(g[k + 1]) = {a \in upTo(k + 1) : a.class = c}
    <3> HIDE DEF Twice
    <3> QED
      BY <2>2, <2>4, <2>5, <2>6
  <2> QED
    BY <2>7, <2>8
<1>4. K = Nat
  <2> HIDE DEF K
  <2>1. K \in SUBSET Nat
    BY DEF K
  <2> QED
    BY <1>2, <1>3, <2>1, NaturalInduction
<1>5. /\ g[Len(m)] \in Seq(Range(m))
      /\ Range(g[Len(m)]) = {a \in upTo(Len(m)) : a.class = c}
      /\ Twice(g[Len(m)], Len(m))
  <2>1. Len(m) \in K
    BY <1>0, <1>4
  <2> QED
    BY <1>0, <2>1
<1>6. upTo(Len(m)) = Range(m)
  BY <1>0 DEF Range
<1> QED
  BY <1>0, <1>1, <1>5, <1>6

--------------------------------------------------------------------------------
(* Durable objects. *)

(* A table the harness passes gives no agent a person's decision in any       *)
(* state, though it is tried in one: if the first entry of that name had      *)
(* another signer, the person would not be accepted where they must be.       *)
LEMMA PassedTableDecides ==
  ASSUME NEW t \in Tables, CheckDurableObjects(t) # "failed"
  PROVE  PersonsDecide(t)
<1>0. /\ t \in Seq(Range(t))
      /\ \A x \in Range(t) : /\ x.from \in Seq(Range(x.from)) /\ None \notin Range(x.from)
  BY ConformanceAssumption DEF ConformanceAssumption
<1> SUFFICES ASSUME NEW i \in DOMAIN t, t[i].signers = <<"human">>,
                    NEW s \in Range(t[i].from) \cup {None},
                    CheckTransition(t, t[i].name, "agent", s)
             PROVE  FALSE
  BY DEF PersonsDecide
<1>1. DOMAIN t = 1 .. Len(t) /\ Len(t) \in Nat /\ t # <<>>
  BY <1>0
<1>2. /\ CheckTransition(t, t[i].name, "human", FirstFrom(t[i]))
      /\ ~CheckTransition(t, t[i].name, "agent", FirstFrom(t[i]))
  <2>1. Head(t[i].signers) = "human"
    OBVIOUS
  <2> QED
    BY <1>1, <2>1 DEF CheckDurableObjects
<1>3. PICK j \in DOMAIN t :
        /\ t[j].name = t[i].name
        /\ \A k \in DOMAIN t : k < j => t[k].name # t[i].name
        /\ "agent" \in Range(t[j].signers)
        /\ IF s = None THEN t[j].from = <<>> ELSE s \in Range(t[j].from)
  BY DEF CheckTransition
<1>4. PICK k \in DOMAIN t :
        /\ t[k].name = t[i].name
        /\ \A n \in DOMAIN t : n < k => t[n].name # t[i].name
        /\ IF FirstFrom(t[i]) = None THEN t[k].from = <<>>
           ELSE FirstFrom(t[i]) \in Range(t[k].from)
  BY <1>2 DEF CheckTransition
<1>5. j = k
  BY <1>1, <1>3, <1>4
<1> QED
  BY <1>2, <1>3, <1>4, <1>5 DEF CheckTransition

--------------------------------------------------------------------------------
(* Sequences, whatever they are of. *)

IsSeq(q) == q \in Seq(Range(q))

LEMMA NoneIsSeq == IsSeq(<<>>) /\ Range(<<>>) = {}
BY DEF IsSeq, Range

LEMMA OneIsSeq ==
  ASSUME NEW x
  PROVE  IsSeq(<<x>>) /\ Range(<<x>>) = {x}
<1>1. Range(<<x>>) = {x}
  BY DEF Range
<1> QED
  BY <1>1 DEF IsSeq

LEMMA TwoIsSeq ==
  ASSUME NEW x, NEW y
  PROVE  IsSeq(<<x, y>>) /\ Range(<<x, y>>) = {x, y}
<1>1. Range(<<x, y>>) = {x, y}
  BY DEF Range
<1> QED
  BY <1>1 DEF IsSeq

LEMMA ListIsSeq ==
  ASSUME NEW n \in Nat, NEW q, q = [i \in 1 .. n |-> q[i]]
  PROVE  IsSeq(q) /\ Len(q) = n
<1>1. DOMAIN q = 1 .. n
  OBVIOUS
<1>2. \A i \in 1 .. n : q[i] \in Range(q)
  BY <1>1 DEF Range
<1>3. q \in [1 .. n -> Range(q)]
  BY <1>2
<1> QED
  BY <1>3 DEF IsSeq

LEMMA AppendIsSeq ==
  ASSUME NEW q, IsSeq(q), NEW x
  PROVE  /\ IsSeq(Append(q, x)) /\ Append(q, x) # <<>>
         /\ Range(Append(q, x)) = Range(q) \cup {x}
<1>1. q \in Seq(Range(q) \cup {x})
  <2>1. q \in Seq(Range(q))
    BY DEF IsSeq
  <2> QED
    BY <2>1
<1>2. Range(Append(q, x)) = Range(q) \cup {x}
  BY <1>1, AppendAdds
<1>3. Append(q, x) \in Seq(Range(q) \cup {x}) /\ Append(q, x) # <<>>
  <2>1. x \in Range(q) \cup {x}
    OBVIOUS
  <2>2. Append(q, x) \in Seq(Range(q) \cup {x})
    BY <1>1, <2>1
  <2>3. Len(Append(q, x)) = Len(q) + 1 /\ Len(q) \in Nat
    BY <1>1, <2>1
  <2> QED
    BY <2>2, <2>3
<1> QED
  BY <1>2, <1>3 DEF IsSeq

LEMMA RestIsSeq ==
  ASSUME NEW q, IsSeq(q), q # <<>>
  PROVE  /\ IsSeq(Tail(q)) /\ Head(q) \in Range(q)
         /\ Range(q) = Range(Tail(q)) \cup {Head(q)}
         /\ Len(q) # 1 => Tail(q) # <<>>
<1>1. /\ Len(q) \in Nat /\ Len(q) # 0 /\ DOMAIN q = 1 .. Len(q) /\ Head(q) = q[1]
      /\ Tail(q) \in Seq(Range(q)) /\ Len(Tail(q)) = Len(q) - 1
      /\ DOMAIN Tail(q) = 1 .. (Len(q) - 1)
      /\ \A i \in 1 .. (Len(q) - 1) : Tail(q)[i] = q[i + 1]
  BY DEF IsSeq
<1>2. PICK n \in Nat : n = Len(q)
  BY <1>1
<1>3. 1 \in 1 .. n /\ \A i \in 1 .. (n - 1) : i + 1 \in 1 .. n
  BY <1>1, <1>2
<1>4. \A i \in 1 .. n : i = 1 \/ (i - 1 \in 1 .. (n - 1) /\ (i - 1) + 1 = i)
  BY <1>1, <1>2
<1>5. Range(q) = Range(Tail(q)) \cup {Head(q)}
  <2>1. ASSUME NEW x \in Range(q) PROVE x \in Range(Tail(q)) \cup {Head(q)}
    <3>1. PICK i \in 1 .. n : x = q[i]
      BY <1>1, <1>2 DEF Range
    <3>2. CASE i = 1
      BY <1>1, <3>1, <3>2
    <3>3. CASE i # 1
      <4>1. i - 1 \in 1 .. (n - 1) /\ (i - 1) + 1 = i
        BY <1>4, <3>3
      <4>2. x = Tail(q)[i - 1]
        BY <1>1, <1>2, <3>1, <4>1
      <4> QED
        BY <1>1, <1>2, <4>1, <4>2 DEF Range
    <3> QED
      BY <3>2, <3>3
  <2>2. ASSUME NEW x \in Range(Tail(q)) PROVE x \in Range(q)
    <3>1. PICK i \in 1 .. (n - 1) : x = Tail(q)[i]
      BY <1>1, <1>2 DEF Range
    <3>2. x = q[i + 1] /\ i + 1 \in 1 .. n
      BY <1>1, <1>2, <1>3, <3>1
    <3> QED
      BY <1>1, <1>2, <3>2 DEF Range
  <2>3. Head(q) \in Range(q)
    BY <1>1, <1>2, <1>3 DEF Range
  <2> QED
    BY <2>1, <2>2, <2>3
<1>6. IsSeq(Tail(q))
  <2>1. \A r \in Seq(Range(q)) : r \in [1 .. Len(r) -> Range(q)]
    OBVIOUS
  <2>2. Tail(q) \in [1 .. (n - 1) -> Range(q)] /\ n - 1 \in Nat
    <3>1. Tail(q) \in [1 .. Len(Tail(q)) -> Range(q)]
      BY <1>1, <2>1
    <3> QED
      BY <1>1, <1>2, <3>1
  <2>3. Tail(q) = [i \in 1 .. (n - 1) |-> Tail(q)[i]]
    BY <2>2
  <2> QED
    BY <2>2, <2>3, ListIsSeq
<1>7. Len(q) # 1 => Tail(q) # <<>>
  BY <1>1
<1> QED
  BY <1>5, <1>6, <1>7

LEMMA JoinIsSeq ==
  ASSUME NEW p, IsSeq(p), NEW q, IsSeq(q)
  PROVE  IsSeq(p \o q) /\ Range(p \o q) = Range(p) \cup Range(q)
<1>1. p \in Seq(Range(p) \cup Range(q)) /\ q \in Seq(Range(p) \cup Range(q))
  <2>1. p \in Seq(Range(p)) /\ q \in Seq(Range(q))
    BY DEF IsSeq
  <2> QED
    BY <2>1
<1>2. Range(p \o q) = Range(p) \cup Range(q)
  BY <1>1, RangeConcatenation
<1> QED
  BY <1>1, <1>2 DEF IsSeq

LEMMA FrontIsSeq ==
  ASSUME NEW q, IsSeq(q), q # <<>>
  PROVE  IsSeq(Front(q)) /\ Range(Front(q)) \subseteq Range(q) /\ Last(q) \in Range(q)
<1>1. PICK n \in Nat : n = Len(q) /\ n # 0 /\ DOMAIN q = 1 .. n
  BY DEF IsSeq
<1>2. Front(q) = [i \in 1 .. (n - 1) |-> q[i]]
  BY <1>1 DEF Front, IsSeq
<1>3. IsSeq(Front(q))
  <2>1. Front(q) = [i \in 1 .. (n - 1) |-> Front(q)[i]] /\ n - 1 \in Nat
    BY <1>1, <1>2
  <2> QED
    BY <2>1, ListIsSeq
<1>4. Range(Front(q)) \subseteq Range(q)
  <2>1. 1 .. (n - 1) \subseteq 1 .. n
    BY <1>1
  <2> QED
    BY <1>1, <1>2, <2>1 DEF Range
<1>5. Last(q) \in Range(q)
  BY <1>1 DEF Last, Range
<1> QED
  BY <1>3, <1>4, <1>5

--------------------------------------------------------------------------------
(* What the component may answer. *)

NegativeCases ==
  {"gate-authorization-missing", "gate-authorization-action-mismatch",
   "gate-authorization-replayed", "mandate-expired", "mandate-root-not-human",
   "prohibited-attempted", "cognition-with-evidence"}

LEMMA NegativesAre ==
  /\ Range(Negatives) = NegativeCases
  /\ IsSeq(Negatives) /\ DOMAIN Negatives = 1 .. 7
<1>1. DOMAIN Negatives = 1 .. 7
  BY DEF Negatives
<1>2. Range(Negatives) = NegativeCases
  BY <1>1 DEF Negatives, Range, NegativeCases
<1>3. IsSeq(Negatives)
  <2>1. Negatives = [i \in 1 .. 7 |-> Negatives[i]]
    BY <1>1 DEF Negatives
  <2> QED
    BY <2>1, ListIsSeq
<1> QED
  BY <1>1, <1>2, <1>3

(* An approval is carried by what was done under it. *)
Carried(e) == e.auth # None => Applied(e)

(* What answers a request, honestly or not: samples were signed when the      *)
(* request says, and records of an action are of the action asked about.      *)
Answers(s, r) ==
  /\ IsSeq(s)
  /\ \A e \in Range(s) :
       /\ Carried(e)
       /\ r.case = "sample" => e.kind = "effect" /\ e.at = r.at
       /\ r.case = "emit" => e.action = r.action.action

LEMMA SilenceAnswers ==
  ASSUME NEW r
  PROVE  Answers(<<>>, r)
BY NoneIsSeq DEF Answers

LEMMA OneAnswers ==
  ASSUME NEW r, NEW e, Carried(e),
         r.case = "sample" => e.kind = "effect" /\ e.at = r.at,
         r.case = "emit" => e.action = r.action.action
  PROVE  Answers(<<e>>, r)
BY OneIsSeq DEF Answers

LEMMA AmendedAnswers ==
  ASSUME NEW r, NEW s, Answers(s, r), s # <<>>, NEW e, Carried(e),
         r.case = "sample" => e.kind = "effect" /\ e.at = r.at,
         r.case = "emit" => e.action = r.action.action
  PROVE  Answers(Append(Front(s), e), r)
<1>1. /\ IsSeq(Front(s)) /\ Range(Front(s)) \subseteq Range(s)
  BY FrontIsSeq DEF Answers
<1>2. /\ IsSeq(Append(Front(s), e))
      /\ Range(Append(Front(s), e)) = Range(Front(s)) \cup {e}
  BY <1>1, AppendIsSeq
<1> QED
  BY <1>1, <1>2 DEF Answers

(* What an attempt submits carries an approval only with what it applies. *)
LEMMA AttemptHeld ==
  ASSUME NEW c, NEW r, r.case \in NegativeCases
  PROVE  /\ IsSeq(Attempt(c, r)) /\ Attempt(c, r) # <<>>
         /\ \A e \in Range(Attempt(c, r)) : Carried(e)
<1>1. ASSUME NEW t, NEW a, NEW d PROVE Carried(OnTarget(d, r, t, a))
  BY DEF OnTarget, Signed, Carried, Applied
<1>2. ASSUME NEW e, Carried(e), Attempt(c, r) = <<e>>
      PROVE  /\ IsSeq(Attempt(c, r)) /\ Attempt(c, r) # <<>>
             /\ \A f \in Range(Attempt(c, r)) : Carried(f)
  BY <1>2, OneIsSeq
<1>3. CASE r.case = "gate-authorization-missing"
  BY <1>1, <1>2, <1>3 DEF Attempt
<1>4. CASE r.case = "gate-authorization-action-mismatch"
  BY <1>1, <1>2, <1>4 DEF Attempt
<1>5. CASE r.case = "gate-authorization-replayed"
  <2>1. PICK e, f : Carried(e) /\ Carried(f) /\ Attempt(c, r) = <<e, f>>
    BY <1>1, <1>5 DEF Attempt
  <2> QED
    BY <2>1, TwoIsSeq
<1>6. CASE r.case = "mandate-expired"
  <2>1. PICK e : Attempt(c, r) = <<e>> /\ Carried(e)
    BY <1>6 DEF Attempt, Signed, Carried, Applied
  <2> QED
    BY <1>2, <2>1
<1>7. CASE r.case = "mandate-root-not-human"
  <2>1. PICK e : Attempt(c, r) = <<e>> /\ Carried(e)
    BY <1>7 DEF Attempt, Signed, Carried, Applied
  <2> QED
    BY <1>2, <2>1
<1>8. CASE r.case = "prohibited-attempted"
  <2>1. PICK e : Attempt(c, r) = <<e>> /\ Carried(e)
    BY <1>8 DEF Attempt, Signed, Carried, Applied
  <2> QED
    BY <1>2, <2>1
<1>9. CASE r.case = "cognition-with-evidence"
  <2>1. PICK e : Attempt(c, r) = <<e>> /\ Carried(e)
    BY <1>9 DEF Attempt, Signed, Carried, Applied
  <2> QED
    BY <1>2, <2>1
<1> QED
  BY <1>3, <1>4, <1>5, <1>6, <1>7, <1>8, <1>9 DEF NegativeCases

(* What is queued offline is under no approval. *)
LEMMA QueueHeld ==
  ASSUME NEW c, NEW r, IsSeq(Reads(manifest))
  PROVE  /\ IsSeq(Queue(c, r)) /\ Queue(c, r) # <<>>
         /\ \A e \in Range(Queue(c, r)) : "auth" \in DOMAIN e /\ e.auth = None
<1> DEFINE acts == Reads(manifest) \o <<GatedAction>>
<1>1. PICK n \in Nat : DOMAIN acts = 1 .. n /\ n # 0 /\ n = Len(acts)
  <2>1. IsSeq(acts) /\ GatedAction \in Range(acts)
    <3> HIDE DEF acts
    <3>1. IsSeq(<<GatedAction>>) /\ GatedAction \in Range(<<GatedAction>>)
      BY OneIsSeq
    <3> QED
      BY <3>1, JoinIsSeq DEF acts
  <2> HIDE DEF acts
  <2> QED
    BY <2>1 DEF IsSeq, Range
<1> DEFINE q == Queue(c, r)
<1> HIDE DEF acts
<1>2. /\ DOMAIN q = 1 .. n
      /\ \A i \in 1 .. n : "auth" \in DOMAIN q[i] /\ q[i].auth = None
      /\ q = [i \in 1 .. n |-> q[i]]
  <2>1. q = [i \in 1 .. n |->
              [Signed(c, r, acts[i]) EXCEPT
                 !.id = c.made + i, !.seq = c.seq + i - 1,
                 !.prev = IF i = 1 THEN c.prev ELSE c.made + i - 1,
                 !.outcome = IF i = n THEN "blocked" ELSE "applied"]]
    BY <1>1 DEF Queue, acts
  <2>2. \A i \in 1 .. n : "auth" \in DOMAIN q[i] /\ q[i].auth = None
    <3> HIDE DEF q
    <3> TAKE i \in 1 .. n
    <3> DEFINE before == IF i = 1 THEN c.prev ELSE c.made + i - 1
               became == IF i = n THEN "blocked" ELSE "applied"
    <3>1. q[i] = [Signed(c, r, acts[i]) EXCEPT
                    !.id = c.made + i, !.seq = c.seq + i - 1,
                    !.prev = before, !.outcome = became]
      BY <2>1
    <3> HIDE DEF before, became
    <3> QED
      BY <3>1 DEF Signed
  <2> QED
    BY <2>1, <2>2
<1> HIDE DEF q
<1>3. IsSeq(q) /\ Len(q) = n
  BY <1>2, ListIsSeq
<1>4. \A e \in Range(q) : "auth" \in DOMAIN e /\ e.auth = None
  BY <1>2 DEF Range
<1> QED
  BY <1>1, <1>2, <1>3, <1>4 DEF q

(* What the component signs of its own: applied, and under no approval. *)
LEMMA SignedIs ==
  ASSUME NEW c, NEW r, NEW a
  PROVE  LET e == Signed(c, r, a) IN
         /\ {"auth", "kind", "outcome", "at", "action", "expires", "folds", "samples",
             "id", "seq", "prev"} \subseteq DOMAIN e
         /\ e.kind = "effect" /\ e.outcome = "applied" /\ e.auth = None
         /\ e.at = r.at /\ e.action = a.action
BY DEF Signed

LEMMA SampleIs ==
  ASSUME NEW c, NEW r
  PROVE  LET e == Sample(c, r) IN
         /\ {"auth", "kind", "outcome", "at", "expires"} \subseteq DOMAIN e
         /\ e.kind = "effect" /\ e.outcome = "applied" /\ e.at = r.at
<1> DEFINE a == IF r.action.class = "consequential" THEN <<r.action.action, "sample">>
                ELSE None
           b == TRUE
<1>1. PICK g : g = Signed(c, r, r.action)
  OBVIOUS
<1>2. Sample(c, r) = [g EXCEPT !.auth = a, !.expires = b]
  BY <1>1 DEF Sample
<1> HIDE DEF a, b
<1>3. /\ {"auth", "kind", "outcome", "at", "expires"} \subseteq DOMAIN g
      /\ g.kind = "effect" /\ g.outcome = "applied" /\ g.at = r.at
  BY <1>1, SignedIs
<1> QED
  BY <1>2, <1>3

LEMMA AggregateIs ==
  ASSUME NEW c, NEW r, NEW n
  PROVE  LET e == Aggregate(c, r, n) IN
         /\ {"auth", "kind", "outcome", "action", "folds", "samples"} \subseteq DOMAIN e
         /\ e.outcome = "applied" /\ e.action = r.action.action
<1>1. PICK g : g = Signed(c, r, r.action)
  OBVIOUS
<1>2. Aggregate(c, r, n) = [g EXCEPT !.kind = "aggregate", !.folds = n, !.samples = 1]
  BY <1>1 DEF Aggregate
<1>3. /\ {"auth", "kind", "outcome", "action", "folds", "samples"} \subseteq DOMAIN g
      /\ g.outcome = "applied" /\ g.action = r.action.action
  BY <1>1, SignedIs
<1> QED
  BY <1>2, <1>3

(* An honest answer answers. *)
LEMMA SubmissionsAnswer ==
  ASSUME NEW c, NEW r, Asked(r), IsSeq(Reads(manifest))
  PROVE  /\ Answers(Submissions(c, r), r)
         /\ r.case \in {"sample", "emit", "offline"} \cup NegativeCases =>
              Submissions(c, r) # <<>>
<1>0. r.case \in {"hello", "vectors", "sample", "emit", "offline"} \cup NegativeCases
  BY NegativesAre DEF Asked
<1>1. CASE r.case \in {"hello", "vectors"}
  <2>1. Submissions(c, r) = <<>>
    BY <1>1, NegativesAre DEF Submissions, NegativeCases
  <2> QED
    BY <1>1, <2>1, SilenceAnswers DEF NegativeCases
<1>2. CASE r.case = "sample"
  <2>1. PICK e : /\ Submissions(c, r) = <<e>> /\ Carried(e)
                 /\ e.kind = "effect" /\ e.at = r.at
    <3>1. Submissions(c, r) = <<Sample(c, r)>>
      BY <1>2, NegativesAre DEF Submissions, NegativeCases
    <3>2. Carried(Sample(c, r)) /\ Sample(c, r).kind = "effect" /\ Sample(c, r).at = r.at
      BY SampleIs DEF Carried, Applied
    <3> QED
      BY <3>1, <3>2
  <2> QED
    BY <1>2, <2>1, OneAnswers
<1>3. CASE r.case = "emit"
  <2>1. PICK e : /\ Submissions(c, r) = <<e>> /\ Carried(e)
                 /\ e.action = r.action.action
    <3>1. Submissions(c, r) = <<Aggregate(c, r, Calls(r.action))>>
      BY <1>3, NegativesAre DEF Submissions, NegativeCases
    <3>2. /\ Carried(Aggregate(c, r, Calls(r.action)))
          /\ Aggregate(c, r, Calls(r.action)).action = r.action.action
      BY AggregateIs DEF Carried, Applied
    <3> QED
      BY <3>1, <3>2
  <2> QED
    BY <1>3, <2>1, OneAnswers
<1>4. CASE r.case = "offline"
  <2>1. Submissions(c, r) = Queue(c, r)
    BY <1>4, NegativesAre DEF Submissions, NegativeCases
  <2> QED
    BY <1>4, <2>1, QueueHeld DEF Answers, Carried
<1>5. CASE r.case \in NegativeCases
  <2>1. Submissions(c, r) = Attempt(c, r)
    BY <1>5, NegativesAre DEF Submissions, NegativeCases
  <2>2. r.case # "sample" /\ r.case # "emit"
    BY <1>5 DEF NegativeCases
  <2> QED
    BY <2>1, <2>2, AttemptHeld, <1>5 DEF Answers
<1> QED
  BY <1>0, <1>1, <1>2, <1>3, <1>4, <1>5

(* So does one that departs from the protocol: it is signed as the request    *)
(* has it all the same, and never carries an approval for what was not done.  *)
LEMMA DepartedAnswers ==
  ASSUME NEW c, NEW r, Asked(r), IsSeq(Reads(manifest)), NEW d \in Departures(r)
  PROVE  Answers(Departed(Submissions(c, r), c, r, d), r)
<1> DEFINE s == Submissions(c, r)
           t == Departed(s, c, r, d)
<1> SUFFICES Answers(t, r)
  OBVIOUS
<1>0. r.case \in {"hello", "vectors", "sample", "emit", "offline"} \cup NegativeCases
  BY NegativesAre DEF Asked
<1>1. Answers(s, r)
  BY SubmissionsAnswer
<1>2. CASE d \in {"none", "error"}
  <2>1. t = <<>>
    BY <1>2 DEF Departed
  <2> QED
    BY <2>1, SilenceAnswers
<1>3. CASE d \in {"wrong", "advances", "stays"}
  <2>1. t = s
    BY <1>3 DEF Departed
  <2> QED
    BY <1>1, <2>1
<1>4. CASE d \in {"ungated", "keeps"}
  <2>1. r.case = "sample"
    BY <1>0, <1>4 DEF Departures, NegativeCases
  <2>2. PICK g : s = <<g>> /\ g = Sample(c, r)
    BY <2>1, NegativesAre DEF Submissions, NegativeCases
  <2>3. s # <<>> /\ Last(s) = g
    BY <2>2 DEF Last
  <2>4. /\ {"auth", "kind", "outcome", "at", "expires"} \subseteq DOMAIN g
        /\ g.kind = "effect" /\ g.outcome = "applied" /\ g.at = r.at
    BY <2>2, SampleIs
  <2> HIDE DEF s
  <2>5. PICK e : t = Append(Front(s), e) /\ Carried(e) /\ e.kind = "effect" /\ e.at = r.at
    <3>1. CASE d = "ungated"
      <4>1. PICK e : e = [g EXCEPT !.auth = None]
        OBVIOUS
      <4>2. t = Append(Front(s), e)
        BY <2>3, <3>1, <4>1 DEF Departed
      <4>3. Carried(e) /\ e.kind = "effect" /\ e.at = r.at
        BY <2>4, <4>1 DEF Carried
      <4> QED
        BY <4>2, <4>3
    <3>2. CASE d = "keeps"
      <4>1. PICK e : e = [g EXCEPT !.expires = FALSE]
        OBVIOUS
      <4>2. t = Append(Front(s), e)
        BY <2>3, <3>2, <4>1 DEF Departed
      <4>3. Carried(e) /\ e.kind = "effect" /\ e.at = r.at
        BY <2>4, <4>1 DEF Carried, Applied
      <4> QED
        BY <4>2, <4>3
    <3> QED
      BY <1>4, <3>1, <3>2
  <2> HIDE DEF t
  <2>6. r.case # "emit"
    BY <2>1
  <2> QED
    BY <1>1, <2>3, <2>5, <2>6, AmendedAnswers
<1>5. CASE d \in {"itemizes", "oversamples", "undercounts", "repeats"}
  <2>1. r.case = "emit"
    BY <1>0, <1>5 DEF Departures, NegativeCases
  <2>2. PICK g : s = <<g>> /\ g = Aggregate(c, r, Calls(r.action))
    BY <2>1, NegativesAre DEF Submissions, NegativeCases
  <2>3. s # <<>> /\ Last(s) = g
    BY <2>2 DEF Last
  <2>4. /\ {"auth", "kind", "outcome", "action", "folds", "samples"} \subseteq DOMAIN g
        /\ g.outcome = "applied" /\ g.action = r.action.action
    BY <2>2, AggregateIs
  <2> HIDE DEF s
  <2>5. CASE d \in {"itemizes", "oversamples", "undercounts"}
    <3>1. PICK e : t = Append(Front(s), e) /\ e.outcome = "applied" /\ e.action = g.action
      <4>1. CASE d = "itemizes"
        <5>1. PICK e : e = [g EXCEPT !.kind = "effect", !.folds = 0]
          OBVIOUS
        <5>2. t = Append(Front(s), e)
          BY <2>3, <4>1, <5>1 DEF Departed
        <5>3. e.outcome = "applied" /\ e.action = g.action
          BY <2>4, <5>1
        <5> QED
          BY <5>2, <5>3
      <4>2. CASE d = "oversamples"
        <5>1. PICK e : e = [g EXCEPT !.samples = r.action.max + 1]
          OBVIOUS
        <5>2. t = Append(Front(s), e)
          BY <2>3, <4>2, <5>1 DEF Departed
        <5>3. e.outcome = "applied" /\ e.action = g.action
          BY <2>4, <5>1
        <5> QED
          BY <5>2, <5>3
      <4>3. CASE d = "undercounts"
        <5>1. PICK e : e = [g EXCEPT !.folds = @ - 1]
          OBVIOUS
        <5>2. t = Append(Front(s), e)
          BY <2>3, <4>3, <5>1 DEF Departed
        <5>3. e.outcome = "applied" /\ e.action = g.action
          BY <2>4, <5>1
        <5> QED
          BY <5>2, <5>3
      <4> QED
        BY <2>5, <4>1, <4>2, <4>3
    <3> HIDE DEF t
    <3>2. Carried(e) /\ e.action = r.action.action
      BY <2>4, <3>1 DEF Carried, Applied
    <3>3. r.case # "sample"
      BY <2>1
    <3> QED
      BY <1>1, <2>3, <3>1, <3>2, <3>3, AmendedAnswers
  <2>6. CASE d = "repeats"
    <3>1. PICK e : t = <<e, e>> /\ e = [g EXCEPT !.folds = @ \div 2]
      BY <2>3, <2>6 DEF Departed
    <3>2. Carried(e) /\ e.action = r.action.action
      BY <2>4, <3>1 DEF Carried, Applied
    <3> HIDE DEF t
    <3>3. IsSeq(t) /\ Range(t) = {e}
      BY <3>1, TwoIsSeq
    <3>4. r.case # "sample"
      BY <2>1
    <3> QED
      BY <3>2, <3>3, <3>4 DEF Answers
  <2> QED
    BY <1>5, <2>5, <2>6
<1>6. CASE d \in {"applies", "renumbers", "unlinks"}
  <2>1. r.case = "offline"
    BY <1>0, <1>6 DEF Departures, NegativeCases
  <2>2. s = Queue(c, r) /\ s # <<>> /\ IsSeq(s)
    BY <2>1, NegativesAre, QueueHeld DEF Submissions, NegativeCases
  <2>3. \A e \in Range(s) : "auth" \in DOMAIN e /\ e.auth = None
    BY <2>2, QueueHeld
  <2>4. PICK e \in Range(s) : e = Last(s)
    BY <2>2, FrontIsSeq
  <2>5. CASE d \in {"applies", "unlinks"}
    <3>1. PICK f : t = Append(Front(s), f) /\ Carried(f)
      <4>1. CASE d = "applies"
        <5>1. t = Append(Front(s), [e EXCEPT !.outcome = "applied"])
          BY <2>2, <2>4, <4>1 DEF Departed
        <5>2. [e EXCEPT !.outcome = "applied"].auth = None
          BY <2>3
        <5> QED
          BY <5>1, <5>2 DEF Carried
      <4>2. CASE d = "unlinks"
        <5>1. t = Append(Front(s), [e EXCEPT !.prev = 0])
          BY <2>2, <2>4, <4>2 DEF Departed
        <5>2. [e EXCEPT !.prev = 0].auth = None
          BY <2>3
        <5> QED
          BY <5>1, <5>2 DEF Carried
      <4> QED
        BY <2>5, <4>1, <4>2
    <3>2. r.case # "sample" /\ r.case # "emit"
      BY <2>1
    <3> HIDE DEF s, t
    <3> QED
      BY <1>1, <2>2, <3>1, <3>2, AmendedAnswers
  <2>6. CASE d = "renumbers"
    <3>1. t = [i \in DOMAIN s |-> [s[i] EXCEPT !.seq = @ + 1]]
      BY <2>6 DEF Departed
    <3> HIDE DEF s, t
    <3>2. PICK n \in Nat : DOMAIN s = 1 .. n
      BY <2>2 DEF IsSeq
    <3>3. IsSeq(t)
      <4>1. t = [i \in 1 .. n |-> t[i]]
        BY <3>1, <3>2
      <4> QED
        BY <3>2, <4>1, ListIsSeq
    <3>4. ASSUME NEW f \in Range(t) PROVE Carried(f)
      <4>1. PICK i \in DOMAIN s : f = [s[i] EXCEPT !.seq = @ + 1]
        BY <3>1 DEF Range
      <4>2. "auth" \in DOMAIN s[i] /\ s[i].auth = None
        BY <2>3, <4>1 DEF Range
      <4> QED
        BY <4>1, <4>2 DEF Carried
    <3>5. r.case # "sample" /\ r.case # "emit"
      BY <2>1
    <3> QED
      BY <3>3, <3>4, <3>5 DEF Answers
  <2> QED
    BY <1>6, <2>5, <2>6
<1>7. CASE d = "complies"
  <2>1. r.case \in NegativeCases /\ r.case # "sample" /\ r.case # "emit"
    BY <1>0, <1>7 DEF Departures, NegativeCases
  <2>2. s # <<>>
    BY <2>1, SubmissionsAnswer
  <2>3. PICK e, g : e = Last(s) /\ g = Signed(c, r, ReadAction)
    OBVIOUS
  <2>4. PICK f : f = [g EXCEPT !.id = e.id, !.seq = e.seq, !.prev = e.prev]
    OBVIOUS
  <2>5. t = Append(Front(s), f)
    BY <1>7, <2>2, <2>3, <2>4 DEF Departed
  <2>6. "auth" \in DOMAIN g /\ g.auth = None
    BY <2>3, SignedIs
  <2>7. Carried(f)
    BY <2>4, <2>6 DEF Carried
  <2> HIDE DEF s, t
  <2> QED
    BY <1>1, <2>1, <2>2, <2>5, <2>7, AmendedAnswers
<1>8. d \in {"none", "error", "wrong", "advances", "stays", "ungated", "keeps", "itemizes",
             "oversamples", "undercounts", "repeats", "applies", "renumbers", "unlinks",
             "complies"}
  BY DEF Departures
<1> QED
  BY <1>2, <1>3, <1>4, <1>5, <1>6, <1>7, <1>8

--------------------------------------------------------------------------------
(* The script. *)

(* A step belongs to a group that can fail, but the two that belong to none.  *)
Planned(s) ==
  /\ s.case \notin {"hello", "clock"} => s.group \in Groups
  /\ s.group = "negative-cases" <=> s.case \in NegativeCases \cup {"administrative-path"}
  /\ s.case = "objects" => s.group = "durable-objects"

(* What the steps that are about an action are about. *)
Declared(m, s) ==
  /\ s.case = "sample" => s.action \in Range(m)
  /\ s.case = "emit" => s.action \in Range(Reads(m))
  /\ s.case = "unblockable" => Gated(m) = <<>>

(* No gated action is declared twice. *)
DeclaredOnce(m) ==
  \A i, j \in DOMAIN Gated(m) : Gated(m)[i].action = Gated(m)[j].action => i = j

Gates(s) == s.case = "sample" /\ s.action.class = "consequential"

(* The samples come first, and of one action gated there is one; the clock    *)
(* has moved before the negative cases and the decay; a case tried again is   *)
(* tried before, and an approval is used up in one; the durable objects are   *)
(* replayed once.                                                             *)
Follows(m, x, y) ==
  /\ x.case \notin {"hello", "vectors", "sample"} => y.case \notin {"sample", "coverage"}
  /\ x.case \in NegativeCases \cup {"administrative-path", "decay"} => y.case # "clock"
  /\ x.case = "gate-authorization-replayed" => y.case # "gate-authorization-replayed"
  /\ x.case = "administrative-path" => y.case # "gate-authorization-missing"
  /\ x.case = "objects" => y.group # "durable-objects"
  /\ DeclaredOnce(m) /\ Gates(x) /\ Gates(y) => x.action.action # y.action.action

InOrder(m, t) == \A i, j \in DOMAIN t : i < j => Follows(m, t[i], t[j])

LEMMA NoneIsNoGroup == None \notin Groups
BY ConformanceAssumption DEF ConformanceAssumption

LEMMA NegativesDiffer ==
  ASSUME NEW i \in 1 .. 7, NEW j \in 1 .. 7, i # j
  PROVE  Negatives[i] # Negatives[j]
BY DEF Negatives

LEMMA StepIs ==
  ASSUME NEW g, NEW c, NEW a
  PROVE  /\ Step(g, c).group = g /\ Step(g, c).case = c
         /\ StepOn(g, c, a).group = g /\ StepOn(g, c, a).case = c
         /\ StepOn(g, c, a).action = a
BY DEF Step, StepOn

LEMMA JoinInOrder ==
  ASSUME NEW m, NEW p, IsSeq(p), InOrder(m, p), NEW q, IsSeq(q), InOrder(m, q),
         \A x \in Range(p), y \in Range(q) : Follows(m, x, y)
  PROVE  InOrder(m, p \o q)
<1>1. PICK k \in Nat, n \in Nat :
        /\ k = Len(p) /\ n = Len(q) /\ DOMAIN p = 1 .. k /\ DOMAIN q = 1 .. n
  BY DEF IsSeq
<1>2. /\ DOMAIN (p \o q) = 1 .. (k + n)
      /\ \A i \in 1 .. k : (p \o q)[i] = p[i]
      /\ \A i \in 1 .. n : (p \o q)[k + i] = q[i]
  BY <1>1 DEF IsSeq
<1> SUFFICES ASSUME NEW i \in 1 .. (k + n), NEW j \in 1 .. (k + n), i < j
             PROVE  Follows(m, (p \o q)[i], (p \o q)[j])
  BY <1>2 DEF InOrder
<1>3. CASE j <= k
  <2>1. i \in 1 .. k /\ j \in 1 .. k
    BY <1>3
  <2> QED
    BY <1>1, <1>2, <2>1 DEF InOrder
<1>4. CASE i <= k /\ j > k
  <2>1. i \in 1 .. k /\ j - k \in 1 .. n /\ k + (j - k) = j
    BY <1>4
  <2>2. (p \o q)[i] = p[i] /\ (p \o q)[j] = q[j - k]
    BY <1>2, <2>1
  <2>3. p[i] \in Range(p) /\ q[j - k] \in Range(q)
    BY <1>1, <2>1 DEF Range
  <2> QED
    BY <2>2, <2>3
<1>5. CASE i > k
  <2>1. /\ i - k \in 1 .. n /\ k + (i - k) = i /\ j - k \in 1 .. n /\ k + (j - k) = j
        /\ i - k < j - k
    BY <1>5
  <2>2. (p \o q)[i] = q[i - k] /\ (p \o q)[j] = q[j - k]
    BY <1>2, <2>1
  <2> QED
    BY <1>1, <2>1, <2>2 DEF InOrder
<1>6. j <= k \/ (i <= k /\ j > k) \/ i > k
  BY <1>1
<1> QED
  BY <1>3, <1>4, <1>5, <1>6

(* What may come after a step. *)
LEMMA FollowsWhen ==
  ASSUME NEW m, NEW x, NEW y
  PROVE  /\ x.case \in {"hello", "vectors"} => Follows(m, x, y)
         /\ x.case = "sample" /\ y.case # "sample" => Follows(m, x, y)
         /\ /\ x.case \in {"coverage", "emit", "folded", "clock"}
            /\ y.case \notin {"sample", "coverage"}
            => Follows(m, x, y)
         /\ /\ x.case \in NegativeCases
            /\ y.case \notin {"sample", "coverage", "clock"}
            /\ x.case # y.case
            => Follows(m, x, y)
BY DEF Follows, Gates, NegativeCases

LEMMA ScriptIs ==
  ASSUME NEW m, IsSeq(m)
  PROVE  /\ IsSeq(Script(m)) /\ InOrder(m, Script(m))
         /\ \A s \in Range(Script(m)) : Planned(s) /\ Declared(m, s)
         /\ Step("per-action-emission", "coverage") \in Range(Script(m))
         /\ \A a \in Range(m) : StepOn("per-action-emission", "sample", a) \in Range(Script(m))
         /\ \A i \in DOMAIN Reads(m) :
              StepOn("aggregation", "emit", Reads(m)[i]) \in Range(Script(m))
         /\ Step(None, "clock") \in Range(Script(m))
         /\ \A c \in NegativeCases : Step("negative-cases", c) \in Range(Script(m))
         /\ \A g \in Groups : \E s \in Range(Script(m)) : s.group = g
<1> DEFINE
     opening == <<Step(None, "hello"), Step("vectors", "vectors")>>
     samples == [i \in DOMAIN m |-> StepOn("per-action-emission", "sample", m[i])]
     coverage == <<Step("per-action-emission", "coverage")>>
     emits == [i \in DOMAIN Reads(m) |-> StepOn("aggregation", "emit", Reads(m)[i])]
     clock == <<Step("aggregation", "folded"), Step(None, "clock")>>
     negatives == [i \in DOMAIN Negatives |-> Step("negative-cases", Negatives[i])]
     blocked == IF Gated(m) = <<>> THEN "unblockable" ELSE "offline"
     closing == <<Step("negative-cases", "administrative-path"),
                  Step("offline-behaviour", blocked),
                  Step("durable-objects", "objects"),
                  Step("decay-independence", "decay")>>
<1>1. Script(m) = opening \o samples \o coverage \o emits \o clock \o negatives \o closing
  BY DEF Script
<1>2. /\ IsSeq(opening) /\ InOrder(m, opening)
      /\ Range(opening) = {Step(None, "hello"), Step("vectors", "vectors")}
      /\ \A s \in Range(opening) : s.case \in {"hello", "vectors"}
  <2>1. /\ IsSeq(opening)
        /\ Range(opening) = {Step(None, "hello"), Step("vectors", "vectors")}
    BY TwoIsSeq
  <2>2. \A s \in Range(opening) : s.case \in {"hello", "vectors"}
    BY <2>1, StepIs
  <2> HIDE DEF opening
  <2> QED
    BY <2>1, <2>2, FollowsWhen DEF InOrder, Range
<1>3. /\ IsSeq(samples) /\ InOrder(m, samples)
      /\ \A s \in Range(samples) : /\ s.group = "per-action-emission" /\ s.case = "sample"
                                   /\ s.action \in Range(m)
      /\ \A a \in Range(m) : StepOn("per-action-emission", "sample", a) \in Range(samples)
  <2>1. PICK n \in Nat : DOMAIN m = 1 .. n
    BY DEF IsSeq
  <2>2. samples = [i \in 1 .. n |-> samples[i]]
    BY <2>1
  <2>3. IsSeq(samples)
    BY <2>1, <2>2, ListIsSeq
  <2>4. \A i \in DOMAIN m : /\ samples[i].group = "per-action-emission"
                            /\ samples[i].case = "sample" /\ samples[i].action = m[i]
    BY StepIs
  <2>5. \A a \in Range(m) : StepOn("per-action-emission", "sample", a) \in Range(samples)
    BY DEF Range
  <2>6. ASSUME NEW i \in DOMAIN m, NEW j \in DOMAIN m, i < j
        PROVE  Follows(m, samples[i], samples[j])
    <3>1. ASSUME DeclaredOnce(m), m[i].class = "consequential", m[j].class = "consequential"
          PROVE  m[i].action # m[j].action
      <4>1. PICK a \in DOMAIN Gated(m), b \in DOMAIN Gated(m) :
              a # b /\ Gated(m)[a] = m[i] /\ Gated(m)[b] = m[j]
        <5>1. m \in Seq(Range(m)) /\ Gated(m) = OfClass(m, "consequential")
          BY DEF IsSeq, Gated
        <5>2. \A k, l \in DOMAIN m :
                k < l /\ m[k].class = "consequential" /\ m[l].class = "consequential" =>
                  \E a, b \in DOMAIN Gated(m) : a # b /\ Gated(m)[a] = m[k] /\ Gated(m)[b] = m[l]
          BY <5>1, OfClassSelects
        <5> QED
          BY <2>6, <3>1, <5>2
      <4> QED
        BY <3>1, <4>1 DEF DeclaredOnce
    <3>2. /\ samples[i].case = "sample" /\ samples[i].action = m[i]
          /\ samples[j].case = "sample" /\ samples[j].action = m[j]
      BY <2>4
    <3> HIDE DEF samples
    <3> QED
      BY <3>1, <3>2 DEF Follows, Gates, NegativeCases
  <2>7. DOMAIN samples = DOMAIN m
    OBVIOUS
  <2> HIDE DEF samples
  <2>8. \A s \in Range(samples) : \E i \in DOMAIN m : s = samples[i]
    BY <2>7 DEF Range
  <2>9. \A s \in Range(samples) : /\ s.group = "per-action-emission" /\ s.case = "sample"
                                  /\ s.action \in Range(m)
    BY <2>4, <2>8 DEF Range
  <2> QED
    BY <2>3, <2>5, <2>6, <2>7, <2>9 DEF InOrder
<1>4. /\ IsSeq(coverage) /\ InOrder(m, coverage)
      /\ Range(coverage) = {Step("per-action-emission", "coverage")}
  <2>1. DOMAIN coverage = {1}
    OBVIOUS
  <2> QED
    BY <2>1, OneIsSeq DEF InOrder
<1>5. /\ IsSeq(emits) /\ InOrder(m, emits)
      /\ \A s \in Range(emits) : /\ s.group = "aggregation" /\ s.case = "emit"
                                 /\ s.action \in Range(Reads(m))
      /\ \A i \in DOMAIN Reads(m) :
           StepOn("aggregation", "emit", Reads(m)[i]) \in Range(emits)
  <2>1. PICK n \in Nat : DOMAIN Reads(m) = 1 .. n
    BY OfClassSelects DEF IsSeq, Reads
  <2>2. emits = [i \in 1 .. n |-> emits[i]]
    BY <2>1
  <2>3. IsSeq(emits)
    BY <2>1, <2>2, ListIsSeq
  <2>4. \A i \in DOMAIN Reads(m) : /\ emits[i].group = "aggregation" /\ emits[i].case = "emit"
                                   /\ emits[i].action \in Range(Reads(m))
    BY StepIs DEF Range
  <2>5. DOMAIN emits = DOMAIN Reads(m)
    OBVIOUS
  <2>6. \A i \in DOMAIN Reads(m) :
          StepOn("aggregation", "emit", Reads(m)[i]) \in Range(emits)
    BY DEF Range
  <2> HIDE DEF emits
  <2>7. InOrder(m, emits)
    BY <2>4, <2>5, FollowsWhen DEF InOrder
  <2> QED
    BY <2>3, <2>4, <2>5, <2>6, <2>7 DEF Range
<1>6. /\ IsSeq(clock) /\ InOrder(m, clock)
      /\ Range(clock) = {Step("aggregation", "folded"), Step(None, "clock")}
  <2>1. Follows(m, clock[1], clock[2])
    BY StepIs, FollowsWhen
  <2>2. DOMAIN clock = {1, 2}
    OBVIOUS
  <2>3. IsSeq(clock) /\ Range(clock) = {Step("aggregation", "folded"), Step(None, "clock")}
    BY TwoIsSeq
  <2> HIDE DEF clock
  <2> QED
    BY <2>1, <2>2, <2>3 DEF InOrder
<1>7. /\ IsSeq(negatives) /\ InOrder(m, negatives)
      /\ \A s \in Range(negatives) : s.group = "negative-cases" /\ s.case \in NegativeCases
      /\ \A c \in NegativeCases : Step("negative-cases", c) \in Range(negatives)
  <2>1. negatives = [i \in 1 .. 7 |-> negatives[i]] /\ DOMAIN negatives = DOMAIN Negatives
    BY NegativesAre
  <2>2. IsSeq(negatives)
    BY <2>1, ListIsSeq
  <2>3. \A i \in DOMAIN Negatives : /\ negatives[i].group = "negative-cases"
                                    /\ negatives[i].case = Negatives[i]
                                    /\ Negatives[i] \in NegativeCases
    BY StepIs, NegativesAre DEF Range
  <2>4. ASSUME NEW c \in NegativeCases
        PROVE  Step("negative-cases", c) \in Range(negatives)
    <3>1. PICK i \in DOMAIN Negatives : Negatives[i] = c
      BY NegativesAre DEF Range
    <3> QED
      BY <3>1 DEF Range
  <2> HIDE DEF negatives
  <2>5. InOrder(m, negatives)
    <3>1. ASSUME NEW i \in 1 .. 7, NEW j \in 1 .. 7, i < j PROVE Negatives[i] # Negatives[j]
      BY <3>1, NegativesDiffer
    <3>2. ASSUME NEW i \in 1 .. 7, NEW j \in 1 .. 7, i < j
          PROVE  Follows(m, negatives[i], negatives[j])
      <4>1. /\ negatives[i].case \in NegativeCases /\ negatives[j].case \in NegativeCases
            /\ negatives[i].case # negatives[j].case
        BY <2>3, <3>1, <3>2, NegativesAre
      <4> QED
        BY <4>1, FollowsWhen DEF NegativeCases
    <3> QED
      BY <2>1, <3>2, NegativesAre DEF InOrder
  <2> QED
    BY <2>1, <2>2, <2>3, <2>4, <2>5 DEF Range
<1>8. /\ IsSeq(closing) /\ DOMAIN closing = 1 .. 4
      /\ Range(closing) = {Step("negative-cases", "administrative-path"),
                           Step("offline-behaviour", blocked),
                           Step("durable-objects", "objects"),
                           Step("decay-independence", "decay")}
  <2> HIDE DEF blocked
  <2>1. DOMAIN closing = 1 .. 4 /\ closing = [i \in 1 .. 4 |-> closing[i]]
    OBVIOUS
  <2>2. 1 .. 4 = {1, 2, 3, 4}
    OBVIOUS
  <2>3. Range(closing) = {closing[1], closing[2], closing[3], closing[4]}
    <3> HIDE DEF closing
    <3> QED
      BY <2>1, <2>2 DEF Range
  <2>4. IsSeq(closing)
    <3> HIDE DEF closing
    <3> QED
      BY <2>1, ListIsSeq
  <2> QED
    BY <2>1, <2>3, <2>4
<1>9. blocked \in {"unblockable", "offline"} /\ (blocked = "unblockable" => Gated(m) = <<>>)
  OBVIOUS
<1>10. InOrder(m, closing)
  <2> HIDE DEF blocked
  <2>1. /\ closing[1].case = "administrative-path" /\ closing[2].case = blocked
        /\ closing[3].case = "objects"
        /\ closing[4].case = "decay" /\ closing[4].group = "decay-independence"
    BY StepIs
  <2> HIDE DEF closing
  <2>2. ASSUME NEW i \in 1 .. 4, NEW j \in 1 .. 4, i < j
        PROVE  Follows(m, closing[i], closing[j])
    <3>1. /\ closing[j].case \in {blocked, "objects", "decay"}
          /\ closing[i].case = "objects" => j = 4
      <4>1. j \in {2, 3, 4} /\ (i = 3 => j = 4) /\ i \in {1, 2, 3}
        BY <2>2
      <4> QED
        BY <1>9, <2>1, <4>1
    <3>2. closing[i].case \in {"administrative-path", blocked, "objects"}
      <4>1. i \in {1, 2, 3}
        BY <2>2
      <4> QED
        BY <2>1, <4>1
    <3> QED
      BY <1>9, <2>1, <3>1, <3>2 DEF Follows, Gates, NegativeCases
  <2> QED
    BY <1>8, <2>2 DEF InOrder
<1> HIDE DEF opening, samples, coverage, emits, clock, negatives, closing, blocked
(* Put together, part after part. *)
<1> DEFINE first == opening \o samples
           second == first \o coverage
           third == second \o emits
           fourth == third \o clock
           fifth == fourth \o negatives
<1> DEFINE Early(q) == \A s \in Range(q) : s.case \in {"hello", "vectors", "sample",
                                                       "coverage", "emit", "folded", "clock"}
<1>11. /\ IsSeq(first) /\ Range(first) = Range(opening) \cup Range(samples)
       /\ InOrder(m, first)
       /\ \A s \in Range(first) : s.case \in {"hello", "vectors", "sample"}
  <2>1. \A x \in Range(opening), y \in Range(samples) : Follows(m, x, y)
    BY <1>2, FollowsWhen
  <2>2. /\ IsSeq(first) /\ Range(first) = Range(opening) \cup Range(samples)
        /\ InOrder(m, first)
    BY <1>2, <1>3, <2>1, JoinIsSeq, JoinInOrder
  <2> QED
    BY <1>2, <1>3, <2>2
<1>12. /\ IsSeq(second) /\ Range(second) = Range(first) \cup Range(coverage)
       /\ InOrder(m, second) /\ Early(second)
  <2>1. \A y \in Range(coverage) : y.case = "coverage"
    BY <1>4, StepIs
  <2>2. \A x \in Range(first), y \in Range(coverage) : Follows(m, x, y)
    BY <1>11, <2>1, FollowsWhen
  <2> HIDE DEF first
  <2>3. /\ IsSeq(second) /\ Range(second) = Range(first) \cup Range(coverage)
        /\ InOrder(m, second)
    BY <1>4, <1>11, <2>2, JoinIsSeq, JoinInOrder
  <2> QED
    BY <1>11, <2>1, <2>3
<1>13. ASSUME NEW q, Early(q), NEW y, y.case \notin {"sample", "coverage"}
       PROVE  \A x \in Range(q) : Follows(m, x, y)
  BY <1>13, FollowsWhen
<1>14. /\ IsSeq(third) /\ Range(third) = Range(second) \cup Range(emits)
       /\ InOrder(m, third) /\ Early(third)
  <2> HIDE DEF second
  <2>1. \A x \in Range(second), y \in Range(emits) : Follows(m, x, y)
    BY <1>5, <1>12, <1>13
  <2>2. /\ IsSeq(third) /\ Range(third) = Range(second) \cup Range(emits)
        /\ InOrder(m, third)
    BY <1>5, <1>12, <2>1, JoinIsSeq, JoinInOrder
  <2> QED
    BY <1>5, <1>12, <2>2
<1>15. /\ IsSeq(fourth) /\ Range(fourth) = Range(third) \cup Range(clock)
       /\ InOrder(m, fourth) /\ Early(fourth)
  <2> HIDE DEF third
  <2>1. \A y \in Range(clock) : y.case \in {"folded", "clock"}
    BY <1>6, StepIs
  <2>2. \A x \in Range(third), y \in Range(clock) : Follows(m, x, y)
    BY <1>13, <1>14, <2>1
  <2>3. /\ IsSeq(fourth) /\ Range(fourth) = Range(third) \cup Range(clock)
        /\ InOrder(m, fourth)
    BY <1>6, <1>14, <2>2, JoinIsSeq, JoinInOrder
  <2> QED
    BY <1>14, <2>1, <2>3
<1>16. /\ IsSeq(fifth) /\ Range(fifth) = Range(fourth) \cup Range(negatives)
       /\ InOrder(m, fifth)
  <2> HIDE DEF fourth
  <2>1. \A y \in Range(negatives) : y.case \notin {"sample", "coverage"}
    BY <1>7 DEF NegativeCases
  <2>2. \A x \in Range(fourth), y \in Range(negatives) : Follows(m, x, y)
    BY <1>13, <1>15, <2>1
  <2> QED
    BY <1>7, <1>15, <2>2, JoinIsSeq, JoinInOrder
<1>17. /\ IsSeq(Script(m)) /\ InOrder(m, Script(m))
       /\ Range(Script(m)) = Range(fifth) \cup Range(closing)
  <2>1. Script(m) = fifth \o closing
    BY <1>1
  <2> HIDE DEF fifth, fourth
  <2>2. \A y \in Range(closing) :
          y.case \in {"administrative-path", "unblockable", "offline", "objects", "decay"}
    <3>1. \A y \in Range(closing) : y.case \in {"administrative-path", blocked, "objects", "decay"}
      BY <1>8, StepIs
    <3> QED
      BY <1>9, <3>1
  <2>3. \A x \in Range(fourth), y \in Range(closing) : Follows(m, x, y)
    BY <1>13, <1>15, <2>2
  <2>4. \A x \in Range(negatives), y \in Range(closing) : Follows(m, x, y)
    <3>1. \A x \in Range(negatives), y \in Range(closing) :
            /\ y.case \notin {"sample", "coverage", "clock"}
            /\ x.case # y.case
      BY <1>7, <2>2 DEF NegativeCases
    <3> QED
      BY <1>7, <3>1, FollowsWhen
  <2>5. \A x \in Range(fifth), y \in Range(closing) : Follows(m, x, y)
    BY <1>16, <2>3, <2>4
  <2> QED
    BY <1>8, <1>10, <1>16, <2>1, <2>5, JoinIsSeq, JoinInOrder
<1>18. Range(Script(m)) = Range(opening) \cup Range(samples) \cup Range(coverage)
         \cup Range(emits) \cup Range(clock) \cup Range(negatives) \cup Range(closing)
  <2> HIDE DEF first, second, third, fourth, fifth
  <2> QED
    BY <1>11, <1>12, <1>14, <1>15, <1>16, <1>17
<1> HIDE DEF first, second, third, fourth, fifth, Early
<1>19. \A s \in Range(Script(m)) : Planned(s) /\ Declared(m, s)
  <2>1. \A s \in Range(opening) \cup Range(clock) : Planned(s) /\ Declared(m, s)
    <3>1. \A s \in Range(opening) \cup Range(clock) :
            \/ s.group = None /\ s.case \in {"hello", "clock"}
            \/ s.group = "vectors" /\ s.case = "vectors"
            \/ s.group = "aggregation" /\ s.case = "folded"
      BY <1>2, <1>6, StepIs
    <3>2. None # "negative-cases"
      BY NoneIsNoGroup DEF Groups
    <3> QED
      BY <3>1, <3>2 DEF Planned, Declared, Groups, NegativeCases
  <2>2. \A s \in Range(samples) \cup Range(emits) : Planned(s) /\ Declared(m, s)
    BY <1>3, <1>5, StepIs DEF Planned, Declared, Groups, NegativeCases
  <2>3. \A s \in Range(coverage) : Planned(s) /\ Declared(m, s)
    BY <1>4, StepIs DEF Planned, Declared, Groups, NegativeCases
  <2>4. \A s \in Range(negatives) : Planned(s) /\ Declared(m, s)
    BY <1>7 DEF Planned, Declared, Groups, NegativeCases
  <2>5. \A s \in Range(closing) : Planned(s) /\ Declared(m, s)
    <3>1. \A s \in Range(closing) :
            \/ s.group = "negative-cases" /\ s.case = "administrative-path"
            \/ s.group = "offline-behaviour" /\ s.case = blocked
            \/ s.group = "durable-objects" /\ s.case = "objects"
            \/ s.group = "decay-independence" /\ s.case = "decay"
      BY <1>8, StepIs
    <3> QED
      BY <1>9, <3>1 DEF Planned, Declared, Groups, NegativeCases
  <2> QED
    BY <1>18, <2>1, <2>2, <2>3, <2>4, <2>5
<1>20. ASSUME NEW g \in Groups PROVE \E s \in Range(Script(m)) : s.group = g
  <2> DEFINE
       one == {Step("vectors", "vectors"), Step("per-action-emission", "coverage"),
               Step("aggregation", "folded"), Step("negative-cases", "administrative-path"),
               Step("offline-behaviour", blocked), Step("durable-objects", "objects"),
               Step("decay-independence", "decay")}
  <2>1. one \subseteq Range(Script(m))
    BY <1>2, <1>4, <1>6, <1>8, <1>18
  <2>2. \E s \in one : s.group = g
    <3>1. g = "vectors" => \E s \in one : s.group = g
      BY StepIs, Step("vectors", "vectors") \in one
    <3>2. g = "per-action-emission" => \E s \in one : s.group = g
      BY StepIs, Step("per-action-emission", "coverage") \in one
    <3>3. g = "aggregation" => \E s \in one : s.group = g
      BY StepIs, Step("aggregation", "folded") \in one
    <3>4. g = "negative-cases" => \E s \in one : s.group = g
      BY StepIs, Step("negative-cases", "administrative-path") \in one
    <3>5. g = "offline-behaviour" => \E s \in one : s.group = g
      BY StepIs, Step("offline-behaviour", blocked) \in one
    <3>6. g = "durable-objects" => \E s \in one : s.group = g
      BY StepIs, Step("durable-objects", "objects") \in one
    <3>7. g = "decay-independence" => \E s \in one : s.group = g
      BY StepIs, Step("decay-independence", "decay") \in one
    <3> QED
      BY <3>1, <3>2, <3>3, <3>4, <3>5, <3>6, <3>7 DEF Groups
  <2> QED
    BY <2>1, <2>2
<1> QED
  BY <1>3, <1>4, <1>5, <1>6, <1>7, <1>17, <1>18, <1>19, <1>20

--------------------------------------------------------------------------------
(* The invariant. *)

(* What is on its way to the component and back. *)
Piped ==
  /\ IsSeq(inbox) /\ \A r \in Range(inbox) : Asked(r)
  /\ IsSeq(outbox) /\ \A a \in Range(outbox) : Answers(a.subs, a.to)

(* What the harness holds of it, and what the throwaway kernel took. *)
Held(q) == IsSeq(q) /\ \A e \in Range(q) : Carried(e)

Holds == Held(collected) /\ Held(subs) /\ Held(sent) /\ Held(kept) /\ Held(log)

(* The kernel took nothing gated but under an approval of its own. *)
Authorized ==
  /\ \A e \in Range(log) : PolicyClass(e.action) = "consequential" /\ Applied(e)
                             => e.auth = <<e.action, e.target>>
  /\ \A e \in Range(log) : e.auth # None => e.auth \in spent
  /\ \A e, f \in Range(log) : e.auth # None /\ e.auth = f.auth => e = f

(* The steps still ahead. *)
Ahead ==
  /\ IsSeq(todo) /\ InOrder(manifest, todo)
  /\ \A s \in Range(todo) : Planned(s)
  /\ moved => \A s \in Range(todo) : s.case # "sample"

(* A group that failed is over. *)
Judged ==
  /\ groups \in [Groups -> {"not-run", "passed", "failed", "not-applicable"}]
  /\ \A s \in Range(todo) : s.group \in Groups => groups[s.group] # "failed"

About ==
  /\ mode \in {"next", "asking", "submitting"}
  /\ mode # "next" => todo # <<>>
  /\ mode = "asking" => Asked(Now)
  /\ mode = "submitting" => Now.group \in Groups
  /\ ended = "green" => todo = <<>> /\ Outstanding = {}

(* A run that nothing has been held against. *)
Clean == ended # "error" /\ \A g \in Groups : groups[g] # "failed"

(* Every answer was the answer to what was asked. *)
InStep ==
  /\ ~misread
  /\ mode # "asking" => inbox = <<>> /\ outbox = <<>>
  /\ mode = "asking" =>
       \/ inbox = <<Request>> /\ outbox = <<>>
       \/ inbox = <<>> /\ \E a \in Range(outbox) : outbox = <<a>> /\ a.to = Request

Sampled(e) == e.kind = "effect" /\ e.at = "early"
Recorded(e, a) == /\ e.kind = "aggregate" /\ e.action = a.action
                  /\ e.samples \in 1 .. a.max
Attempted == \E e \in Range(log) : e.outcome = "attempted"

(* What the submissions of the step in hand are. *)
InHandAre ==
  /\ \A e \in Range(collected) : Sampled(e)
  /\ mode = "submitting" =>
       /\ Now.case = "coverage" =>
            /\ \A e \in Range(subs) \cup Range(sent) : Sampled(e)
            /\ Range(sent) \subseteq Range(log)
       /\ Now.case = "emit" =>
            /\ \A e \in Range(subs) : e.action = Now.action.action
            /\ \A e \in Range(sent) : e.kind = "aggregate" => Recorded(e, Now.action)
            /\ Range(sent) \subseteq Range(log)
       /\ Now.case = "prohibited-attempted" => subs # <<>> \/ Attempted

(* What the steps that are over have left behind. *)
AllSampled ==
  \A i \in DOMAIN manifest :
    \E e \in Range(log) : Sampled(e) /\ e.action = manifest[i].action

LeftBehind ==
  /\ Step("per-action-emission", "coverage") \in Range(todo) \/ AllSampled
  /\ \A i \in DOMAIN Reads(manifest) :
       \/ StepOn("aggregation", "emit", Reads(manifest)[i]) \in Range(todo)
       \/ \E e \in Range(log) : Recorded(e, Reads(manifest)[i])
  /\ Step("negative-cases", "prohibited-attempted") \in Range(todo) \/ Attempted
  /\ PersonsDecide(objects)

Exchanged == manifest \in Manifests /\ Piped /\ Holds /\ Authorized
Course == Ahead /\ Judged /\ About
Earned == Clean => InStep /\ InHandAre /\ LeftBehind

ConformanceInv == Exchanged /\ Course /\ Earned

(* Initially. *)

LEMMA ManifestIs ==
  ASSUME manifest \in Manifests
  PROVE  IsSeq(manifest) /\ IsSeq(Reads(manifest))
<1>1. IsSeq(manifest)
  BY ConformanceAssumption DEF ConformanceAssumption, IsSeq
<1>2. /\ Reads(manifest) \in Seq(Range(manifest))
      /\ DOMAIN Reads(manifest) = 1 .. Len(Reads(manifest)) /\ Len(Reads(manifest)) \in Nat
  BY <1>1, OfClassSelects DEF Reads, IsSeq
<1>3. Reads(manifest) = [i \in 1 .. Len(Reads(manifest)) |-> Reads(manifest)[i]]
  BY <1>2
<1> QED
  BY <1>1, <1>2, <1>3, ListIsSeq

LEMMA Begins == Init => ConformanceInv
<1> SUFFICES ASSUME Init PROVE ConformanceInv
  OBVIOUS
<1> USE DEF Init
<1>1. manifest \in Manifests /\ IsSeq(manifest)
  BY ManifestIs
<1>2. Exchanged
  BY <1>1, NoneIsSeq DEF Exchanged, Piped, Holds, Held, Authorized
<1>3. Ahead
  BY <1>1, ScriptIs DEF Ahead
<1>4. Judged
  BY DEF Judged
<1>5. About
  BY DEF About
<1>6. InStep
  BY DEF InStep
<1>7. InHandAre
  BY NoneIsSeq DEF InHandAre
<1>8. LeftBehind
  <2>1. PersonsDecide(objects)
    BY DEF PersonsDecide
  <2> QED
    BY <1>1, <2>1, ScriptIs DEF LeftBehind, NegativeCases
<1> QED
  BY <1>2, <1>3, <1>4, <1>5, <1>6, <1>7, <1>8 DEF ConformanceInv, Course, Earned

(* The moves the harness makes along the script. *)

LEMMA TailInOrder ==
  ASSUME NEW m, NEW q, IsSeq(q), InOrder(m, q), q # <<>>
  PROVE  InOrder(m, Tail(q)) /\ \A s \in Range(Tail(q)) : Follows(m, Head(q), s)
<1>1. PICK n \in Nat : n = Len(q) /\ n # 0 /\ DOMAIN q = 1 .. n
  BY DEF IsSeq
<1>2. /\ DOMAIN Tail(q) = 1 .. (n - 1) /\ Head(q) = q[1]
      /\ \A i \in 1 .. (n - 1) : Tail(q)[i] = q[i + 1]
  BY <1>1 DEF IsSeq
<1>3. \A i \in 1 .. (n - 1) : i + 1 \in 1 .. n /\ 1 < i + 1 /\ 1 \in 1 .. n
  BY <1>1
<1>4. InOrder(m, Tail(q))
  <2>1. ASSUME NEW i \in 1 .. (n - 1), NEW j \in 1 .. (n - 1), i < j
        PROVE  Follows(m, Tail(q)[i], Tail(q)[j])
    <3>1. i + 1 \in 1 .. n /\ j + 1 \in 1 .. n /\ i + 1 < j + 1
      BY <1>3, <2>1
    <3>2. Follows(m, q[i + 1], q[j + 1])
      BY <1>1, <3>1 DEF InOrder
    <3> QED
      BY <1>2, <3>2
  <2> QED
    BY <1>2, <2>1 DEF InOrder
<1>5. ASSUME NEW s \in Range(Tail(q)) PROVE Follows(m, Head(q), s)
  <2>1. PICK i \in 1 .. (n - 1) : s = q[i + 1]
    BY <1>2 DEF Range
  <2> QED
    BY <1>1, <1>2, <1>3, <2>1 DEF InOrder
<1> QED
  BY <1>4, <1>5

LEMMA RestInOrder ==
  ASSUME NEW m, NEW q, IsSeq(q), InOrder(m, q), NEW n \in DOMAIN q
  PROVE  LET r == SubSeq(q, n + 1, Len(q)) IN
         /\ IsSeq(r) /\ InOrder(m, r)
         /\ \A s \in Range(r) : \E i \in DOMAIN q : i > n /\ s = q[i]
<1>1. PICK k \in Nat : k = Len(q) /\ DOMAIN q = 1 .. k
  BY DEF IsSeq
<1> DEFINE r == SubSeq(q, n + 1, Len(q))
<1>2. n \in 1 .. k /\ k - n \in Nat
  BY <1>1
<1>3. r = [i \in 1 .. (k - n) |-> q[n + i]]
  <2>1. r = [i \in 1 .. (1 + k - (n + 1)) |-> q[(n + 1) + i - 1]]
    BY <1>1, <1>2
  <2>2. 1 + k - (n + 1) = k - n /\ \A i \in 1 .. (k - n) : (n + 1) + i - 1 = n + i
    BY <1>1, <1>2
  <2> QED
    BY <2>1, <2>2
<1> HIDE DEF r
<1>4. IsSeq(r)
  <2>1. r = [i \in 1 .. (k - n) |-> r[i]]
    BY <1>3
  <2> QED
    BY <1>2, <2>1, ListIsSeq
<1>5. \A i \in 1 .. (k - n) : n + i \in 1 .. k /\ n + i > n
  BY <1>1, <1>2
<1>6. InOrder(m, r)
  <2>1. ASSUME NEW i \in 1 .. (k - n), NEW j \in 1 .. (k - n), i < j
        PROVE  Follows(m, r[i], r[j])
    <3>1. n + i \in 1 .. k /\ n + j \in 1 .. k /\ n + i < n + j
      BY <1>2, <1>5, <2>1
    <3>2. Follows(m, q[n + i], q[n + j])
      BY <1>1, <3>1 DEF InOrder
    <3> QED
      BY <1>3, <3>2
  <2> QED
    BY <1>3, <2>1 DEF InOrder
<1>7. ASSUME NEW s \in Range(r) PROVE \E i \in DOMAIN q : i > n /\ s = q[i]
  <2>1. PICK i \in 1 .. (k - n) : s = q[n + i]
    BY <1>3 DEF Range
  <2> QED
    BY <1>1, <1>5, <2>1
<1> QED
  BY <1>4, <1>6, <1>7 DEF r

(* On to the next step: nothing that failed is taken up again. *)
LEMMA TailAhead ==
  ASSUME Ahead, todo # <<>>, todo' = Tail(todo), UNCHANGED manifest,
         UNCHANGED moved \/ Now.case = "clock"
  PROVE  Ahead' /\ Range(todo) = Range(todo') \cup {Now}
<1>1. /\ IsSeq(todo') /\ Range(todo) = Range(todo') \cup {Now}
  BY RestIsSeq DEF Ahead, Now
<1>2. InOrder(manifest, todo') /\ \A s \in Range(todo') : Follows(manifest, Now, s)
  BY TailInOrder DEF Ahead, Now
<1>3. \A s \in Range(todo') : Planned(s)
  BY <1>1 DEF Ahead
<1>4. moved' => \A s \in Range(todo') : s.case # "sample"
  BY <1>1, <1>2 DEF Ahead, Follows
<1> QED
  BY <1>1, <1>2, <1>3, <1>4 DEF Ahead

LEMMA PassKeeps ==
  ASSUME Ahead, Judged, todo # <<>>, Pass, UNCHANGED manifest,
         UNCHANGED moved \/ Now.case = "clock"
  PROVE  /\ Ahead' /\ Judged' /\ mode' = "next"
         /\ Range(todo) = Range(todo') \cup {Now}
         /\ \A g \in Groups : groups'[g] # "failed" => groups[g] # "failed"
<1>1. todo' = Tail(todo) /\ mode' = "next"
  BY DEF Pass
<1>2. Ahead' /\ Range(todo) = Range(todo') \cup {Now}
  BY <1>1, TailAhead
<1>3. /\ groups' \in [Groups -> {"not-run", "passed", "failed", "not-applicable"}]
      /\ \A g \in Groups : groups'[g] = groups[g] \/ (g = Now.group /\ groups'[g] = "passed")
  <2>1. groups' = groups \/ groups' = [groups EXCEPT ![Now.group] = "passed"]
    BY DEF Pass, Record
  <2> QED
    BY <2>1 DEF Judged
<1>4. Judged'
  BY <1>2, <1>3 DEF Judged
<1>5. \A g \in Groups : groups'[g] # "failed" => groups[g] # "failed"
  BY <1>2, <1>3 DEF Judged
<1> QED
  BY <1>1, <1>2, <1>4, <1>5

LEMMA FailKeeps ==
  ASSUME Ahead, Judged, Fail, Now.group \in Groups, UNCHANGED <<manifest, moved>>
  PROVE  Ahead' /\ Judged' /\ mode' = "next" /\ ~Clean'
<1>1. PICK n \in DOMAIN todo :
        /\ \A i \in DOMAIN todo : i <= n <=> todo[i].group = Now.group
        /\ todo' = SubSeq(todo, n + 1, Len(todo))
  BY DEF Fail
<1>2. mode' = "next" /\ groups' = [groups EXCEPT ![Now.group] = "failed"]
  BY DEF Fail, Record
<1>3. /\ IsSeq(todo') /\ InOrder(manifest, todo')
      /\ \A s \in Range(todo') : \E i \in DOMAIN todo : i > n /\ s = todo[i]
  BY <1>1, RestInOrder DEF Ahead
<1>4. \A s \in Range(todo') : s \in Range(todo) /\ s.group # Now.group
  <2>1. TAKE s \in Range(todo')
  <2>2. PICK i \in DOMAIN todo : i > n /\ s = todo[i]
    BY <1>3
  <2>3. i \in Nat /\ n \in Nat
    BY DEF Ahead, IsSeq
  <2> QED
    BY <1>1, <2>2, <2>3 DEF Range
<1>5. Ahead'
  BY <1>3, <1>4 DEF Ahead
<1>6. Judged' /\ groups'[Now.group] = "failed"
  BY <1>2, <1>4 DEF Judged
<1> QED
  BY <1>2, <1>5, <1>6 DEF Clean

(* What was left behind stays, and a step that is over without leaving        *)
(* anything has none to leave.                                                *)
LEMMA LeftStays ==
  ASSUME LeftBehind, Range(todo) \subseteq Range(todo') \cup {Now},
         UNCHANGED manifest, Range(log) \subseteq Range(log'), PersonsDecide(objects)',
         todo' # todo => Now.case \notin {"coverage", "emit", "prohibited-attempted"}
  PROVE  LeftBehind'
<1>1. ASSUME NEW s \in Range(todo), s.case \in {"coverage", "emit", "prohibited-attempted"}
      PROVE  s \in Range(todo')
  BY <1>1
<1>2. Step("per-action-emission", "coverage") \in Range(todo) => 
        Step("per-action-emission", "coverage") \in Range(todo')
  BY <1>1, StepIs
<1>3. AllSampled => AllSampled'
  BY DEF AllSampled
<1>4. ASSUME NEW i \in DOMAIN Reads(manifest)
      PROVE  \/ StepOn("aggregation", "emit", Reads(manifest)[i]) \in Range(todo')
             \/ \E e \in Range(log') : Recorded(e, Reads(manifest)[i])
  <2>1. StepOn("aggregation", "emit", Reads(manifest)[i]).case = "emit"
    BY StepIs
  <2> QED
    BY <1>1, <2>1 DEF LeftBehind
<1>5. Reads(manifest)' = Reads(manifest)
  OBVIOUS
<1>6. Step("negative-cases", "prohibited-attempted") \in Range(todo) =>
        Step("negative-cases", "prohibited-attempted") \in Range(todo')
  BY <1>1, StepIs
<1>7. Attempted => Attempted'
  BY DEF Attempted
<1> QED
  BY <1>2, <1>3, <1>4, <1>5, <1>6, <1>7 DEF LeftBehind

(* Step by step.  What the run is held to be, when nothing of it changes. *)

LEMMA ExchangedStays ==
  ASSUME Exchanged, UNCHANGED <<manifest, log, spent>>, Piped',
         Held(collected)', Held(subs)', Held(sent)', Held(kept)'
  PROVE  Exchanged'
BY DEF Exchanged, Holds, Authorized, Held

LEMMA HeldRest ==
  ASSUME NEW q, Held(q), q # <<>>
  PROVE  Held(Tail(q)) /\ Carried(Head(q))
BY RestIsSeq DEF Held

LEMMA NoneHeld == Held(<<>>)
BY NoneIsSeq DEF Held

LEMMA StutterKeeps == ConformanceInv /\ UNCHANGED vars => ConformanceInv'
<1> SUFFICES ASSUME ConformanceInv, UNCHANGED vars PROVE ConformanceInv'
  OBVIOUS
<1> USE DEF vars, runVars, kernelVars, pipeVars
<1>1. Exchanged'
  BY DEF ConformanceInv, Exchanged, Piped, Holds, Held, Authorized
<1>2. Course'
  BY DEF ConformanceInv, Course, Ahead, Judged, About, Outstanding, Now
<1>3. Earned'
  BY DEF ConformanceInv, Earned, Clean, InStep, Request, Now, InHandAre, Attempted, LeftBehind, AllSampled
<1> QED
  BY <1>1, <1>2, <1>3 DEF ConformanceInv

LEMMA AskKeeps ==
  ASSUME ConformanceInv, Ask
  PROVE  ConformanceInv'
<1> USE DEF Ask, kernelVars
<1>0. /\ mode = "next" /\ todo # <<>> /\ Asked(Now) /\ Running
      /\ Exchanged /\ Course /\ Earned
  BY DEF ConformanceInv, InHand
<1>1. /\ Request.case = Now.case /\ Asked(Request) /\ Request' = Request /\ Now' = Now
  BY DEF Request, Asked, Now
<1>2. /\ IsSeq(inbox') /\ Range(inbox') = Range(inbox) \cup {Request}
  BY <1>0, AppendIsSeq DEF Exchanged, Piped
<1>3. Piped'
  BY <1>0, <1>1, <1>2 DEF Exchanged, Piped
<1>4. Exchanged'
  BY <1>0, <1>3, ExchangedStays DEF Exchanged, Holds, Held
<1>5. Course'
  BY <1>0, <1>1 DEF Course, Ahead, Judged, About, Running
<1>6. ASSUME Clean' PROVE InStep' /\ InHandAre' /\ LeftBehind'
  <2>1. Clean /\ InStep /\ InHandAre /\ LeftBehind
    BY <1>0, <1>6 DEF Clean, Earned
  <2>2. inbox = <<>> /\ outbox = <<>>
    BY <1>0, <2>1 DEF InStep
  <2>3. inbox' = <<Request>> /\ outbox' = <<>> /\ mode' = "asking" /\ ~misread'
    BY <2>1, <2>2 DEF InStep
  <2>4. InStep'
    BY <1>1, <2>3 DEF InStep
  <2>5. InHandAre'
    BY <2>1, <2>3 DEF InHandAre
  <2>6. LeftBehind'
    BY <2>1 DEF LeftBehind, AllSampled, Attempted
  <2> QED
    BY <2>4, <2>5, <2>6
<1> QED
  BY <1>4, <1>5, <1>6 DEF ConformanceInv, Earned

(* An answer, honest or not, to the request it answers. *)
LEMMA AnsweredKeeps ==
  ASSUME ConformanceInv, ended = "running", inbox # <<>>, inbox' = Tail(inbox),
         NEW a, outbox' = Append(outbox, a), a.to = Head(inbox), Answers(a.subs, a.to),
         UNCHANGED <<runVars, kernelVars, misread>>
  PROVE  ConformanceInv'
<1> USE DEF runVars, kernelVars
<1>0. Exchanged /\ Course /\ Earned
  BY DEF ConformanceInv
<1>1. /\ IsSeq(inbox') /\ Range(inbox') \subseteq Range(inbox)
      /\ IsSeq(outbox') /\ Range(outbox') = Range(outbox) \cup {a}
  BY <1>0, RestIsSeq, AppendIsSeq DEF Exchanged, Piped
<1>2. Piped'
  BY <1>0, <1>1 DEF Exchanged, Piped
<1>3. Exchanged'
  BY <1>0, <1>2, ExchangedStays DEF Exchanged, Holds, Held
<1>4. Course'
  BY <1>0 DEF Course, Ahead, Judged, About, Now, Outstanding
<1>5. ASSUME Clean' PROVE InStep' /\ InHandAre' /\ LeftBehind'
  <2>1. Clean /\ InStep /\ InHandAre /\ LeftBehind
    BY <1>0, <1>5 DEF Clean, Earned
  <2>2. mode = "asking" /\ inbox = <<Request>> /\ outbox = <<>>
    BY <1>0, <2>1 DEF InStep, Course, About
  <2>3. inbox' = <<>> /\ outbox' = <<a>> /\ a.to = Request /\ Request' = Request
    BY <2>2 DEF Request, Now
  <2>4. InStep'
    BY <1>1, <2>1, <2>2, <2>3 DEF InStep
  <2>5. InHandAre'
    BY <2>1 DEF InHandAre, Now, Attempted
  <2>6. LeftBehind'
    BY <2>1 DEF LeftBehind, AllSampled, Attempted
  <2> QED
    BY <2>4, <2>5, <2>6
<1> QED
  BY <1>3, <1>4, <1>5 DEF ConformanceInv, Earned

LEMMA AnswerKeeps ==
  ASSUME ConformanceInv, Answer
  PROVE  ConformanceInv'
<1>1. /\ Asked(Head(inbox)) /\ IsSeq(Reads(manifest)) /\ inbox # <<>>
  BY RestIsSeq, ManifestIs DEF Answer, ConformanceInv, Exchanged, Piped
<1>2. PICK r, s : r = Head(inbox) /\ s = Submissions(comp, r)
  OBVIOUS
<1>3. Answers(s, r)
  BY <1>1, <1>2, SubmissionsAnswer
<1>4. PICK a : a = Answered(r, s) /\ outbox' = Append(outbox, a)
  BY <1>2 DEF Answer
<1>5. a.to = r /\ a.subs = s
  BY <1>4 DEF Answered
<1> QED
  BY <1>1, <1>2, <1>3, <1>4, <1>5, AnsweredKeeps DEF Answer

LEMMA DepartKeeps ==
  ASSUME ConformanceInv, Depart
  PROVE  ConformanceInv'
<1>1. /\ Asked(Head(inbox)) /\ IsSeq(Reads(manifest)) /\ inbox # <<>>
  BY RestIsSeq, ManifestIs DEF Depart, ConformanceInv, Exchanged, Piped
<1>a. PICK r : r = Head(inbox)
  OBVIOUS
<1>d. PICK d \in Departures(r) :
         LET t == Departed(Submissions(comp, r), comp, r, d)
         IN  outbox' = Append(outbox, [Answered(r, t) EXCEPT !.ok = (d # "wrong"),
                                                             !.error = (d = "error")])
  BY <1>a DEF Depart
<1>b. PICK t :
         /\ t = Departed(Submissions(comp, r), comp, r, d)
         /\ outbox' = Append(outbox, [Answered(r, t) EXCEPT !.ok = (d # "wrong"),
                                                            !.error = (d = "error")])
  BY <1>d
<1>2. r = Head(inbox)
  BY <1>a
<1>3. Answers(t, r)
  BY <1>1, <1>2, <1>b, <1>d, DepartedAnswers
<1> DEFINE right == d # "wrong"
           failed == d = "error"
<1>4. PICK a : /\ a = [Answered(r, t) EXCEPT !.ok = right, !.error = failed]
               /\ outbox' = Append(outbox, a)
  BY <1>b
<1> HIDE DEF right, failed
<1>5. a.to = r /\ a.subs = t
  BY <1>4 DEF Answered
<1>6. /\ ended = "running" /\ inbox' = Tail(inbox)
      /\ UNCHANGED <<runVars, kernelVars, misread>>
  BY DEF Depart
<1> QED
  BY <1>1, <1>2, <1>3, <1>4, <1>5, <1>6, AnsweredKeeps

(* The answer at hand, read. *)
LEMMA TakenIs ==
  ASSUME ConformanceInv, Taken
  PROVE  /\ mode = "asking" /\ todo # <<>> /\ Asked(Now) /\ ended = "running"
         /\ Piped' /\ Answers(Head(outbox).subs, Head(outbox).to)
         /\ Clean => /\ inbox' = <<>> /\ outbox' = <<>> /\ ~misread'
                     /\ Head(outbox).to = Request
         /\ Now.case # "hello" => Now.group \in Groups
<1>0. Exchanged /\ Course /\ Earned
  BY DEF ConformanceInv
<1>1. mode = "asking" /\ todo # <<>> /\ Asked(Now) /\ ended = "running"
  BY <1>0 DEF Taken, InHand, Running, Course, About
<1>2. Piped' /\ Answers(Head(outbox).subs, Head(outbox).to)
  <2>1. /\ IsSeq(outbox') /\ Head(outbox) \in Range(outbox)
        /\ Range(outbox') \subseteq Range(outbox)
    BY <1>0, RestIsSeq DEF Taken, Exchanged, Piped
  <2> QED
    BY <1>0, <2>1 DEF Exchanged, Piped, Taken
<1>3. ASSUME Clean
      PROVE  /\ inbox' = <<>> /\ outbox' = <<>> /\ ~misread'
             /\ Head(outbox).to = Request
  <2>1. InStep
    BY <1>0, <1>3 DEF Earned
  <2>2. PICK a : outbox = <<a>> /\ a.to = Request /\ inbox = <<>>
    BY <1>1, <2>1 DEF InStep, Taken
  <2>3. Head(outbox) = a /\ Tail(outbox) = <<>>
    BY <2>2
  <2>4. inbox' = <<>> /\ outbox' = <<>> /\ Head(outbox).to = Request
    BY <2>2, <2>3 DEF Taken
  <2>5. ~misread'
    <3>1. ~misread /\ ~(Head(outbox).to # Request)
      BY <2>1, <2>4 DEF InStep
    <3>2. misread' = (misread \/ Head(outbox).to # Request)
      BY DEF Taken
    <3> QED
      BY <3>1, <3>2
  <2> QED
    BY <2>4, <2>5
<1>4. Now.case # "hello" => Now.group \in Groups
  <2>1. Planned(Now) /\ Now.case # "clock"
    BY <1>0, <1>1, RestIsSeq, NegativesAre DEF Course, Ahead, Now, Asked, NegativeCases
  <2> QED
    BY <2>1 DEF Planned
<1> QED
  BY <1>1, <1>2, <1>3, <1>4

(* A group is failed, or the run given up: nothing is left to show but what   *)
(* holds whatever happens.                                                    *)
LEMMA FailedKeeps ==
  ASSUME ConformanceInv, Exchanged', ended = "running", UNCHANGED <<ended, moved, manifest>>,
         Fail, Now.group \in Groups
  PROVE  ConformanceInv'
<1>1. Ahead' /\ Judged' /\ mode' = "next" /\ ~Clean'
  BY FailKeeps DEF ConformanceInv, Course
<1>2. About'
  BY <1>1 DEF About
<1> QED
  BY <1>1, <1>2 DEF ConformanceInv, Course, Earned

LEMMA AbandonedKeeps ==
  ASSUME ConformanceInv, Exchanged', ended' = "error", UNCHANGED <<moved, todo, mode, groups, manifest>>
  PROVE  ConformanceInv'
<1>1. Ahead' /\ Judged' /\ About'
  BY DEF ConformanceInv, Course, Ahead, Judged, About, Now, Asked
<1> QED
  BY <1>1 DEF ConformanceInv, Course, Earned, Clean

LEMMA ReadUnusableKeeps ==
  ASSUME ConformanceInv, ReadUnusable
  PROVE  ConformanceInv'
<1>1. Taken /\ UNCHANGED <<manifest, kept, collected, log, spent, moved>>
  BY DEF ReadUnusable, Taken, kernelVars
<1>2. ended = "running" /\ Piped' /\ (Now.case # "hello" => Now.group \in Groups)
  BY <1>1, TakenIs
<1>3. CASE Now.case = "hello"
  <2>1. ended' = "error" /\ UNCHANGED <<todo, mode, subs, sent, groups>>
    BY <1>3 DEF ReadUnusable
  <2>2. Exchanged'
    BY <1>1, <1>2, <2>1, ExchangedStays DEF ConformanceInv, Exchanged, Holds, Held
  <2> QED
    BY <1>1, <2>1, <2>2, AbandonedKeeps
<1>4. CASE Now.case # "hello"
  <2>1. Fail /\ UNCHANGED ended
    BY <1>4 DEF ReadUnusable
  <2>2. Held(subs)' /\ Held(sent)'
    BY <2>1, NoneHeld DEF Fail
  <2>3. Exchanged'
    BY <1>1, <1>2, <2>2, ExchangedStays DEF ConformanceInv, Exchanged, Holds, Held
  <2> QED
    BY <1>1, <1>2, <1>4, <2>1, <2>3, FailedKeeps
<1> QED
  BY <1>3, <1>4

LEMMA TimeoutKeeps ==
  ASSUME ConformanceInv, Timeout
  PROVE  ConformanceInv'
<1>1. UNCHANGED <<manifest, kept, collected, log, spent, moved, inbox, outbox>>
  BY DEF Timeout, kernelVars
<1>2. /\ ended = "running" /\ Piped' /\ Exchanged /\ Course
      /\ (Now.case # "hello" => Now.group \in Groups)
  <2>1. /\ mode = "asking" /\ todo # <<>> /\ Asked(Now) /\ ended = "running"
        /\ Exchanged /\ Course
    BY DEF Timeout, Overdue, InHand, Running, ConformanceInv, Course, About
  <2>2. Planned(Now) /\ Now.case # "clock"
    BY <2>1, RestIsSeq, NegativesAre DEF Course, Ahead, Now, Asked, NegativeCases
  <2>3. Piped'
    BY <1>1, <2>1 DEF Exchanged, Piped
  <2> QED
    BY <2>1, <2>2, <2>3 DEF Planned
<1>3. CASE Now.case = "hello"
  <2>1. ended' = "error" /\ UNCHANGED <<todo, mode, subs, sent, groups>>
    BY <1>3 DEF Timeout
  <2>2. Exchanged'
    BY <1>1, <1>2, <2>1, ExchangedStays DEF Exchanged, Holds, Held
  <2> QED
    BY <1>1, <2>1, <2>2, AbandonedKeeps
<1>4. CASE Now.case # "hello"
  <2>1. Fail /\ UNCHANGED ended
    BY <1>4 DEF Timeout
  <2>2. Held(subs)' /\ Held(sent)'
    BY <2>1, NoneHeld DEF Fail
  <2>3. Exchanged'
    BY <1>1, <1>2, <2>2, ExchangedStays DEF Exchanged, Holds, Held
  <2> QED
    BY <1>1, <1>2, <1>4, <2>1, <2>3, FailedKeeps
<1> QED
  BY <1>3, <1>4

(* A step is passed, or taken on to its submissions. *)
LEMMA PassedKeeps ==
  ASSUME ConformanceInv, Exchanged', ended = "running", UNCHANGED <<ended, manifest>>, todo # <<>>, Pass,
         UNCHANGED moved \/ Now.case = "clock",
         Clean => /\ ~misread' /\ inbox' = <<>> /\ outbox' = <<>>
                  /\ \A e \in Range(collected') : Sampled(e)
                  /\ LeftBehind'
  PROVE  ConformanceInv'
<1>1. /\ Ahead' /\ Judged' /\ mode' = "next"
      /\ \A g \in Groups : groups'[g] # "failed" => groups[g] # "failed"
  BY PassKeeps DEF ConformanceInv, Course
<1>2. About'
  BY <1>1 DEF About
<1>3. ASSUME Clean' PROVE InStep' /\ InHandAre' /\ LeftBehind'
  <2>1. Clean
    BY <1>1, <1>3 DEF Clean
  <2> QED
    BY <1>1, <2>1 DEF InStep, InHandAre
<1> QED
  BY <1>1, <1>2, <1>3 DEF ConformanceInv, Course, Earned

LEMMA SubmittingKeeps ==
  ASSUME ConformanceInv, Exchanged', ended = "running", todo # <<>>, Now.group \in Groups,
         NEW s, Submitting(s), UNCHANGED <<ended, moved, manifest, log, objects>>,
         Clean => /\ ~misread' /\ inbox' = <<>> /\ outbox' = <<>>
                  /\ \A e \in Range(collected') : Sampled(e)
                  /\ Now.case = "coverage" => \A e \in Range(s) : Sampled(e)
                  /\ Now.case = "emit" => \A e \in Range(s) : e.action = Now.action.action
                  /\ Now.case = "prohibited-attempted" => s # <<>>
  PROVE  ConformanceInv'
<1>1. /\ mode' = "submitting" /\ subs' = s /\ sent' = <<>> /\ Now' = Now
      /\ UNCHANGED <<todo, groups>>
  BY DEF Submitting, Now
<1>2. Ahead' /\ Judged' /\ About'
  BY <1>1 DEF ConformanceInv, Course, Ahead, Judged, About
<1>3. ASSUME Clean' PROVE InStep' /\ InHandAre' /\ LeftBehind'
  <2>1. Clean /\ LeftBehind
    BY <1>1, <1>3 DEF Clean, ConformanceInv, Earned
  <2>2. InStep'
    BY <1>1, <2>1 DEF InStep
  <2>3. InHandAre'
    BY <1>1, <2>1, NoneIsSeq DEF InHandAre
  <2>4. LeftBehind'
    BY <1>1, <2>1 DEF LeftBehind, AllSampled, Attempted
  <2> QED
    BY <2>2, <2>3, <2>4
<1> QED
  BY <1>2, <1>3 DEF ConformanceInv, Course, Earned

LEMMA ReadUsableKeeps ==
  ASSUME ConformanceInv, ReadUsable
  PROVE  ConformanceInv'
<1>1. /\ Taken /\ UNCHANGED <<manifest, kept, log, spent, moved, objects, ended>>
      /\ Usable(Head(outbox))
  BY DEF ReadUsable, Taken, kernelVars
<1>2. PICK a : a = Head(outbox)
  OBVIOUS
<1>3. /\ todo # <<>> /\ Asked(Now) /\ ended = "running"
      /\ Piped' /\ Answers(a.subs, a.to)
      /\ Clean => inbox' = <<>> /\ outbox' = <<>> /\ ~misread' /\ a.to = Request
      /\ Now.case # "hello" => Now.group \in Groups
  BY <1>1, <1>2, TakenIs
<1>4. /\ Request.case = Now.case /\ Request.action = Now.action
      /\ Request.at = IF moved THEN "late" ELSE "early"
  <2> DEFINE t == IF moved THEN "late" ELSE "early"
  <2>1. Request = [group |-> Now.group, case |-> Now.case, action |-> Now.action,
                   at |-> t, expect |-> Expect(Now.case)]
    BY DEF Request
  <2> HIDE DEF t
  <2>2. Request.case = Now.case /\ Request.action = Now.action /\ Request.at = t
    BY <2>1
  <2> QED
    BY <2>2 DEF t
<1>5. Held(a.subs) /\ Holds /\ Exchanged /\ Course /\ Earned
  BY <1>3 DEF Held, Answers, ConformanceInv, Exchanged
<1>6. CASE Now.case \in {"hello", "vectors"}
  <2>1. Pass /\ UNCHANGED collected
    BY <1>6 DEF ReadUsable
  <2>2. Held(subs)' /\ Held(sent)'
    BY <2>1, NoneHeld DEF Pass
  <2>3. Exchanged'
    BY <1>1, <1>3, <1>5, <2>1, <2>2, ExchangedStays DEF Holds, Held
  <2>4. ASSUME Clean
        PROVE  (\A e \in Range(collected') : Sampled(e)) /\ LeftBehind'
    <3>1. InHandAre /\ LeftBehind
      BY <1>5, <2>4 DEF Earned
    <3>2. Range(todo) = Range(todo') \cup {Now}
      BY <1>1, <1>3, <1>5, <2>1, PassKeeps DEF Course
    <3>3. LeftBehind'
      BY <1>1, <1>6, <3>1, <3>2, LeftStays DEF LeftBehind
    <3> QED
      BY <2>1, <3>1, <3>3 DEF InHandAre
  <2> QED
    BY <1>1, <1>3, <2>1, <2>3, <2>4, PassedKeeps
<1>7. CASE Now.case = "sample"
  <2>1. Pass /\ collected' = collected \o a.subs
    BY <1>2, <1>7 DEF ReadUsable
  <2>2. Held(subs)' /\ Held(sent)'
    BY <2>1, NoneHeld DEF Pass
  <2>3. IsSeq(collected') /\ Range(collected') = Range(collected) \cup Range(a.subs)
    BY <1>5, <2>1, JoinIsSeq DEF Holds, Held
  <2>4. Exchanged'
    <3>1. Held(collected)'
      BY <1>5, <2>3 DEF Holds, Held
    <3> QED
      BY <1>1, <1>3, <1>5, <2>2, <3>1, ExchangedStays DEF Holds, Held
  <2>5. ASSUME Clean
        PROVE  (\A e \in Range(collected') : Sampled(e)) /\ LeftBehind'
    <3>1. InHandAre /\ LeftBehind
      BY <1>5, <2>5 DEF Earned
    <3>2. Range(todo) = Range(todo') \cup {Now}
      BY <1>1, <1>3, <1>5, <2>1, PassKeeps DEF Course
    <3>3. LeftBehind'
      BY <1>1, <1>7, <3>1, <3>2, LeftStays DEF LeftBehind
    <3>4. ~moved
      <4>1. Now \in Range(todo)
        BY <1>3, <1>5, RestIsSeq DEF Course, Ahead, Now
      <4> QED
        BY <1>5, <1>7, <4>1 DEF Course, Ahead
    <3>5. \A e \in Range(a.subs) : Sampled(e)
      BY <1>3, <1>4, <1>7, <2>5, <3>4 DEF Answers, Sampled
    <3> QED
      BY <2>3, <3>1, <3>3, <3>5 DEF InHandAre
  <2> QED
    BY <1>1, <1>3, <2>1, <2>4, <2>5, PassedKeeps
<1>8. CASE Now.case \notin {"hello", "vectors", "sample"}
  <2>1. Submitting(a.subs) /\ UNCHANGED collected
    BY <1>2, <1>8 DEF ReadUsable
  <2>2. Held(subs)' /\ Held(sent)'
    BY <1>5, <2>1, NoneHeld DEF Submitting
  <2>3. Exchanged'
    BY <1>1, <1>3, <1>5, <2>1, <2>2, ExchangedStays DEF Holds, Held
  <2>4. ASSUME Clean
        PROVE  /\ \A e \in Range(collected') : Sampled(e)
               /\ Now.case = "coverage" => \A e \in Range(a.subs) : Sampled(e)
               /\ Now.case = "emit" => \A e \in Range(a.subs) : e.action = Now.action.action
               /\ Now.case = "prohibited-attempted" => a.subs # <<>>
    <3>1. \A e \in Range(collected') : Sampled(e)
      BY <1>5, <2>1, <2>4 DEF Earned, InHandAre
    <3>2. Now.case # "coverage"
      BY <1>3, NegativesAre DEF Asked, NegativeCases
    <3>3. Now.case = "emit" => \A e \in Range(a.subs) : e.action = Now.action.action
      BY <1>3, <1>4, <2>4 DEF Answers
    <3>4. Now.case = "prohibited-attempted" => a.subs # <<>>
      BY <1>1, <1>2, NegativesAre DEF Usable, NegativeCases
    <3> QED
      BY <3>1, <3>2, <3>3, <3>4
  <2> QED
    BY <1>1, <1>3, <1>8, <2>1, <2>3, <2>4, SubmittingKeeps
<1> QED
  BY <1>6, <1>7, <1>8

(* The throwaway kernel takes what it accepts, and keeps what it took. *)
LEMMA AppendedKeeps ==
  ASSUME Held(log), Authorized, NEW e, Carried(e), Appended(e)
  PROVE  /\ Held(log)' /\ Authorized' /\ Range(log) \subseteq Range(log')
         /\ Verdict(e) = "accepted" => e \in Range(log')
<1>1. CASE Verdict(e) = "accepted" /\ e \notin Range(log)
  <2>1. /\ log' = Append(log, e)
        /\ spent' = IF Applied(e) /\ e.auth # None THEN spent \cup {e.auth} ELSE spent
    BY <1>1 DEF Appended
  <2>2. IsSeq(log') /\ Range(log') = Range(log) \cup {e}
    BY <2>1, AppendIsSeq DEF Held
  <2>3. /\ PolicyClass(e.action) = "consequential" /\ Applied(e) => e.auth # None
        /\ e.auth # None => e.auth = <<e.action, e.target>> /\ e.auth \notin spent
    BY <1>1 DEF Verdict
  <2>4. spent \subseteq spent' /\ (e.auth # None => e.auth \in spent')
    BY <2>1 DEF Carried
  <2>5. Held(log)'
    BY <2>2 DEF Held
  <2>6. Authorized'
    <3>1. \A f \in Range(log') : PolicyClass(f.action) = "consequential" /\ Applied(f)
                                   => f.auth = <<f.action, f.target>>
      BY <2>2, <2>3 DEF Authorized
    <3>2. \A f \in Range(log') : f.auth # None => f.auth \in spent'
      BY <2>2, <2>4 DEF Authorized
    <3>3. \A f, g \in Range(log') : f.auth # None /\ f.auth = g.auth => f = g
      BY <2>2, <2>3 DEF Authorized
    <3> QED
      BY <3>1, <3>2, <3>3 DEF Authorized
  <2> QED
    BY <2>2, <2>5, <2>6
<1>2. CASE ~(Verdict(e) = "accepted" /\ e \notin Range(log))
  <2>1. UNCHANGED <<log, spent>>
    BY <1>2 DEF Appended
  <2> QED
    BY <1>2, <2>1 DEF Held, Authorized
<1> QED
  BY <1>1, <1>2

LEMMA SubmitKeeps ==
  ASSUME ConformanceInv, Submit
  PROVE  ConformanceInv'
<1>0. /\ mode = "submitting" /\ subs # <<>> /\ ended = "running"
      /\ todo # <<>> /\ Now.group \in Groups
      /\ Exchanged /\ Course /\ Earned /\ Holds
      /\ UNCHANGED <<manifest, objects, collected, ended, moved, comp, inbox, outbox, misread>>
  BY DEF Submit, InHand, Running, ConformanceInv, Course, About, Exchanged, pipeVars
<1>1. PICK e : e = Head(subs)
  OBVIOUS
<1>2. /\ Appended(e)
      /\ kept' = IF UnderTest /\ Now.case = "gate-authorization-missing" THEN <<e>> ELSE kept
      /\ IF Tolerated(e)
         THEN /\ subs' = Tail(subs) /\ sent' = Append(sent, e)
              /\ UNCHANGED <<todo, mode, groups>>
         ELSE Fail
  BY <1>1 DEF Submit
<1>3. Carried(e) /\ Held(Tail(subs))
  BY <1>0, <1>1, HeldRest DEF Holds
<1>4. /\ Held(log)' /\ Authorized' /\ Range(log) \subseteq Range(log')
      /\ Verdict(e) = "accepted" => e \in Range(log')
  BY <1>0, <1>2, <1>3, AppendedKeeps DEF Holds, Exchanged
<1>5. Held(kept)' /\ Held(collected)' /\ Piped'
  <2>1. Held(<<e>>)
    BY <1>3, OneIsSeq DEF Held
  <2>2. Held(kept)'
    BY <1>0, <1>2, <2>1 DEF Holds, Held
  <2> QED
    BY <1>0, <2>2 DEF Holds, Held, Exchanged, Piped
<1>6. CASE Tolerated(e)
  <2>1. /\ subs' = Tail(subs) /\ sent' = Append(sent, e) /\ Now' = Now
        /\ UNCHANGED <<todo, mode, groups>>
    BY <1>2, <1>6 DEF Now
  <2>2. IsSeq(sent') /\ Range(sent') = Range(sent) \cup {e}
    BY <1>0, <2>1, AppendIsSeq DEF Holds, Held
  <2>3. /\ Range(subs) = Range(subs') \cup {e}
        /\ Len(subs) # 1 => subs' # <<>>
    BY <1>0, <1>1, <2>1, RestIsSeq DEF Holds, Held
  <2>4. Exchanged'
    <3>1. Held(subs)' /\ Held(sent)'
      BY <1>0, <1>3, <2>1, <2>2 DEF Holds, Held
    <3> QED
      BY <1>0, <1>4, <1>5, <3>1 DEF Exchanged, Holds
  <2>5. Course'
    BY <1>0, <2>1 DEF Course, Ahead, Judged, About
  <2>6. Planned(Now)
    BY <1>0, RestIsSeq DEF Course, Ahead, Now
  <2>7. ASSUME Clean' PROVE InStep' /\ InHandAre' /\ LeftBehind'
    <3>1. InStep /\ InHandAre /\ LeftBehind
      BY <1>0, <2>1, <2>7 DEF Earned, Clean
    <3>2. InStep'
      BY <1>0, <2>1, <3>1 DEF InStep
    <3>3. LeftBehind'
      BY <1>0, <1>4, <2>1, <3>1, LeftStays DEF LeftBehind
    <3>4. Now.case \in {"coverage", "emit"} => Verdict(e) = "accepted" /\ e \in Range(log')
      <4>1. Now.case \in {"coverage", "emit"} => ~UnderTest
        BY <2>6 DEF Planned, UnderTest, NegativeCases
      <4> QED
        BY <1>4, <1>6, <4>1 DEF Tolerated
    <3>5. ASSUME Now.case = "coverage"
          PROVE  /\ \A f \in Range(subs') \cup Range(sent') : Sampled(f)
                 /\ Range(sent') \subseteq Range(log')
      BY <1>0, <1>4, <2>2, <2>3, <3>1, <3>4, <3>5 DEF InHandAre
    <3>6. ASSUME Now.case = "emit"
          PROVE  /\ \A f \in Range(subs') : f.action = Now.action.action
                 /\ \A f \in Range(sent') : f.kind = "aggregate" => Recorded(f, Now.action)
                 /\ Range(sent') \subseteq Range(log')
      <4>1. e.action = Now.action.action
        BY <1>0, <2>3, <3>1, <3>6 DEF InHandAre
      <4>2. e.kind = "aggregate" => e.samples \in 1 .. Now.action.max
        <5>1. ~(UnderTest /\ Now.case # "prohibited-attempted")
          BY <2>6, <3>6 DEF Planned, UnderTest, NegativeCases
        <5> QED
          BY <1>6, <3>6, <5>1 DEF Tolerated
      <4>3. e.kind = "aggregate" => Recorded(e, Now.action)
        BY <4>1, <4>2 DEF Recorded
      <4> QED
        BY <1>0, <1>4, <2>2, <2>3, <3>1, <3>4, <3>6, <4>3 DEF InHandAre
    <3>7. ASSUME Now.case = "prohibited-attempted"
          PROVE  subs' # <<>> \/ Attempted'
      <4>1. CASE Len(subs) # 1
        BY <2>3, <4>1
      <4>2. CASE Len(subs) = 1
        <5>1. UnderTest
          BY <2>6, <3>7, <4>2 DEF Planned, UnderTest, NegativeCases
        <5>2. Verdict(e) = "accepted" /\ e.outcome = "attempted"
          BY <1>6, <3>7, <5>1 DEF Tolerated
        <5> QED
          BY <1>4, <5>2 DEF Attempted
      <4> QED
        BY <4>1, <4>2
    <3>8. InHandAre'
      BY <1>0, <2>1, <3>1, <3>5, <3>6, <3>7 DEF InHandAre
    <3> QED
      BY <3>2, <3>3, <3>8
  <2> QED
    BY <2>4, <2>5, <2>7 DEF ConformanceInv, Earned
<1>7. CASE ~Tolerated(e)
  <2>1. Fail
    BY <1>2, <1>7
  <2>2. Held(subs)' /\ Held(sent)'
    BY <2>1, NoneHeld DEF Fail
  <2>3. Exchanged'
    BY <1>0, <1>4, <1>5, <2>2 DEF Exchanged, Holds
  <2> QED
    BY <1>0, <2>1, <2>3, FailedKeeps
<1> QED
  BY <1>6, <1>7

(* What the group asks of the submissions of a step is what it leaves behind. *)
LEMMA SettleKeeps ==
  ASSUME ConformanceInv, Settle
  PROVE  ConformanceInv'
<1>0. /\ mode = "submitting" /\ subs = <<>> /\ ended = "running"
      /\ todo # <<>> /\ Now.group \in Groups
      /\ Exchanged /\ Course /\ Earned /\ Holds
      /\ IF Settled THEN Pass ELSE Fail
      /\ UNCHANGED <<manifest, objects, collected, kept, ended, log, spent, moved, inbox, outbox, misread>>
  BY DEF Settle, InHand, Running, ConformanceInv, Course, About, Exchanged, pipeVars, kernelVars
<1>1. subs' = <<>> /\ sent' = <<>>
  BY <1>0 DEF Pass, Fail
<1>2. Exchanged'
  BY <1>0, <1>1, NoneHeld, ExchangedStays DEF Exchanged, Holds, Held, Piped
<1>3. CASE ~Settled
  BY <1>0, <1>2, <1>3, FailedKeeps
<1>4. CASE Settled
  <2>1. Range(todo) = Range(todo') \cup {Now}
    BY <1>0, <1>4, PassKeeps DEF Course
  <2>2. ASSUME Clean
        PROVE  /\ ~misread' /\ inbox' = <<>> /\ outbox' = <<>>
               /\ \A e \in Range(collected') : Sampled(e)
               /\ LeftBehind'
    <3>1. InStep /\ InHandAre /\ LeftBehind
      BY <1>0, <2>2 DEF Earned
    <3>2. ~misread' /\ inbox' = <<>> /\ outbox' = <<>>
      BY <1>0, <3>1 DEF InStep
    <3>3. \A e \in Range(collected') : Sampled(e)
      BY <1>0, <3>1 DEF InHandAre
    <3>4. Step("per-action-emission", "coverage") \in Range(todo') \/ AllSampled'
      <4>1. CASE Now = Step("per-action-emission", "coverage")
        <5>1. Now.case = "coverage"
          BY <4>1, StepIs
        <5>2. Covered
          BY <1>4, <5>1 DEF Settled
        <5>3. (\A e \in Range(sent) : Sampled(e)) /\ Range(sent) \subseteq Range(log)
          BY <1>0, <3>1, <5>1 DEF InHandAre
        <5>4. AllSampled
          BY <5>2, <5>3 DEF AllSampled, Covered
        <5> QED
          BY <1>0, <5>4 DEF AllSampled
      <4>2. CASE Now # Step("per-action-emission", "coverage")
        BY <1>0, <2>1, <3>1, <4>2 DEF LeftBehind, AllSampled
      <4> QED
        BY <4>1, <4>2
    <3>5. ASSUME NEW i \in DOMAIN Reads(manifest)
          PROVE  \/ StepOn("aggregation", "emit", Reads(manifest)[i]) \in Range(todo')
                 \/ \E e \in Range(log') : Recorded(e, Reads(manifest)[i])
      <4>1. CASE Now = StepOn("aggregation", "emit", Reads(manifest)[i])
        <5>1. Now.case = "emit" /\ Now.action = Reads(manifest)[i]
          BY <4>1, StepIs
        <5>2. PICK n \in DOMAIN sent : sent[n].kind = "aggregate"
          BY <1>4, <5>1 DEF Settled, Folded
        <5>3. sent[n] \in Range(sent)
          BY DEF Range
        <5>4. Recorded(sent[n], Reads(manifest)[i]) /\ sent[n] \in Range(log)
          BY <1>0, <3>1, <5>1, <5>2, <5>3 DEF InHandAre
        <5> QED
          BY <1>0, <5>4
      <4>2. CASE Now # StepOn("aggregation", "emit", Reads(manifest)[i])
        BY <1>0, <2>1, <3>1, <4>2 DEF LeftBehind
      <4> QED
        BY <4>1, <4>2
    <3>6. Step("negative-cases", "prohibited-attempted") \in Range(todo') \/ Attempted'
      <4>1. CASE Now = Step("negative-cases", "prohibited-attempted")
        <5>1. Now.case = "prohibited-attempted"
          BY <4>1, StepIs
        <5>2. Attempted
          BY <1>0, <3>1, <5>1 DEF InHandAre
        <5> QED
          BY <1>0, <5>2 DEF Attempted
      <4>2. CASE Now # Step("negative-cases", "prohibited-attempted")
        BY <1>0, <2>1, <3>1, <4>2 DEF LeftBehind, Attempted
      <4> QED
        BY <4>1, <4>2
    <3>7. PersonsDecide(objects)' /\ Reads(manifest)' = Reads(manifest)
      BY <1>0, <3>1 DEF LeftBehind
    <3>8. LeftBehind'
      BY <3>4, <3>5, <3>6, <3>7 DEF LeftBehind
    <3> QED
      BY <3>2, <3>3, <3>8
  <2> QED
    BY <1>0, <1>2, <1>4, <2>2, PassedKeeps
<1> QED
  BY <1>3, <1>4

(* The steps the harness takes by itself. *)

LEMMA SubmitSamplesKeeps ==
  ASSUME ConformanceInv, SubmitSamples
  PROVE  ConformanceInv'
<1>0. /\ mode = "next" /\ ended = "running" /\ todo # <<>> /\ Now.case = "coverage"
      /\ Submitting(collected) /\ collected' = <<>>
      /\ Exchanged /\ Course /\ Earned /\ Holds
      /\ UNCHANGED <<manifest, objects, kept, ended, log, spent, moved, inbox, outbox, misread>>
  BY DEF SubmitSamples, InHand, Running, ConformanceInv, Exchanged, pipeVars, kernelVars
<1>1. Exchanged'
  BY <1>0, NoneHeld, ExchangedStays DEF Exchanged, Holds, Held, Piped, Submitting
<1>2. Now.group \in Groups
  BY <1>0, RestIsSeq DEF Course, Ahead, Now, Planned
<1>3. ASSUME Clean
      PROVE  /\ ~misread' /\ inbox' = <<>> /\ outbox' = <<>>
             /\ \A e \in Range(collected') : Sampled(e)
             /\ \A e \in Range(collected) : Sampled(e)
  BY <1>0, <1>3, NoneIsSeq DEF Earned, InStep, InHandAre
<1>4. Now.case # "emit" /\ Now.case # "prohibited-attempted"
  BY <1>0
<1> QED
  BY <1>0, <1>1, <1>2, <1>3, <1>4, SubmittingKeeps

LEMMA RetryKeeps ==
  ASSUME ConformanceInv, RetryAsAdministrator
  PROVE  ConformanceInv'
<1>0. /\ mode = "next" /\ ended = "running" /\ todo # <<>> /\ Now.case = "administrative-path"
      /\ Submitting(kept)
      /\ Exchanged /\ Course /\ Earned /\ Holds
      /\ UNCHANGED <<manifest, objects, collected, kept, ended, log, spent, moved, inbox, outbox, misread>>
  BY DEF RetryAsAdministrator, InHand, Running, ConformanceInv, Exchanged, pipeVars, kernelVars
<1>1. Exchanged'
  BY <1>0, NoneHeld, ExchangedStays DEF Exchanged, Holds, Held, Piped, Submitting
<1>2. Now.group \in Groups
  BY <1>0, RestIsSeq DEF Course, Ahead, Now, Planned
<1>3. ASSUME Clean
      PROVE  /\ ~misread' /\ inbox' = <<>> /\ outbox' = <<>>
             /\ \A e \in Range(collected') : Sampled(e)
  BY <1>0, <1>3 DEF Earned, InStep, InHandAre
<1>4. Now.case # "coverage" /\ Now.case # "emit" /\ Now.case # "prohibited-attempted"
  BY <1>0
<1> QED
  BY <1>0, <1>1, <1>2, <1>3, <1>4, SubmittingKeeps

(* A step that is passed with nothing submitted, whatever the clock does. *)
LEMMA PassedAlone ==
  ASSUME ConformanceInv, InHand("next"), todo # <<>>, Pass,
         Now.case \in {"folded", "clock", "decay"}, UNCHANGED moved \/ Now.case = "clock",
         UNCHANGED <<manifest, objects, collected, kept, ended, log, spent, pipeVars>>
  PROVE  ConformanceInv'
<1>0. /\ mode = "next" /\ ended = "running"
      /\ Exchanged /\ Course /\ Earned /\ Holds
      /\ UNCHANGED <<inbox, outbox, misread>>
  BY DEF InHand, Running, ConformanceInv, Exchanged, pipeVars
<1>1. Exchanged'
  BY <1>0, NoneHeld, ExchangedStays DEF Exchanged, Holds, Held, Piped, Pass
<1>2. Range(todo) = Range(todo') \cup {Now}
  BY <1>0, PassKeeps DEF Course
<1>3. ASSUME Clean
      PROVE  /\ ~misread' /\ inbox' = <<>> /\ outbox' = <<>>
             /\ \A e \in Range(collected') : Sampled(e)
             /\ LeftBehind'
  <2>1. InStep /\ InHandAre /\ LeftBehind
    BY <1>0, <1>3 DEF Earned
  <2>2. LeftBehind'
    BY <1>2, <2>1, LeftStays DEF LeftBehind
  <2> QED
    BY <1>0, <2>1, <2>2 DEF InStep, InHandAre
<1> QED
  BY <1>0, <1>1, <1>3, PassedKeeps

LEMMA FailedAlone ==
  ASSUME ConformanceInv, InHand("next"), todo # <<>>, Fail,
         Now.case \in {"unblockable", "decay"},
         UNCHANGED <<manifest, collected, kept, ended, kernelVars, pipeVars>>
  PROVE  ConformanceInv'
<1>0. /\ ended = "running" /\ Exchanged /\ Course /\ Holds
      /\ UNCHANGED <<inbox, outbox, log, spent, moved>>
  BY DEF InHand, Running, ConformanceInv, Exchanged, pipeVars, kernelVars
<1>1. Exchanged'
  BY <1>0, NoneHeld, ExchangedStays DEF Exchanged, Holds, Held, Piped, Fail
<1>2. Now.group \in Groups
  BY <1>0, RestIsSeq DEF Course, Ahead, Now, Planned
<1> QED
  BY <1>0, <1>1, <1>2, FailedKeeps

LEMMA ByItselfKeeps ==
  ASSUME ConformanceInv,
         CloseAggregation \/ MoveClock \/ NothingToBlock \/ Decay
  PROVE  ConformanceInv'
<1>1. CASE CloseAggregation
  BY <1>1, PassedAlone DEF CloseAggregation, kernelVars
<1>2. CASE MoveClock
  BY <1>2, PassedAlone DEF MoveClock
<1>3. CASE NothingToBlock
  BY <1>3, FailedAlone DEF NothingToBlock
<1>4. CASE Decay
  <2>1. CASE Demonstrated
    BY <1>4, <2>1, PassedAlone DEF Decay, kernelVars
  <2>2. CASE ~Demonstrated
    BY <1>4, <2>2, FailedAlone DEF Decay
  <2> QED
    BY <2>1, <2>2
<1> QED
  BY <1>1, <1>2, <1>3, <1>4

LEMMA ReplayObjectsKeeps ==
  ASSUME ConformanceInv, ReplayObjects
  PROVE  ConformanceInv'
<1>0. /\ mode = "next" /\ ended = "running" /\ todo # <<>> /\ Now.case = "objects"
      /\ todo' = Tail(todo)
      /\ Exchanged /\ Course /\ Earned /\ Holds
      /\ UNCHANGED <<manifest, mode, collected, subs, sent, kept, ended, log, spent, moved,
                     inbox, outbox, misread>>
  BY DEF ReplayObjects, InHand, Running, ConformanceInv, Exchanged, pipeVars, kernelVars
<1>1. PICK t \in Tables :
        /\ groups' = [groups EXCEPT !["durable-objects"] = CheckDurableObjects(t)]
        /\ objects' = t
  BY DEF ReplayObjects, Record
<1>2. Exchanged'
  BY <1>0, ExchangedStays DEF Exchanged, Holds, Held, Piped
<1>3. Ahead' /\ Range(todo) = Range(todo') \cup {Now}
  BY <1>0, TailAhead DEF Course
<1>4. /\ \A s \in Range(todo') : s.group # "durable-objects"
      /\ Planned(Now)
  <2>1. \A s \in Range(todo') : Follows(manifest, Now, s)
    BY <1>0, TailInOrder DEF Course, Ahead, Now
  <2> QED
    BY <1>0, <1>3, <2>1 DEF Follows, Course, Ahead
<1>5. /\ groups' \in [Groups -> {"not-run", "passed", "failed", "not-applicable"}]
      /\ groups'["durable-objects"] = CheckDurableObjects(t)
      /\ \A g \in Groups \ {"durable-objects"} : groups'[g] = groups[g]
  <2>1. CheckDurableObjects(t) \in {"not-run", "passed", "failed", "not-applicable"}
    BY DEF CheckDurableObjects
  <2>2. "durable-objects" \in Groups
    BY DEF Groups
  <2> QED
    BY <1>0, <1>1, <2>1, <2>2 DEF Course, Judged
<1>6. Judged' /\ About'
  BY <1>0, <1>3, <1>4, <1>5 DEF Course, Judged, About
<1>7. ASSUME Clean' PROVE InStep' /\ InHandAre' /\ LeftBehind'
  <2>1. CheckDurableObjects(t) # "failed"
    BY <1>5, <1>7 DEF Clean, Groups
  <2>2. Clean
    <3>1. groups["durable-objects"] # "failed"
      <4>1. Now \in Range(todo) /\ Now.group = "durable-objects"
        BY <1>0, <1>3, <1>4 DEF Planned
      <4> QED
        BY <1>0, <4>1 DEF Course, Judged, Groups
    <3> QED
      BY <1>0, <1>5, <1>7, <3>1 DEF Clean
  <2>3. InStep /\ InHandAre /\ LeftBehind
    BY <1>0, <2>2 DEF Earned
  <2>4. PersonsDecide(objects)'
    BY <1>1, <2>1, PassedTableDecides
  <2>5. LeftBehind'
    BY <1>0, <1>3, <2>3, <2>4, LeftStays
  <2> QED
    BY <1>0, <2>3, <2>5 DEF InStep, InHandAre
<1> QED
  BY <1>2, <1>3, <1>6, <1>7 DEF ConformanceInv, Course, Earned

LEMMA FinishKeeps ==
  ASSUME ConformanceInv, Finish
  PROVE  ConformanceInv'
<1>0. /\ mode = "next" /\ ended = "running" /\ todo = <<>>
      /\ ended' = IF Outstanding = {} THEN "green" ELSE "red"
      /\ inbox' = <<>> /\ outbox' = <<>>
      /\ Exchanged /\ Course /\ Earned /\ Holds
      /\ UNCHANGED <<manifest, objects, todo, mode, collected, subs, sent, kept, groups,
                     log, spent, moved, misread>>
  BY DEF Finish, InHand, Running, ConformanceInv, Exchanged, kernelVars
<1>1. Exchanged'
  BY <1>0, NoneIsSeq, ExchangedStays DEF Exchanged, Holds, Held, Piped
<1>2. Course'
  BY <1>0 DEF Course, Ahead, Judged, About, Outstanding
<1>3. ASSUME Clean' PROVE InStep' /\ InHandAre' /\ LeftBehind'
  <2>1. InStep /\ InHandAre /\ LeftBehind
    BY <1>0, <1>3 DEF Clean, Earned
  <2> QED
    BY <1>0, <2>1 DEF InStep, InHandAre, LeftBehind, AllSampled, Attempted
<1> QED
  BY <1>1, <1>2, <1>3 DEF ConformanceInv, Earned

LEMMA StoreUnavailableKeeps ==
  ASSUME ConformanceInv, StoreUnavailable
  PROVE  ConformanceInv'
<1>1. /\ ended' = "error"
      /\ UNCHANGED <<manifest, todo, mode, collected, subs, sent, kept, groups, log, spent, moved,
                     inbox, outbox>>
  BY DEF StoreUnavailable, kernelVars, pipeVars
<1>2. Exchanged'
  BY <1>1, ExchangedStays DEF ConformanceInv, Exchanged, Holds, Held, Piped
<1> QED
  BY <1>1, <1>2, AbandonedKeeps

--------------------------------------------------------------------------------
(* The theorems. *)

LEMMA StepKeeps == ConformanceInv /\ [Next]_vars => ConformanceInv'
<1> SUFFICES ASSUME ConformanceInv, [Next]_vars PROVE ConformanceInv'
  OBVIOUS
<1>1. CASE UNCHANGED vars
  BY <1>1, StutterKeeps
<1>2. CASE Ask \/ Answer \/ Depart
  BY <1>2, AskKeeps, AnswerKeeps, DepartKeeps
<1>3. CASE ReadUsable \/ ReadUnusable \/ Timeout
  BY <1>3, ReadUsableKeeps, ReadUnusableKeeps, TimeoutKeeps
<1>4. CASE Submit \/ Settle
  BY <1>4, SubmitKeeps, SettleKeeps
<1>5. CASE SubmitSamples \/ RetryAsAdministrator \/ ReplayObjects
  BY <1>5, SubmitSamplesKeeps, RetryKeeps, ReplayObjectsKeeps
<1>6. CASE CloseAggregation \/ MoveClock \/ NothingToBlock \/ Decay
  BY <1>6, ByItselfKeeps
<1>7. CASE Finish \/ StoreUnavailable
  BY <1>7, FinishKeeps, StoreUnavailableKeeps
<1> QED
  BY <1>1, <1>2, <1>3, <1>4, <1>5, <1>6, <1>7 DEF Next, HarnessNext

(* A green run left nothing undone, and no group of it failed. *)
LEMMA GreenIs == ConformanceInv => GreenIsEarned
<1> SUFFICES ASSUME ConformanceInv, ended = "green" PROVE GreenIsEarned
  BY DEF GreenIsEarned
<1>1. todo = <<>> /\ Outstanding = {}
  BY DEF ConformanceInv, Course, About
<1>2. Clean
  BY <1>1 DEF Clean, Outstanding
<1>3. InStep /\ LeftBehind /\ Authorized
  BY <1>2 DEF ConformanceInv, Earned, Exchanged
<1>4. Range(todo) = {}
  BY <1>1, NoneIsSeq
<1>5. AllSampled /\ Attempted /\ PersonsDecide(objects)
  BY <1>3, <1>4 DEF LeftBehind
<1>6. \A i \in DOMAIN manifest :
        \E e \in Range(log) : /\ e.kind = "effect" /\ e.at = "early"
                              /\ e.action = manifest[i].action
  BY <1>5 DEF AllSampled, Sampled
<1>7. \A i \in DOMAIN Reads(manifest) :
        \E e \in Range(log) : /\ e.kind = "aggregate"
                              /\ e.action = Reads(manifest)[i].action
                              /\ e.samples \in 1 .. Reads(manifest)[i].max
  BY <1>3, <1>4 DEF LeftBehind, Recorded
<1> QED
  BY <1>3, <1>5, <1>6, <1>7 DEF GreenIsEarned, Attempted, Authorized, InStep

(* A green run is what it says (conformance.rs), whatever the component did,  *)
(* however late it answered, and whatever manifest, policy and table of       *)
(* durable objects it was run with: the kernel took a sample of every         *)
(* declared action and a record of every read, holds a recorded attempt and   *)
(* no gated effect but under an approval of its own, no agent may take a      *)
(* person's decision, and every answer was the answer to what was asked.      *)
THEOREM RunsAreEarned == ConformanceSpec => []GreenIsEarned
<1>1. Init => ConformanceInv
  BY Begins
<1>2. ConformanceInv /\ [Next]_vars => ConformanceInv'
  BY StepKeeps
<1>3. ConformanceInv => GreenIsEarned
  BY GreenIs
<1> QED
  BY <1>1, <1>2, <1>3, PTL DEF ConformanceSpec

--------------------------------------------------------------------------------
(* A component that keeps to the protocol. *)

(* Where it stands, when s is to follow what the kernel holds, l, and it has  *)
(* signed k envelopes.                                                        *)
Top(l) == IF l = <<>> THEN 0 ELSE Last(l).id
Place(l, s, k) ==
  [seq |-> Len(l) + Len(s), prev |-> IF s = <<>> THEN Top(l) ELSE Last(s).id, made |-> k]
Stands(c, l, s) == \E k \in Nat : c = Place(l, s, k)

(* What the kernel takes, if it comes in its turn; x are the approvals used.  *)
Sound(x, e) ==
  /\ e.kind \in {"effect", "aggregate"} /\ e.mandate = "run"
  /\ ~(Weight(e.class) < Weight(PolicyClass(e.action)))
  /\ PolicyClass(e.action) = "consequential" /\ Applied(e) => e.auth # None
  /\ e.auth # None => e.auth = <<e.action, e.target>> /\ e.auth \notin x

(* All of s lands after l, one by one.                                        *)
Lands(l, x, s) ==
  /\ \A i \in DOMAIN s : /\ s[i].seq = Len(l) + i - 1
                         /\ s[i].prev = IF i = 1 THEN Top(l) ELSE s[i - 1].id
  /\ \A i \in DOMAIN s : Sound(x, s[i])
  /\ \A i, j \in DOMAIN s : s[i].auth # None /\ s[i].auth = s[j].auth => i = j

(* What a case wants refused is made to be.                                   *)
Refused(c) == c \in (NegativeCases \cup {"administrative-path"}) \ {"prohibited-attempted"}

Refusable(c, e) ==
  \/ c = "mandate-root-not-human" /\ e.kind = "mandate"
  \/ c = "cognition-with-evidence" /\ e.kind = "cognition"
  \/ /\ e.kind = "effect" /\ ~(Weight(e.class) < Weight(PolicyClass(e.action)))
     /\ \/ c = "mandate-expired" /\ e.mandate = "brief" /\ e.at = "late"
        \/ /\ c \in {"gate-authorization-missing", "administrative-path"}
           /\ PolicyClass(e.action) = "consequential" /\ Applied(e)
           /\ e.mandate = "run" /\ e.auth = None /\ e.auth # <<e.action, e.target>>
        \/ /\ c = "gate-authorization-action-mismatch"
           /\ e.mandate = "run" /\ e.auth \notin {None, <<e.action, e.target>>}
        \/ /\ c = "gate-authorization-replayed"
           /\ e.mandate = "run" /\ e.auth = <<e.action, e.target>> /\ e.auth # None

(* Nothing of it departs from the protocol, and it is one the group of the    *)
(* negative cases has something to try on.                                    *)
Faithful == faults = {} /\ Gated(manifest) # <<>> /\ DeclaredOnce(manifest) /\ AsThePolicySays

(* Of the submissions in hand, those that are to land. *)
Landing ==
  IF mode # "submitting" THEN collected
  ELSE IF Refused(Now.case) THEN (IF Len(subs) = 2 THEN <<subs[1]>> ELSE <<>>)
  ELSE subs

Submitted(c) == mode = "submitting" /\ Now.case = c
Coming(c) == \E s \in Range(todo) : s.case = c
Due(c) == Coming(c) /\ ~Submitted(c)

OwnTarget(e) == e.auth # None => e.target = "sample"

(* It answered the request from where it stood, c. *)
HasAnswered(c) ==
  LET s == Submissions(c, Request)
  IN  outbox = <<Answered(Request, s)>> /\ comp = Behind(c, Request, s)

(* The component and the kernel agree on what comes next. *)
Lockstep ==
  /\ \A i \in DOMAIN log : log[i].seq = i - 1
  /\ Lands(log, spent, Landing)
  /\ Submitted("gate-authorization-replayed") \/ \A e \in Range(Landing) : OwnTarget(e)
  /\ mode # "asking" => inbox = <<>> /\ outbox = <<>> /\ Stands(comp, log, Landing)
  /\ mode = "asking" =>
       \/ inbox = <<Request>> /\ outbox = <<>> /\ Stands(comp, log, collected)
       \/ inbox = <<>> /\ \E k \in Nat : HasAnswered(Place(log, collected, k))

(* Samples are gathered until they are submitted, each under its approval. *)
Gathering ==
  /\ collected # <<>> => Due("coverage") /\ mode # "submitting"
  /\ \A e \in Range(collected) : e.expires
  /\ Due("coverage") => \A a \in Range(manifest) :
       \/ StepOn("per-action-emission", "sample", a) \in Range(todo)
       \/ \E e \in Range(collected) : e.action = a.action
  /\ \A s \in Range(todo) : Gates(s) =>
       /\ <<s.action.action, "sample">> \notin spent
       /\ \A e \in Range(collected) : e.auth # <<s.action.action, "sample">>

(* What the steps behind have left, for those ahead. *)
Prepared ==
  /\ Due("gate-authorization-replayed") => Approval \notin spent
  /\ kept = <<>> => Coming("gate-authorization-missing")
                    /\ (Submitted("gate-authorization-missing") => subs # <<>>)
  /\ kept # <<>> => \E e : kept = <<e>> /\ Refusable("administrative-path", e)
  /\ moved \/ Coming("clock")
  /\ \/ Coming("coverage")
     \/ ~Coming("sample") /\ \E e \in Range(log) : e.expires

(* What is in hand is what the step wants. *)
Presented ==
  mode = "submitting" =>
    /\ Now.case \in {"coverage", "emit", "offline", "administrative-path"} \cup NegativeCases
    /\ Now.case = "coverage" =>
         /\ \A e \in Range(subs) \cup Range(sent) : e.expires
         /\ Range(sent) \subseteq Range(log)
         /\ \A a \in Range(manifest) : \E e \in Range(subs) \cup Range(sent) : e.action = a.action
    /\ Now.case = "emit" =>
         \E e : /\ <<subs, sent>> \in {<<<<e>>, <<>>>>, <<<<>>, <<e>>>>}
                /\ e.kind = "aggregate" /\ e.folds = Calls(Now.action) /\ e.samples = 1
    /\ Now.case = "offline" =>
         IF sent = <<>> THEN subs # <<>> ELSE HeadId = Last(sent).id
    /\ Now.case = "prohibited-attempted" => \A e \in Range(subs) : e.outcome = "attempted"
    /\ Refused(Now.case) =>
         \/ subs = <<>>
         \/ \E e : /\ subs = <<e>> /\ Refusable(Now.case, e)
                   /\ (Now.case # "administrative-path" => e.seq = Len(log))
                   /\ (Now.case = "gate-authorization-replayed" => e.auth \in spent)
         \/ /\ Now.case = "gate-authorization-replayed"
            /\ \E f, e : /\ subs = <<f, e>> /\ Refusable(Now.case, e) /\ e.seq = Len(log) + 1
                         /\ Applied(f) /\ f.auth = e.auth

(* The steps ahead are those of the manifest, and no group was failed but for *)
(* a table that fails.                                                        *)
Unfailed ==
  /\ \A s \in Range(todo) : Declared(manifest, s)
  /\ \A g \in Groups :
       /\ groups[g] = "not-run" => \E s \in Range(todo) : s.group = g
       /\ groups[g] = "failed" => /\ g = "durable-objects" /\ objects \in Tables
                                  /\ CheckDurableObjects(objects) = "failed"

OnCourse == Lockstep /\ Gathering /\ Prepared /\ Presented /\ Unfailed
KeptInv == Faithful => OnCourse
RedIsOver == ended = "red" => todo = <<>> /\ Outstanding # {}
(* What lands, lands one by one. *)

Numbered(l) == \A i \in DOMAIN l : l[i].seq = i - 1

LEMMA SeqIs ==
  ASSUME NEW q, IsSeq(q)
  PROVE  /\ Len(q) \in Nat /\ DOMAIN q = 1 .. Len(q)
         /\ q = <<>> <=> Len(q) = 0
         /\ \A i \in 1 .. Len(q) : q[i] \in Range(q)
         /\ q # <<>> => Last(q) = q[Len(q)]
BY DEF IsSeq, Range, Last

LEMMA AppendIs ==
  ASSUME NEW q, IsSeq(q), NEW x
  PROVE  /\ Len(Append(q, x)) = Len(q) + 1
         /\ \A i \in 1 .. Len(q) : Append(q, x)[i] = q[i]
         /\ Append(q, x)[Len(q) + 1] = x
         /\ Last(Append(q, x)) = x
<1>1. q \in Seq(Range(q) \cup {x}) /\ x \in Range(q) \cup {x} /\ Len(q) \in Nat
  <2>1. q \in Seq(Range(q))
    BY DEF IsSeq
  <2> QED
    BY <2>1
<1>2. /\ Len(Append(q, x)) = Len(q) + 1
      /\ \A i \in 1 .. Len(q) : Append(q, x)[i] = q[i]
      /\ Append(q, x)[Len(q) + 1] = x
  BY <1>1
<1> QED
  BY <1>1, <1>2 DEF Last

LEMMA TailIs ==
  ASSUME NEW q, IsSeq(q), q # <<>>
  PROVE  /\ Len(q) \in Nat \ {0} /\ Len(Tail(q)) = Len(q) - 1
         /\ Head(q) = q[1] /\ 1 \in DOMAIN q
         /\ \A i \in DOMAIN Tail(q) : i + 1 \in DOMAIN q /\ Tail(q)[i] = q[i + 1]
         /\ Tail(q) # <<>> => Last(Tail(q)) = Last(q) /\ Tail(q)[1] = q[2]
         /\ Tail(q) = <<>> => Last(q) = Head(q)
<1>1. PICK n \in Nat : n = Len(q) /\ n # 0 /\ DOMAIN q = 1 .. n
  BY DEF IsSeq
<1>2. /\ Len(Tail(q)) = n - 1 /\ DOMAIN Tail(q) = 1 .. (n - 1) /\ Head(q) = q[1]
      /\ \A i \in 1 .. (n - 1) : Tail(q)[i] = q[i + 1]
  BY <1>1 DEF IsSeq
<1>3. \A i \in 1 .. (n - 1) : i + 1 \in 1 .. n
  BY <1>1
<1>4. ASSUME Tail(q) # <<>> PROVE Last(Tail(q)) = Last(q) /\ Tail(q)[1] = q[2]
  <2>1. n - 1 # 0
    <3>1. IsSeq(Tail(q))
      BY RestIsSeq
    <3> QED
      BY <1>2, <1>4, <3>1, SeqIs
  <2>2. n - 1 \in 1 .. (n - 1) /\ (n - 1) + 1 = n /\ 1 \in 1 .. (n - 1) /\ 1 + 1 = 2
    BY <1>1, <2>1
  <2> QED
    BY <1>1, <1>2, <2>2 DEF Last
<1>5. Tail(q) = <<>> => Last(q) = Head(q)
  <2>1. ASSUME NEW t, IsSeq(t), t = <<>> PROVE Len(t) = 0
    BY <2>1, SeqIs
  <2>2. Tail(q) = <<>> => n - 1 = 0
    BY <1>2, <2>1, RestIsSeq
  <2>3. Tail(q) = <<>> => n = 1
    BY <2>2
  <2> QED
    BY <1>1, <1>2, <2>3 DEF Last
<1> QED
  BY <1>1, <1>2, <1>3, <1>4, <1>5

(* The first of s, and the rest once it has landed. *)
FirstIs(l, x, s) ==
  /\ Head(s) \notin Range(l) /\ Head(s).seq = Len(l) /\ Head(s).prev = Top(l)
  /\ Sound(x, Head(s))

RestLands(l, y, s) ==
  /\ IsSeq(Append(l, Head(s))) /\ Numbered(Append(l, Head(s)))
  /\ Top(Append(l, Head(s))) = Head(s).id
  /\ Lands(Append(l, Head(s)), y, Tail(s))
  /\ \A c : Stands(c, l, s) => Stands(c, Append(l, Head(s)), Tail(s))

LEMMA FirstLands ==
  ASSUME NEW l, IsSeq(l), Numbered(l), NEW x, NEW s, IsSeq(s), s # <<>>, Lands(l, x, s),
         NEW y, y \subseteq x \cup {Head(s).auth}
  PROVE  FirstIs(l, x, s) /\ RestLands(l, y, s)
<1> DEFINE e == Head(s)
           p == Append(l, e)
           t == Tail(s)
<1>1. /\ Len(l) \in Nat /\ DOMAIN l = 1 .. Len(l)
      /\ IsSeq(p) /\ p # <<>> /\ Len(p) = Len(l) + 1 /\ DOMAIN p = 1 .. Len(p)
      /\ \A i \in 1 .. Len(l) : p[i] = l[i]
      /\ p[Len(l) + 1] = e /\ Last(p) = e
  BY SeqIs, AppendIsSeq, AppendIs
<1>2. /\ Len(s) \in Nat \ {0} /\ Len(t) = Len(s) - 1 /\ e = s[1] /\ 1 \in DOMAIN s
      /\ \A i \in DOMAIN t : i + 1 \in DOMAIN s /\ t[i] = s[i + 1]
      /\ t # <<>> => Last(t) = Last(s)
      /\ t = <<>> => Last(s) = e
      /\ IsSeq(t) /\ DOMAIN t = 1 .. Len(t)
  BY TailIs, RestIsSeq, SeqIs
<1> HIDE DEF p, t, e
<1>3. e.seq = Len(l) /\ e.prev = Top(l) /\ Sound(x, e)
  <2>1. /\ s[1].seq = Len(l) + 1 - 1 /\ Sound(x, s[1])
        /\ s[1].prev = IF 1 = 1 THEN Top(l) ELSE s[1 - 1].id
    BY <1>2 DEF Lands
  <2> QED
    BY <1>1, <1>2, <2>1
<1>4. e \notin Range(l)
  <2> SUFFICES ASSUME NEW i \in 1 .. Len(l), e = l[i] PROVE FALSE
    BY <1>1 DEF Range
  <2>1. l[i].seq = i - 1
    BY <1>1 DEF Numbered
  <2> QED
    BY <1>1, <1>3, <2>1
<1>5. Numbered(p)
  <2> SUFFICES ASSUME NEW i \in 1 .. (Len(l) + 1) PROVE p[i].seq = i - 1
    BY <1>1 DEF Numbered
  <2>1. CASE i \in 1 .. Len(l)
    BY <1>1, <2>1 DEF Numbered
  <2>2. CASE i = Len(l) + 1
    BY <1>1, <1>3, <2>2
  <2> QED
    BY <1>1, <2>1, <2>2
<1>6. Top(p) = e.id
  BY <1>1 DEF Top
<1>7. Lands(p, y, t)
  <2>1. ASSUME NEW i \in DOMAIN t
        PROVE  /\ t[i].seq = Len(p) + i - 1
               /\ t[i].prev = IF i = 1 THEN Top(p) ELSE t[i - 1].id
               /\ Sound(y, t[i])
    <3>1. /\ i \in Nat /\ i # 0 /\ i + 1 \in DOMAIN s /\ t[i] = s[i + 1] /\ (i + 1) - 1 = i
          /\ i + 1 # 1
      BY <1>2
    <3>2. /\ s[i + 1].seq = Len(l) + (i + 1) - 1 /\ Sound(x, s[i + 1])
          /\ s[i + 1].prev = IF i + 1 = 1 THEN Top(l) ELSE s[(i + 1) - 1].id
      BY <3>1 DEF Lands
    <3>3. t[i].seq = Len(p) + i - 1
      BY <1>1, <3>1, <3>2
    <3>4. t[i].prev = s[i].id
      BY <3>1, <3>2
    <3>5. i # 1 => i - 1 \in DOMAIN t /\ t[i - 1] = s[i]
      <4>1. ASSUME i # 1 PROVE i - 1 \in DOMAIN t /\ (i - 1) + 1 = i
        BY <1>2, <3>1, <4>1
      <4> QED
        BY <1>2, <4>1
    <3>6. t[i].prev = IF i = 1 THEN Top(p) ELSE t[i - 1].id
      BY <1>2, <1>6, <3>4, <3>5
    <3>7. t[i].auth # None => t[i].auth \notin y
      <4>1. ASSUME t[i].auth # None PROVE t[i].auth # e.auth
        <5>1. s[i + 1].auth # None /\ s[i + 1].auth = s[1].auth => i + 1 = 1
          BY <1>2, <3>1 DEF Lands
        <5> QED
          BY <1>2, <3>1, <4>1, <5>1
      <4> QED
        BY <3>1, <3>2, <4>1 DEF Sound, e
    <3> QED
      BY <3>1, <3>2, <3>3, <3>6, <3>7 DEF Sound
  <2>2. ASSUME NEW i \in DOMAIN t, NEW j \in DOMAIN t, t[i].auth # None, t[i].auth = t[j].auth
        PROVE  i = j
    <3>1. i + 1 = j + 1
      BY <1>2, <2>2 DEF Lands
    <3> QED
      BY <1>2, <3>1
  <2> QED
    BY <2>1, <2>2 DEF Lands
<1>8. ASSUME NEW c, Stands(c, l, s) PROVE Stands(c, p, t)
  <2>1. PICK k \in Nat : c = Place(l, s, k)
    BY <1>8 DEF Stands
  <2>2. Len(l) + Len(s) = Len(p) + Len(t)
    BY <1>1, <1>2
  <2>3. IF s = <<>> THEN Top(l) ELSE Last(s).id = IF t = <<>> THEN Top(p) ELSE Last(t).id
    BY <1>2, <1>6
  <2>4. c = Place(p, t, k)
    BY <2>1, <2>2, <2>3 DEF Place
  <2> QED
    BY <2>4 DEF Stands
<1> QED
  BY <1>1, <1>3, <1>4, <1>5, <1>6, <1>7, <1>8 DEF p, t, e, FirstIs, RestLands

LEMMA NoneLands ==
  ASSUME NEW l, NEW x
  PROVE  Lands(l, x, <<>>)
BY DEF Lands

(* One more signed at its place lands after those before it. *)
LEMMA OneMoreLands ==
  ASSUME NEW l, IsSeq(l), NEW x, NEW s, IsSeq(s), Lands(l, x, s), NEW k \in Nat,
         NEW g, g.seq = Place(l, s, k).seq, g.prev = Place(l, s, k).prev, g.id = k + 1,
         Sound(x, g), \A e \in Range(s) : e.auth = None \/ e.auth # g.auth
  PROVE  /\ IsSeq(Append(s, g)) /\ Lands(l, x, Append(s, g))
         /\ \A c : Commit(c, g) = Place(l, Append(s, g), k + 1)
         /\ k + 1 \in Nat
<1> DEFINE t == Append(s, g)
<1>1. /\ Len(s) \in Nat /\ DOMAIN s = 1 .. Len(s) /\ Len(l) \in Nat
      /\ s = <<>> <=> Len(s) = 0
      /\ \A i \in 1 .. Len(s) : s[i] \in Range(s)
      /\ IsSeq(t) /\ t # <<>> /\ Len(t) = Len(s) + 1 /\ DOMAIN t = 1 .. Len(t)
      /\ \A i \in 1 .. Len(s) : t[i] = s[i]
      /\ t[Len(s) + 1] = g /\ Last(t) = g
      /\ s # <<>> => Last(s) = s[Len(s)]
  BY SeqIs, AppendIsSeq, AppendIs
<1>2. g.seq = Len(l) + Len(s) /\ g.prev = IF s = <<>> THEN Top(l) ELSE Last(s).id
  BY DEF Place
<1> HIDE DEF t
<1>3. ASSUME NEW i \in DOMAIN t
      PROVE  /\ t[i].seq = Len(l) + i - 1
             /\ t[i].prev = IF i = 1 THEN Top(l) ELSE t[i - 1].id
             /\ Sound(x, t[i])
  <2>1. CASE i \in 1 .. Len(s)
    <3>1. /\ s[i].seq = Len(l) + i - 1 /\ Sound(x, s[i])
          /\ s[i].prev = IF i = 1 THEN Top(l) ELSE s[i - 1].id
      BY <1>1, <2>1 DEF Lands
    <3>2. i # 1 => i - 1 \in 1 .. Len(s)
      BY <1>1, <2>1
    <3> QED
      BY <1>1, <2>1, <3>1, <3>2
  <2>2. CASE i = Len(s) + 1
    <3>1. t[i].seq = Len(l) + i - 1 /\ Sound(x, t[i])
      BY <1>1, <1>2, <2>2
    <3>2. CASE s = <<>>
      BY <1>1, <1>2, <2>2, <3>1, <3>2
    <3>3. CASE s # <<>>
      <4>1. i # 1 /\ i - 1 = Len(s) /\ Len(s) \in 1 .. Len(s)
        BY <1>1, <2>2, <3>3
      <4> QED
        BY <1>1, <1>2, <2>2, <3>1, <3>3, <4>1
    <3> QED
      BY <3>2, <3>3
  <2> QED
    BY <1>1, <2>1, <2>2
<1>4. ASSUME NEW i \in DOMAIN t, NEW j \in DOMAIN t, t[i].auth # None, t[i].auth = t[j].auth
      PROVE  i = j
  <2>1. (i \in 1 .. Len(s) \/ i = Len(s) + 1) /\ (j \in 1 .. Len(s) \/ j = Len(s) + 1)
    BY <1>1
  <2>2. i \in 1 .. Len(s) /\ j \in 1 .. Len(s) => i = j
    BY <1>1, <1>4 DEF Lands
  <2>3. CASE i \in 1 .. Len(s) /\ j = Len(s) + 1
    <3>1. t[i] \in Range(s) /\ t[j] = g
      BY <1>1, <2>3
    <3> QED
      BY <1>4, <3>1
  <2>4. CASE i = Len(s) + 1 /\ j \in 1 .. Len(s)
    <3>1. t[j] \in Range(s) /\ t[i] = g
      BY <1>1, <2>4
    <3> QED
      BY <1>4, <3>1
  <2> QED
    BY <2>1, <2>2, <2>3, <2>4
<1>5. ASSUME NEW c PROVE Commit(c, g) = Place(l, t, k + 1)
  <2>1. g.seq + 1 = Len(l) + Len(t)
    BY <1>1, <1>2
  <2> QED
    BY <1>1, <2>1 DEF Commit, Place
<1>6. Lands(l, x, t)
  BY <1>3, <1>4 DEF Lands
<1>7. IsSeq(t) /\ k + 1 \in Nat
  BY <1>1
<1> QED
  BY <1>5, <1>6, <1>7 DEF t

(* What the component signs, when it stands where it should. *)

LEMMA Weights ==
  /\ Weight("read") = 1 /\ Weight("benign") = 2
  /\ Weight("consequential") = 3 /\ Weight("prohibited") = 4
<1>1. DOMAIN Classes = {1, 2, 3, 4} /\ Classes[1] = "read" /\ Classes[2] = "benign"
      /\ Classes[3] = "consequential" /\ Classes[4] = "prohibited"
  BY DEF Classes
<1>2. ASSUME NEW i \in {1, 2, 3, 4} PROVE Weight(Classes[i]) = i
  <2>1. \A j \in DOMAIN Classes : Classes[j] = Classes[i] => j = i
    BY <1>1
  <2>2. i \in DOMAIN Classes
    BY <1>1
  <2> QED
    BY <2>1, <2>2 DEF Weight
<1> QED
  BY <1>1, <1>2

LEMMA PolicyIs ==
  ASSUME manifest \in Manifests, Faithful
  PROVE  /\ \A a \in Range(manifest) :
              /\ a.class = PolicyClass(a.action) /\ a.class \in {"read", "consequential"}
              /\ a.max \in 1 .. 16
              /\ \A t \in {"sample", "approved", "elsewhere"} : None # <<a.action, t>>
         /\ GatedAction \in Range(manifest) /\ GatedAction.class = "consequential"
         /\ PolicyClass(GatedAction.action) = "consequential"
         /\ ReadAction.class = "read" /\ PolicyClass(ReadAction.action) = "read"
         /\ Weight(PolicyClass("delete")) \in 1 .. 4
         /\ Range(Reads(manifest)) = {a \in Range(manifest) : a.class = "read"}
         /\ IsSeq(Reads(manifest))
<1>1. IsSeq(manifest) /\ IsSeq(Reads(manifest))
  BY ManifestIs
<1>2. ASSUME NEW a \in Range(manifest)
      PROVE  /\ a.class = PolicyClass(a.action) /\ a.class \in {"read", "consequential"}
             /\ a.max \in 1 .. 16
             /\ \A t \in {"sample", "approved", "elsewhere"} : None # <<a.action, t>>
  <2>1. PICK i \in DOMAIN manifest : manifest[i] = a
    BY DEF Range
  <2>2. a.class = PolicyClass(a.action)
    BY <2>1 DEF Faithful, AsThePolicySays
  <2>3. /\ a \in [action : {a.action}, max : 1 .. 16, class : {"read", "consequential"}]
        /\ \A t \in {"sample", "approved", "elsewhere"} : None # <<a.action, t>>
    BY ConformanceAssumption DEF ConformanceAssumption
  <2> QED
    BY <2>2, <2>3
<1>3. /\ Range(Reads(manifest)) = {a \in Range(manifest) : a.class = "read"}
      /\ Range(Gated(manifest)) = {a \in Range(manifest) : a.class = "consequential"}
      /\ Gated(manifest) \in Seq(Range(manifest))
  BY <1>1, OfClassSelects DEF IsSeq, Reads, Gated
<1>4. GatedAction \in Range(manifest) /\ GatedAction.class = "consequential"
  <2>1. Gated(manifest) # <<>> /\ GatedAction = Head(Gated(manifest))
    BY DEF Faithful, GatedAction
  <2>2. PICK q \in Seq(Range(manifest)) : q = Gated(manifest)
    BY <1>3
  <2>3. Head(q) \in Range(q)
    BY <2>1, <2>2 DEF Range
  <2> QED
    BY <1>3, <2>1, <2>2, <2>3
<1>5. ReadAction.class = "read" /\ PolicyClass(ReadAction.action) = "read"
  <2>1. CASE Reads(manifest) = <<>>
    <3>1. ReadAction.action = "get" /\ ReadAction.class = "read"
      BY <2>1 DEF ReadAction
    <3>2. PolicyClass("get") = "read"
      BY ConformanceAssumption DEF ConformanceAssumption, PolicyClass
    <3> QED
      BY <3>1, <3>2
  <2>2. CASE Reads(manifest) # <<>>
    <3>1. ReadAction = Head(Reads(manifest))
      BY <2>2 DEF ReadAction
    <3>2. ReadAction \in Range(Reads(manifest))
      BY <1>1, <2>2, <3>1, RestIsSeq
    <3> QED
      BY <1>2, <1>3, <3>2
  <2> QED
    BY <2>1, <2>2
<1>6. Weight(PolicyClass("delete")) \in 1 .. 4
  <2>1. PolicyClass("delete") \in {"read", "benign", "consequential", "prohibited"}
    <3>1. Range(Classes) = {"read", "benign", "consequential", "prohibited"}
      <4>1. DOMAIN Classes = {1, 2, 3, 4}
        BY DEF Classes
      <4> QED
        BY <4>1 DEF Classes, Range
    <3> QED
      BY <3>1, ConformanceAssumption DEF ConformanceAssumption, PolicyClass
  <2> QED
    BY <2>1, Weights
<1> QED
  BY <1>1, <1>2, <1>3, <1>4, <1>5, <1>6

LEMMA SignedHas ==
  ASSUME NEW c, NEW r, NEW a
  PROVE  LET e == Signed(c, r, a) IN
         /\ {"auth", "kind", "outcome", "at", "action", "class", "expires", "folds", "samples",
             "id", "seq", "prev", "target", "mandate"} = DOMAIN e
         /\ e.id = c.made + 1 /\ e.seq = c.seq /\ e.prev = c.prev
         /\ e.kind = "effect" /\ e.action = a.action /\ e.class = a.class
         /\ e.outcome = "applied" /\ e.target = "sample" /\ e.auth = None
         /\ e.mandate = "run" /\ e.at = r.at
BY DEF Signed

LEMMA NotNegative ==
  /\ Range(Negatives) = NegativeCases
  /\ "sample" \notin NegativeCases /\ "emit" \notin NegativeCases /\ "offline" \notin NegativeCases
  /\ "hello" \notin NegativeCases /\ "vectors" \notin NegativeCases
  /\ "coverage" \notin NegativeCases /\ "administrative-path" \notin NegativeCases
BY NegativesAre DEF NegativeCases

LEMMA CommitOne ==
  ASSUME NEW c, NEW e
  PROVE  CommitAll(c, <<e>>) = Commit(c, e)
BY DEF CommitAll, Last

LEMMA AppendOne ==
  ASSUME NEW s, IsSeq(s), NEW e
  PROVE  s \o <<e>> = Append(s, e)
<1>1. s \in Seq(Range(s) \cup {e}) /\ e \in Range(s) \cup {e}
  <2>1. s \in Seq(Range(s))
    BY DEF IsSeq
  <2> QED
    BY <2>1
<1> QED
  BY <1>1

(* The sample g answers r, of a component at p, and lands after those of s.   *)
LandsNext(l, x, s, p, r, g) ==
  /\ Submissions(p, r) = <<g>>
  /\ IsSeq(s \o <<g>>) /\ Lands(l, x, s \o <<g>>)
  /\ Stands(Behind(p, r, <<g>>), l, s \o <<g>>)
  /\ g.expires /\ g.action = r.action.action /\ OwnTarget(g)
  /\ g.auth # None => /\ r.action.class = "consequential"
                      /\ g.auth = <<r.action.action, "sample">>

LEMMA SampleLands ==
  ASSUME manifest \in Manifests, Faithful, NEW l, IsSeq(l), NEW x, NEW s, IsSeq(s), Lands(l, x, s),
         NEW k \in Nat, NEW r, r.case = "sample", r.action \in Range(manifest),
         r.action.class = "consequential" =>
           /\ <<r.action.action, "sample">> \notin x
           /\ \A e \in Range(s) : e.auth # <<r.action.action, "sample">>
  PROVE  \E g : LandsNext(l, x, s, Place(l, s, k), r, g)
<1> DEFINE a == IF r.action.class = "consequential" THEN <<r.action.action, "sample">>
                ELSE None
           b == TRUE
<1>1. PICK c : c = Place(l, s, k)
  OBVIOUS
<1>2. PICK f : f = Signed(c, r, r.action)
  OBVIOUS
<1>3. PICK g : g = Sample(c, r)
  OBVIOUS
<1>4. g = [f EXCEPT !.auth = a, !.expires = b]
  BY <1>2, <1>3 DEF Sample
<1>5. /\ r.action.class = PolicyClass(r.action.action)
      /\ r.action.class \in {"read", "consequential"}
      /\ None # <<r.action.action, "sample">>
  BY PolicyIs
<1>6. /\ a # None <=> r.action.class = "consequential"
      /\ a # None => a = <<r.action.action, "sample">>
      /\ b
  BY <1>5
<1> HIDE DEF a, b
<1>7. /\ g.id = c.made + 1 /\ g.seq = c.seq /\ g.prev = c.prev
      /\ g.kind = "effect" /\ g.action = r.action.action /\ g.class = r.action.class
      /\ g.target = "sample" /\ g.auth = a /\ g.mandate = "run" /\ g.expires = b
  <2>1. /\ {"auth", "kind", "outcome", "at", "action", "class", "expires", "folds", "samples",
             "id", "seq", "prev", "target", "mandate"} = DOMAIN f
        /\ f.id = c.made + 1 /\ f.seq = c.seq /\ f.prev = c.prev
        /\ f.kind = "effect" /\ f.action = r.action.action /\ f.class = r.action.class
        /\ f.target = "sample" /\ f.mandate = "run"
    BY <1>2, SignedHas
  <2> QED
    BY <1>4, <2>1
<1>8. Sound(x, g)
  <2>1. ~(Weight(g.class) < Weight(PolicyClass(g.action)))
    BY <1>5, <1>7, Weights
  <2> QED
    BY <1>5, <1>6, <1>7, <2>1 DEF Sound
<1>9. /\ Submissions(c, r) = <<g>> /\ Behind(c, r, <<g>>) = Commit(c, g)
  <2>1. Submissions(c, r) = <<g>>
    BY <1>3, NegativesAre DEF Submissions, NegativeCases
  <2> QED
    BY <2>1, NotNegative, CommitOne DEF Behind
<1>10. /\ IsSeq(Append(s, g)) /\ Lands(l, x, Append(s, g))
       /\ Commit(c, g) = Place(l, Append(s, g), k + 1) /\ k + 1 \in Nat
  <2>1. g.id = k + 1 /\ g.seq = Place(l, s, k).seq /\ g.prev = Place(l, s, k).prev
    BY <1>1, <1>7 DEF Place
  <2>2. \A e \in Range(s) : e.auth = None \/ e.auth # g.auth
    BY <1>6, <1>7
  <2> QED
    BY <1>8, <2>1, <2>2, OneMoreLands
<1>11. s \o <<g>> = Append(s, g)
  BY AppendOne
<1>12. Stands(Behind(c, r, <<g>>), l, s \o <<g>>)
  BY <1>9, <1>10, <1>11 DEF Stands
<1>13. OwnTarget(g)
  BY <1>7 DEF OwnTarget
<1> QED
  BY <1>1, <1>6, <1>7, <1>9, <1>10, <1>11, <1>12, <1>13 DEF LandsNext

(* One envelope that comes after nothing but what the kernel holds. *)
LEMMA OneLands ==
  ASSUME NEW l, IsSeq(l), NEW x, NEW k \in Nat, NEW g,
         g.seq = Place(l, <<>>, k).seq, g.prev = Place(l, <<>>, k).prev, g.id = k + 1, Sound(x, g)
  PROVE  /\ Lands(l, x, <<g>>) /\ \A c : Commit(c, g) = Place(l, <<g>>, k + 1)
         /\ k + 1 \in Nat
<1>1. PICK s : s = <<>>
  OBVIOUS
<1>2. Append(s, g) = <<g>>
  BY <1>1
<1>3. \A e \in Range(s) : e.auth = None \/ e.auth # g.auth
  BY <1>1, NoneIsSeq
<1>4. IsSeq(s) /\ Lands(l, x, s)
  BY <1>1, NoneIsSeq, NoneLands
<1>5. g.seq = Place(l, s, k).seq /\ g.prev = Place(l, s, k).prev
  BY <1>1
<1>6. /\ Lands(l, x, Append(s, g))
      /\ \A c : Commit(c, g) = Place(l, Append(s, g), k + 1)
      /\ k + 1 \in Nat
  BY <1>3, <1>4, <1>5, OneMoreLands
<1> QED
  BY <1>2, <1>6

(* The submissions s answer r, of a component at p, and land. *)
LandsAll(l, x, p, r, s) ==
  /\ Submissions(p, r) = s /\ IsSeq(s) /\ Lands(l, x, s) /\ Stands(Behind(p, r, s), l, s)
  /\ \A e \in Range(s) : OwnTarget(e)

(* A record of all the calls answers r, and lands. *)
FoldLands(l, x, p, r) ==
  \E g : /\ LandsAll(l, x, p, r, <<g>>)
         /\ g.kind = "aggregate" /\ g.folds = Calls(r.action) /\ g.samples = 1

LEMMA AggregateLands ==
  ASSUME manifest \in Manifests, Faithful, NEW l, IsSeq(l), NEW x,
         NEW k \in Nat, NEW r, r.case = "emit", r.action \in Range(Reads(manifest))
  PROVE  FoldLands(l, x, Place(l, <<>>, k), r)
<1>1. PICK c : c = Place(l, <<>>, k)
  OBVIOUS
<1>2. PICK f : f = Signed(c, r, r.action)
  OBVIOUS
<1>3. PICK g : g = Aggregate(c, r, Calls(r.action))
  OBVIOUS
<1>4. PICK n : n = Calls(r.action) /\ g = [f EXCEPT !.kind = "aggregate", !.folds = n, !.samples = 1]
  BY <1>2, <1>3 DEF Aggregate
<1>5. r.action.class = "read" /\ PolicyClass(r.action.action) = "read"
  BY PolicyIs
<1>6. /\ g.id = c.made + 1 /\ g.seq = c.seq /\ g.prev = c.prev
      /\ g.kind = "aggregate" /\ g.action = r.action.action /\ g.class = r.action.class
      /\ g.auth = None /\ g.mandate = "run" /\ g.folds = n /\ g.samples = 1
  <2>1. /\ {"auth", "kind", "outcome", "at", "action", "class", "expires", "folds", "samples",
             "id", "seq", "prev", "target", "mandate"} = DOMAIN f
        /\ f.id = c.made + 1 /\ f.seq = c.seq /\ f.prev = c.prev
        /\ f.action = r.action.action /\ f.class = r.action.class
        /\ f.auth = None /\ f.mandate = "run"
    BY <1>2, SignedHas
  <2> QED
    BY <1>4, <2>1
<1>7. Sound(x, g)
  <2>1. ~(Weight(g.class) < Weight(PolicyClass(g.action)))
    BY <1>5, <1>6, Weights
  <2> QED
    BY <1>5, <1>6, <2>1 DEF Sound
<1>8. /\ Submissions(c, r) = <<g>> /\ Behind(c, r, <<g>>) = Commit(c, g)
  <2>1. Submissions(c, r) = <<g>>
    BY <1>3, NegativesAre DEF Submissions, NegativeCases
  <2> QED
    BY <2>1, NotNegative, CommitOne DEF Behind
<1>9. /\ Lands(l, x, <<g>>) /\ Commit(c, g) = Place(l, <<g>>, k + 1) /\ k + 1 \in Nat
  <2>1. g.id = k + 1 /\ g.seq = Place(l, <<>>, k).seq /\ g.prev = Place(l, <<>>, k).prev
    BY <1>1, <1>6 DEF Place
  <2> QED
    BY <1>7, <2>1, OneLands
<1>10. Stands(Behind(c, r, <<g>>), l, <<g>>) /\ OwnTarget(g)
  BY <1>6, <1>8, <1>9 DEF Stands, OwnTarget
<1> QED
  <2>1. IsSeq(<<g>>) /\ \A e \in Range(<<g>>) : OwnTarget(e)
    BY <1>10, OneIsSeq
  <2>2. LandsAll(l, x, c, r, <<g>>)
    BY <1>1, <1>8, <1>9, <1>10, <2>1 DEF LandsAll
  <2> QED
    BY <1>1, <1>4, <1>6, <2>2 DEF FoldLands

LEMMA PlaceFirst ==
  ASSUME NEW l, IsSeq(l), NEW k
  PROVE  Place(l, <<>>, k) = [seq |-> Len(l), prev |-> Top(l), made |-> k]
<1>1. Len(l) \in Nat /\ Len(<<>>) = 0
  BY DEF IsSeq
<1>2. Len(l) + Len(<<>>) = Len(l)
  BY <1>1
<1> QED
  BY <1>2 DEF Place

(* A queue the harness can find nothing wrong with. *)
Queues(l, q) ==
  /\ q # <<>> /\ Head(q).seq = Len(l)
  /\ \A i \in DOMAIN q :
       /\ i > 1 => q[i].seq = q[i - 1].seq + 1 /\ q[i].prev = q[i - 1].id
       /\ q[i].action = GatedAction.action => ~Applied(q[i])

LEMMA QueueLands ==
  ASSUME manifest \in Manifests, Faithful, NEW l, IsSeq(l), NEW x, NEW k \in Nat, NEW r,
         r.case = "offline"
  PROVE  \E q : LandsAll(l, x, Place(l, <<>>, k), r, q) /\ Queues(l, q)
<1>1. PICK c : c = Place(l, <<>>, k)
  OBVIOUS
<1>2. c.seq = Len(l) /\ c.prev = Top(l) /\ c.made = k /\ Len(l) \in Nat
  BY <1>1, PlaceFirst, SeqIs
<1>3. PICK reads : reads = Reads(manifest) /\ IsSeq(reads)
  BY PolicyIs
<1>4. PICK acts : acts = Append(reads, GatedAction) /\ acts = Reads(manifest) \o <<GatedAction>>
  BY <1>3, AppendOne
<1>5. PICK n \in Nat : /\ n # 0 /\ n = Len(acts) /\ DOMAIN acts = 1 .. n
                       /\ \A i \in 1 .. n : i # n => acts[i] \in Range(reads)
                       /\ acts[n] = GatedAction
  <2>1. /\ Len(reads) \in Nat /\ DOMAIN reads = 1 .. Len(reads)
        /\ \A i \in 1 .. Len(reads) : reads[i] \in Range(reads)
        /\ IsSeq(acts) /\ DOMAIN acts = 1 .. Len(acts) /\ Len(acts) = Len(reads) + 1
        /\ \A i \in 1 .. Len(reads) : acts[i] = reads[i]
        /\ acts[Len(reads) + 1] = GatedAction
    <3>1. /\ Len(reads) \in Nat /\ DOMAIN reads = 1 .. Len(reads)
          /\ \A i \in 1 .. Len(reads) : reads[i] \in Range(reads)
      BY <1>3, SeqIs
    <3>2. /\ Len(acts) = Len(reads) + 1
          /\ \A i \in 1 .. Len(reads) : acts[i] = reads[i]
          /\ acts[Len(reads) + 1] = GatedAction
      BY <1>3, <1>4, AppendIs
    <3>3. IsSeq(acts)
      BY <1>3, <1>4, AppendIsSeq
    <3>4. DOMAIN acts = 1 .. Len(acts)
      BY <3>3, SeqIs
    <3> QED
      BY <3>1, <3>2, <3>3, <3>4
  <2>2. \A i \in 1 .. (Len(reads) + 1) : i # Len(reads) + 1 => i \in 1 .. Len(reads)
    BY <2>1
  <2> QED
    BY <2>1, <2>2
<1>6. ASSUME NEW i \in 1 .. n
      PROVE  /\ acts[i].class = PolicyClass(acts[i].action)
             /\ acts[i].class \in {"read", "consequential"}
             /\ i # n => acts[i].class = "read"
             /\ i # n => acts[i].action # GatedAction.action
  <2>1. acts[i] \in Range(manifest) /\ (i # n => acts[i].class = "read")
    BY <1>3, <1>5, PolicyIs
  <2> QED
    BY <2>1, PolicyIs
<1>7. PICK q : q = Queue(c, r)
  OBVIOUS
<1>8. q = [i \in 1 .. n |->
            [Signed(c, r, acts[i]) EXCEPT
               !.id = c.made + i, !.seq = c.seq + i - 1,
               !.prev = IF i = 1 THEN c.prev ELSE c.made + i - 1,
               !.outcome = IF i = n THEN "blocked" ELSE "applied"]]
  BY <1>4, <1>5, <1>7 DEF Queue
<1>9. ASSUME NEW i \in 1 .. n
      PROVE  /\ q[i].id = k + i /\ q[i].seq = Len(l) + i - 1
             /\ q[i].prev = IF i = 1 THEN Top(l) ELSE k + i - 1
             /\ q[i].outcome = IF i = n THEN "blocked" ELSE "applied"
             /\ q[i].kind = "effect" /\ q[i].action = acts[i].action /\ q[i].class = acts[i].class
             /\ q[i].auth = None /\ q[i].mandate = "run"
  <2> DEFINE before == IF i = 1 THEN c.prev ELSE c.made + i - 1
             became == IF i = n THEN "blocked" ELSE "applied"
  <2>1. PICK f : f = Signed(c, r, acts[i])
    OBVIOUS
  <2>2. PICK id, seq : id = c.made + i /\ seq = c.seq + i - 1
    OBVIOUS
  <2>3. q[i] = [f EXCEPT !.id = id, !.seq = seq, !.prev = before, !.outcome = became]
    BY <1>8, <2>1, <2>2
  <2>4. before = IF i = 1 THEN Top(l) ELSE k + i - 1
    BY <1>2
  <2>5. became = IF i = n THEN "blocked" ELSE "applied"
    OBVIOUS
  <2> HIDE DEF before, became
  <2>6. /\ {"auth", "kind", "outcome", "at", "action", "class", "expires", "folds", "samples",
             "id", "seq", "prev", "target", "mandate"} = DOMAIN f
        /\ f.kind = "effect" /\ f.action = acts[i].action /\ f.class = acts[i].class
        /\ f.auth = None /\ f.mandate = "run"
    BY <2>1, SignedHas
  <2>7. /\ q[i].id = id /\ q[i].seq = seq /\ q[i].prev = before /\ q[i].outcome = became
        /\ q[i].kind = "effect" /\ q[i].action = acts[i].action /\ q[i].class = acts[i].class
        /\ q[i].auth = None /\ q[i].mandate = "run"
    BY <2>3, <2>6
  <2> QED
    BY <1>2, <2>2, <2>4, <2>5, <2>7
<1>10. /\ IsSeq(q) /\ Len(q) = n /\ DOMAIN q = 1 .. n /\ q # <<>> /\ Last(q) = q[n] /\ Head(q) = q[1]
  <2>1. q = [i \in 1 .. n |-> q[i]] /\ DOMAIN q = 1 .. n
    BY <1>8
  <2>2. IsSeq(q) /\ Len(q) = n
    BY <2>1, ListIsSeq
  <2>3. q # <<>>
    BY <1>5, <2>2, SeqIs
  <2> QED
    BY <2>1, <2>2, <2>3, SeqIs, TailIs
<1>11. ASSUME NEW i \in 1 .. n
       PROVE  /\ i # 1 => i - 1 \in 1 .. n /\ q[i - 1].id = k + i - 1
              /\ i # 1 => q[i].seq = q[i - 1].seq + 1
              /\ q[i].prev = IF i = 1 THEN Top(l) ELSE q[i - 1].id
  <2>1. CASE i = 1
    BY <1>9, <2>1
  <2>2. CASE i # 1
    <3>1. i - 1 \in 1 .. n /\ k + (i - 1) = k + i - 1
      BY <2>2
    <3>2. q[i - 1].id = k + (i - 1) /\ q[i - 1].seq = Len(l) + (i - 1) - 1
      BY <1>9, <3>1
    <3>3. q[i].prev = k + i - 1 /\ q[i].seq = Len(l) + i - 1
      BY <1>9, <2>2
    <3>4. q[i].seq = q[i - 1].seq + 1
      BY <1>2, <3>2, <3>3
    <3> QED
      BY <2>2, <3>1, <3>2, <3>3, <3>4
  <2> QED
    BY <2>1, <2>2
<1>12. ASSUME NEW i \in 1 .. n
       PROVE  Sound(x, q[i]) /\ (q[i].action = GatedAction.action => ~Applied(q[i]))
  <2>0. q[i].action = acts[i].action /\ q[i].class = acts[i].class
    BY <1>9
  <2>1. q[i].class = PolicyClass(q[i].action) /\ q[i].class \in {"read", "consequential"}
    BY <1>6, <2>0
  <2>2. ~(Weight(q[i].class) < Weight(PolicyClass(q[i].action)))
    BY <2>1, Weights
  <2>3. i = n => ~Applied(q[i])
    BY <1>9 DEF Applied
  <2>4. i # n => PolicyClass(q[i].action) = "read" /\ q[i].action # GatedAction.action
    BY <1>6, <1>9
  <2> QED
    BY <1>9, <2>2, <2>3, <2>4 DEF Sound
<1>13. Lands(l, x, q)
  <2>1. ASSUME NEW i \in DOMAIN q
        PROVE  /\ q[i].seq = Len(l) + i - 1
               /\ q[i].prev = IF i = 1 THEN Top(l) ELSE q[i - 1].id
    <3>1. i \in 1 .. n
      BY <1>10
    <3>2. q[i].seq = Len(l) + i - 1
      BY <1>9, <3>1
    <3>3. q[i].prev = IF i = 1 THEN Top(l) ELSE q[i - 1].id
      BY <1>11, <3>1
    <3> QED
      BY <3>2, <3>3
  <2>2. \A i \in DOMAIN q : Sound(x, q[i])
    BY <1>10, <1>12
  <2>3. \A i, j \in DOMAIN q : ~(q[i].auth # None /\ q[i].auth = q[j].auth)
    BY <1>9, <1>10
  <2> QED
    BY <2>1, <2>2, <2>3 DEF Lands
<1>14. Stands(CommitAll(c, q), l, q)
  <2>1. n \in 1 .. n
    BY <1>5
  <2>2. q[n].id = k + n /\ q[n].seq + 1 = Len(l) + n
    BY <1>2, <1>9, <2>1
  <2>3. CommitAll(c, q) = Place(l, q, k + n)
    BY <1>10, <2>2 DEF CommitAll, Commit, Place
  <2>4. k + n \in Nat
    OBVIOUS
  <2> QED
    BY <2>3, <2>4 DEF Stands
<1>15. \A e \in Range(q) : OwnTarget(e)
  BY <1>9, <1>10 DEF Range, OwnTarget
<1>16. Head(q).seq = Len(l)
  <2>1. 1 \in 1 .. n /\ Len(l) + 1 - 1 = Len(l)
    BY <1>2, <1>5
  <2> QED
    BY <1>9, <1>10, <2>1
<1>17. \A i \in 1 .. n : i > 1 => i # 1
  OBVIOUS
<1>18. Submissions(c, r) = q /\ Behind(c, r, q) = CommitAll(c, q)
  <2>1. r.case \notin Range(Negatives)
    BY NotNegative
  <2>2. Submissions(c, r) = q
    BY <1>7, NegativesAre DEF Submissions, NegativeCases
  <2> QED
    BY <1>10, <2>1, <2>2 DEF Behind
<1>19. LandsAll(l, x, c, r, q)
  BY <1>10, <1>13, <1>14, <1>15, <1>18 DEF LandsAll
<1>20. Queues(l, q)
  BY <1>10, <1>11, <1>12, <1>16, <1>17 DEF Queues
<1> QED
  BY <1>1, <1>19, <1>20

LEMMA FrontsAre ==
  ASSUME NEW e, NEW f
  PROVE  /\ Front(<<e>>) = <<>> /\ Last(<<e>>) = e /\ <<e>> # <<>>
         /\ Front(<<e, f>>) = <<e>> /\ Last(<<e, f>>) = f /\ <<e, f>> # <<>>
<1>1. Front(<<e>>) = <<>>
  <2>1. Front(<<e>>) = SubSeq(<<e>>, 1, 0)
    BY DEF Front
  <2> QED
    BY <2>1
<1>2. Front(<<e, f>>) = <<e>>
  <2>1. Front(<<e, f>>) = SubSeq(<<e, f>>, 1, 1)
    BY DEF Front
  <2>2. SubSeq(<<e, f>>, 1, 1) = [i \in 1 .. 1 |-> <<e, f>>[i]]
    BY <2>1
  <2>3. [i \in 1 .. 1 |-> <<e, f>>[i]] = <<e>>
    OBVIOUS
  <2> QED
    BY <2>1, <2>2, <2>3
<1> QED
  BY <1>1, <1>2 DEF Last

(* What is asked of an envelope that a case wants refused is not committed.   *)
LEMMA RefusedStays ==
  ASSUME NEW l, IsSeq(l), NEW k \in Nat, NEW r, r.expect = "refused", NEW e, e.id = k + 1
  PROVE  Advanced(Place(l, <<>>, k), r, <<e>>) = Place(l, <<>>, k + 1)
<1>1. PICK c : c = Place(l, <<>>, k)
  OBVIOUS
<1>2. Advanced(c, r, <<e>>) = [c EXCEPT !.made = k + 1]
  <2>1. Front(<<e>>) = <<>> /\ Last(<<e>>) = e
    BY FrontsAre
  <2> QED
    BY <2>1 DEF Advanced, CommitAll
<1> QED
  BY <1>1, <1>2, PlaceFirst

LEMMA OnTargetHas ==
  ASSUME NEW c, NEW r, NEW t, NEW a
  PROVE  LET e == OnTarget(c, r, t, a) IN
         /\ e.id = c.made + 1 /\ e.seq = c.seq /\ e.prev = c.prev /\ e.kind = "effect"
         /\ e.action = GatedAction.action /\ e.class = GatedAction.class
         /\ e.outcome = "applied" /\ e.target = t /\ e.auth = a /\ e.mandate = "run"
<1>1. PICK f : f = Signed(c, r, GatedAction)
  OBVIOUS
<1>2. OnTarget(c, r, t, a) = [f EXCEPT !.target = t, !.auth = a]
  BY <1>1 DEF OnTarget
<1>3. /\ {"auth", "kind", "outcome", "at", "action", "class", "expires", "folds", "samples",
           "id", "seq", "prev", "target", "mandate"} = DOMAIN f
      /\ f.id = c.made + 1 /\ f.seq = c.seq /\ f.prev = c.prev /\ f.kind = "effect"
      /\ f.action = GatedAction.action /\ f.class = GatedAction.class
      /\ f.outcome = "applied" /\ f.mandate = "run"
  BY <1>1, SignedHas
<1> QED
  BY <1>2, <1>3

(* A case whose attempt is one envelope, to be refused. *)
OneRefused(l, r, s, p) ==
  \E e : /\ s = <<e>> /\ e.seq = Len(l) /\ Refusable(r.case, e)
         /\ Stands(Behind(p, r, s), l, <<>>)

LEMMA OneIsRefused ==
  ASSUME NEW l, IsSeq(l), NEW k \in Nat, NEW r, r.case \in NegativeCases, r.expect = "refused",
         NEW c, c = Place(l, <<>>, k), NEW e, e.id = c.made + 1, e.seq = c.seq,
         Refusable(r.case, e)
  PROVE  OneRefused(l, r, <<e>>, c)
<1>1. c.made = k /\ c.seq = Len(l)
  BY PlaceFirst
<1>2. Behind(c, r, <<e>>) = Advanced(c, r, <<e>>)
  BY FrontsAre, NotNegative DEF Behind
<1>3. Advanced(c, r, <<e>>) = Place(l, <<>>, k + 1)
  BY <1>1, RefusedStays
<1>4. Stands(Behind(c, r, <<e>>), l, <<>>)
  BY <1>2, <1>3 DEF Stands
<1> QED
  BY <1>1, <1>4 DEF OneRefused

LEMMA ReadsAreRefused ==
  ASSUME manifest \in Manifests, Faithful, NEW l, IsSeq(l), NEW k \in Nat, NEW r,
         r.case \in {"mandate-expired", "mandate-root-not-human", "cognition-with-evidence"},
         r.expect = "refused", r.case = "mandate-expired" => r.at = "late"
  PROVE  OneRefused(l, r, Attempt(Place(l, <<>>, k), r), Place(l, <<>>, k))
<1>1. PICK c : c = Place(l, <<>>, k)
  OBVIOUS
<1>2. PICK f : f = Signed(c, r, ReadAction)
  OBVIOUS
<1>3. /\ {"auth", "kind", "outcome", "at", "action", "class", "expires", "folds", "samples",
           "id", "seq", "prev", "target", "mandate"} = DOMAIN f
      /\ f.id = c.made + 1 /\ f.seq = c.seq /\ f.kind = "effect"
      /\ f.action = ReadAction.action /\ f.class = ReadAction.class /\ f.at = r.at
  BY <1>2, SignedHas
<1>4. r.case \in NegativeCases
  BY DEF NegativeCases
<1>5. ~(Weight(ReadAction.class) < Weight(PolicyClass(ReadAction.action)))
  BY PolicyIs, Weights
<1>6. PICK e : /\ Attempt(c, r) = <<e>> /\ e.id = c.made + 1 /\ e.seq = c.seq
               /\ Refusable(r.case, e)
  <2>1. CASE r.case = "mandate-expired"
    <3>1. PICK e : e = [f EXCEPT !.mandate = "brief"]
      OBVIOUS
    <3>2. Attempt(c, r) = <<e>>
      BY <1>2, <2>1, <3>1 DEF Attempt
    <3>3. /\ e.id = c.made + 1 /\ e.seq = c.seq /\ e.mandate = "brief" /\ e.kind = "effect"
          /\ e.at = r.at /\ e.action = ReadAction.action /\ e.class = ReadAction.class
      BY <1>3, <3>1
    <3>4. Refusable(r.case, e)
      BY <1>5, <2>1, <3>3 DEF Refusable
    <3> QED
      BY <3>2, <3>3, <3>4
  <2>2. CASE r.case = "mandate-root-not-human"
    <3>1. PICK e : e = [f EXCEPT !.kind = "mandate"]
      OBVIOUS
    <3>2. Attempt(c, r) = <<e>>
      BY <1>2, <2>2, <3>1 DEF Attempt
    <3>3. e.id = c.made + 1 /\ e.seq = c.seq /\ e.kind = "mandate"
      BY <1>3, <3>1
    <3>4. Refusable(r.case, e)
      BY <2>2, <3>3 DEF Refusable
    <3> QED
      BY <3>2, <3>3, <3>4
  <2>3. CASE r.case = "cognition-with-evidence"
    <3>1. PICK e : e = [f EXCEPT !.kind = "cognition"]
      OBVIOUS
    <3>2. Attempt(c, r) = <<e>>
      BY <1>2, <2>3, <3>1 DEF Attempt
    <3>3. e.id = c.made + 1 /\ e.seq = c.seq /\ e.kind = "cognition"
      BY <1>3, <3>1
    <3>4. Refusable(r.case, e)
      BY <2>3, <3>3 DEF Refusable
    <3> QED
      BY <3>2, <3>3, <3>4
  <2> QED
    BY <2>1, <2>2, <2>3
<1>7. OneRefused(l, r, <<e>>, c)
  BY <1>1, <1>4, <1>6, OneIsRefused
<1> QED
  BY <1>1, <1>6, <1>7

LEMMA UngatedIsRefused ==
  ASSUME manifest \in Manifests, Faithful, NEW l, IsSeq(l), NEW k \in Nat, NEW r,
         r.case \in {"gate-authorization-missing", "gate-authorization-action-mismatch"},
         r.expect = "refused"
  PROVE  OneRefused(l, r, Attempt(Place(l, <<>>, k), r), Place(l, <<>>, k))
<1>1. PICK c : c = Place(l, <<>>, k)
  OBVIOUS
<1>2. /\ GatedAction \in Range(manifest) /\ GatedAction.class = "consequential"
      /\ PolicyClass(GatedAction.action) = "consequential"
      /\ None # Approval
      /\ ~(Weight(GatedAction.class) < Weight(PolicyClass(GatedAction.action)))
  BY PolicyIs, Weights DEF Approval
<1>3. CASE r.case = "gate-authorization-missing"
  <2>1. PICK e : e = OnTarget(c, r, "approved", None)
    OBVIOUS
  <2>2. Attempt(c, r) = <<e>>
    BY <1>3, <2>1 DEF Attempt
  <2>3. /\ e.id = c.made + 1 /\ e.seq = c.seq /\ e.prev = c.prev /\ e.kind = "effect"
        /\ e.action = GatedAction.action /\ e.class = GatedAction.class
        /\ e.outcome = "applied" /\ e.target = "approved" /\ e.auth = None /\ e.mandate = "run"
    BY <2>1, OnTargetHas
  <2>4. Refusable(r.case, e)
    BY <1>2, <1>3, <2>3 DEF Refusable, Applied, Approval
  <2>5. r.case \in NegativeCases
    BY <1>3 DEF NegativeCases
  <2>6. OneRefused(l, r, <<e>>, c)
    BY <1>1, <2>3, <2>4, <2>5, OneIsRefused
  <2> QED
    BY <1>1, <2>2, <2>6
<1>4. CASE r.case = "gate-authorization-action-mismatch"
  <2>1. PICK e : e = OnTarget(c, r, "elsewhere", Approval)
    OBVIOUS
  <2>2. Attempt(c, r) = <<e>>
    BY <1>4, <2>1 DEF Attempt
  <2>3. /\ e.id = c.made + 1 /\ e.seq = c.seq /\ e.prev = c.prev /\ e.kind = "effect"
        /\ e.action = GatedAction.action /\ e.class = GatedAction.class
        /\ e.target = "elsewhere" /\ e.auth = Approval /\ e.mandate = "run"
    BY <2>1, OnTargetHas
  <2>4. Approval # <<e.action, e.target>>
    BY <2>3 DEF Approval
  <2>5. Refusable(r.case, e)
    BY <1>2, <1>4, <2>3, <2>4 DEF Refusable
  <2>6. r.case \in NegativeCases
    BY <1>4 DEF NegativeCases
  <2>7. OneRefused(l, r, <<e>>, c)
    BY <1>1, <2>3, <2>5, <2>6, OneIsRefused
  <2> QED
    BY <1>1, <2>2, <2>7
<1> QED
  BY <1>3, <1>4

(* A case whose attempt is two: f is to land, and e, under the same approval, *)
(* to be refused.                                                             *)
LandsFirst(l, x, p, r, f, e) ==
  /\ Attempt(p, r) = <<f, e>> /\ Lands(l, x, <<f>>) /\ Stands(Behind(p, r, <<f, e>>), l, <<f>>)
  /\ Refusable(r.case, e) /\ e.seq = Len(l) + 1 /\ Applied(f) /\ f.auth = e.auth

(* The approval is used by the first, and the second is refused for it. *)
LEMMA ReplayIsRefused ==
  ASSUME manifest \in Manifests, Faithful, NEW l, IsSeq(l), NEW x, Approval \notin x,
         NEW k \in Nat, NEW r, r.case = "gate-authorization-replayed", r.expect = "refused"
  PROVE  \E f, e : LandsFirst(l, x, Place(l, <<>>, k), r, f, e)
<1>1. PICK c : c = Place(l, <<>>, k)
  OBVIOUS
<1>2. /\ GatedAction \in Range(manifest) /\ GatedAction.class = "consequential"
      /\ PolicyClass(GatedAction.action) = "consequential"
      /\ None # Approval
      /\ ~(Weight(GatedAction.class) < Weight(PolicyClass(GatedAction.action)))
  BY PolicyIs, Weights DEF Approval
<1>3. PICK f : f = OnTarget(c, r, "approved", Approval)
  OBVIOUS
<1>4. PICK d : d = Commit(c, f)
  OBVIOUS
<1>5. PICK e : e = OnTarget(d, r, "approved", Approval)
  OBVIOUS
<1>6. Attempt(c, r) = <<f, e>>
  BY <1>3, <1>4, <1>5 DEF Attempt
<1>7. /\ f.id = c.made + 1 /\ f.seq = c.seq /\ f.prev = c.prev /\ f.kind = "effect"
      /\ f.action = GatedAction.action /\ f.class = GatedAction.class
      /\ f.outcome = "applied" /\ f.target = "approved" /\ f.auth = Approval /\ f.mandate = "run"
  BY <1>3, OnTargetHas
<1>8. /\ e.id = d.made + 1 /\ e.seq = d.seq /\ e.kind = "effect"
      /\ e.action = GatedAction.action /\ e.class = GatedAction.class
      /\ e.target = "approved" /\ e.auth = Approval /\ e.mandate = "run"
  BY <1>5, OnTargetHas
<1>9. Approval = <<GatedAction.action, "approved">>
  BY DEF Approval
<1>10. Sound(x, f)
  BY <1>2, <1>7, <1>9 DEF Sound
<1>11. /\ Lands(l, x, <<f>>) /\ d = Place(l, <<f>>, k + 1) /\ k + 1 \in Nat
  <2>1. f.seq = Place(l, <<>>, k).seq /\ f.prev = Place(l, <<>>, k).prev /\ f.id = k + 1
    BY <1>1, <1>7, PlaceFirst
  <2> QED
    BY <1>4, <1>10, <2>1, OneLands
<1>12. /\ d.seq = Len(l) + 1 /\ d.made = k + 1
  <2>1. Len(<<f>>) = 1
    OBVIOUS
  <2> QED
    BY <1>11, <2>1 DEF Place
<1>13. Refusable(r.case, e)
  BY <1>2, <1>8, <1>9 DEF Refusable
<1>14. Stands(Behind(c, r, <<f, e>>), l, <<f>>)
  <2>1. Behind(c, r, <<f, e>>) = Advanced(c, r, <<f, e>>)
    BY FrontsAre, NotNegative DEF Behind, NegativeCases
  <2>2. Advanced(c, r, <<f, e>>) = [d EXCEPT !.made = e.id]
    <3>1. Front(<<f, e>>) = <<f>> /\ Last(<<f, e>>) = e
      BY FrontsAre
    <3>2. CommitAll(c, <<f>>) = d
      BY <1>4, CommitOne
    <3> QED
      BY <3>1, <3>2 DEF Advanced
  <2>3. e.id = (k + 1) + 1 /\ (k + 1) + 1 \in Nat
    BY <1>8, <1>12
  <2>4. [d EXCEPT !.made = e.id] = Place(l, <<f>>, (k + 1) + 1)
    BY <1>11, <2>3 DEF Place
  <2> QED
    BY <2>1, <2>2, <2>3, <2>4 DEF Stands
<1>15. e.seq = Len(l) + 1 /\ Applied(f) /\ f.auth = e.auth
  BY <1>7, <1>8, <1>12 DEF Applied
<1> QED
  BY <1>1, <1>6, <1>11, <1>13, <1>14, <1>15 DEF LandsFirst

(* A recorded attempt lands. *)
LEMMA AttemptedLands ==
  ASSUME manifest \in Manifests, Faithful, NEW l, IsSeq(l), NEW x, NEW k \in Nat, NEW r,
         r.case = "prohibited-attempted", r.expect = "accepted"
  PROVE  \E e : LandsAll(l, x, Place(l, <<>>, k), r, <<e>>) /\ e.outcome = "attempted"
<1>1. PICK c : c = Place(l, <<>>, k)
  OBVIOUS
<1>2. PICK f : f = Signed(c, r, [action |-> "delete", class |-> "prohibited"])
  OBVIOUS
<1>3. /\ {"auth", "kind", "outcome", "at", "action", "class", "expires", "folds", "samples",
           "id", "seq", "prev", "target", "mandate"} = DOMAIN f
      /\ f.id = c.made + 1 /\ f.seq = c.seq /\ f.prev = c.prev /\ f.kind = "effect"
      /\ f.action = "delete" /\ f.class = "prohibited" /\ f.auth = None /\ f.mandate = "run"
  BY <1>2, SignedHas
<1>4. PICK e : e = [f EXCEPT !.outcome = "attempted"]
  OBVIOUS
<1>5. Attempt(c, r) = <<e>>
  BY <1>2, <1>4 DEF Attempt
<1>6. /\ e.id = c.made + 1 /\ e.seq = c.seq /\ e.prev = c.prev /\ e.kind = "effect"
      /\ e.action = "delete" /\ e.class = "prohibited" /\ e.auth = None /\ e.mandate = "run"
      /\ e.outcome = "attempted"
  BY <1>3, <1>4
<1>7. Sound(x, e)
  <2>1. Weight("prohibited") = 4 /\ Weight(PolicyClass("delete")) \in 1 .. 4
    BY PolicyIs, Weights
  <2>2. ~(Weight(e.class) < Weight(PolicyClass(e.action)))
    BY <1>6, <2>1
  <2> QED
    BY <1>6, <2>2 DEF Sound, Applied
<1>8. /\ Lands(l, x, <<e>>) /\ Commit(c, e) = Place(l, <<e>>, k + 1) /\ k + 1 \in Nat
  <2>1. e.seq = Place(l, <<>>, k).seq /\ e.prev = Place(l, <<>>, k).prev /\ e.id = k + 1
    BY <1>1, <1>6, PlaceFirst
  <2> QED
    BY <1>7, <2>1, OneLands
<1>9. Stands(Behind(c, r, <<e>>), l, <<e>>)
  <2>1. Behind(c, r, <<e>>) = Advanced(c, r, <<e>>)
    BY FrontsAre, NotNegative DEF Behind, NegativeCases
  <2>2. CommitAll(c, <<e>>) = Place(l, <<e>>, k + 1) /\ Last(<<e>>) = e /\ e.id = k + 1
    <3>1. c.made = k
      BY <1>1, PlaceFirst
    <3>2. CommitAll(c, <<e>>) = Commit(c, e) /\ Last(<<e>>) = e
      BY CommitOne, FrontsAre
    <3> QED
      BY <1>6, <1>8, <3>1, <3>2
  <2>3. Advanced(c, r, <<e>>) = [Place(l, <<e>>, k + 1) EXCEPT !.made = k + 1]
    BY <2>2 DEF Advanced
  <2>4. [Place(l, <<e>>, k + 1) EXCEPT !.made = k + 1] = Place(l, <<e>>, k + 1)
    BY DEF Place
  <2> QED
    BY <1>8, <2>1, <2>3, <2>4 DEF Stands
<1> QED
  <2>1. Submissions(c, r) = <<e>>
    BY <1>5, NegativesAre DEF Submissions, NegativeCases
  <2>2. OwnTarget(e) /\ IsSeq(<<e>>) /\ Range(<<e>>) = {e}
    BY <1>6, OneIsSeq DEF OwnTarget
  <2> QED
    BY <1>1, <1>6, <1>8, <1>9, <2>1, <2>2 DEF LandsAll

(* What the throwaway kernel says to it. *)

LEMMA VerdictSound ==
  ASSUME NEW e, e \notin Range(log), e.seq = Len(log), e.prev = Top(log), Sound(spent, e)
  PROVE  Verdict(e) = "accepted"
<1>1. e.kind # "cognition" /\ e.kind # "mandate" /\ e.mandate # "brief"
  BY DEF Sound
<1>2. /\ ~(Weight(e.class) < Weight(PolicyClass(e.action)))
      /\ ~(PolicyClass(e.action) = "consequential" /\ Applied(e) /\ e.auth = None)
      /\ ~(e.auth # None /\ e.auth # <<e.action, e.target>>)
      /\ ~(e.auth # None /\ e.auth \in spent)
  BY DEF Sound
<1>3. e.prev = HeadId
  BY DEF HeadId, Top
<1> QED
  BY <1>1, <1>2, <1>3 DEF Verdict

LEMMA VerdictRefused ==
  ASSUME NEW c, NEW e, e \notin Range(log), Refusable(c, e),
         c = "gate-authorization-replayed" => e.auth \in spent
  PROVE  Verdict(e) \in Refusals(c) /\ Verdict(e) # "accepted"
<1>1. CASE c = "mandate-root-not-human" /\ e.kind = "mandate"
  <2>1. Verdict(e) = "mandate-root-grantor-not-human"
    BY <1>1 DEF Verdict
  <2> QED
    BY <1>1, <2>1 DEF Refusals
<1>2. CASE c = "cognition-with-evidence" /\ e.kind = "cognition"
  <2>1. Verdict(e) = "cognition-envelope-has-effect-fields"
    BY <1>2 DEF Verdict
  <2> QED
    BY <1>2, <2>1 DEF Refusals
<1>3. CASE e.kind = "effect" /\ ~(Weight(e.class) < Weight(PolicyClass(e.action)))
  <2>0. e.kind # "cognition" /\ e.kind # "mandate"
    BY <1>3
  <2>1. CASE c = "mandate-expired" /\ e.mandate = "brief" /\ e.at = "late"
    <3>1. Verdict(e) = "mandate-expired"
      BY <1>3, <2>0, <2>1 DEF Verdict
    <3> QED
      BY <2>1, <3>1 DEF Refusals
  <2>2. CASE /\ c \in {"gate-authorization-missing", "administrative-path"}
             /\ PolicyClass(e.action) = "consequential" /\ Applied(e)
             /\ e.mandate = "run" /\ e.auth = None
    <3>1. Verdict(e) = "gate-authorization-missing"
      BY <1>3, <2>0, <2>2 DEF Verdict
    <3> QED
      BY <2>2, <3>1 DEF Refusals
  <2>3. CASE /\ c = "gate-authorization-action-mismatch"
             /\ e.mandate = "run" /\ e.auth \notin {None, <<e.action, e.target>>}
    <3>1. Verdict(e) = "gate-authorization-action-mismatch"
      BY <1>3, <2>0, <2>3 DEF Verdict
    <3> QED
      BY <2>3, <3>1 DEF Refusals
  <2>4. CASE /\ c = "gate-authorization-replayed"
             /\ e.mandate = "run" /\ e.auth = <<e.action, e.target>> /\ e.auth # None
    <3>1. Verdict(e) = "gate-authorization-replayed"
      BY <1>3, <2>0, <2>4 DEF Verdict
    <3> QED
      BY <2>4, <3>1 DEF Refusals
  <2> QED
    BY <1>1, <1>2, <2>1, <2>2, <2>3, <2>4 DEF Refusable
<1> QED
  BY <1>1, <1>2, <1>3 DEF Refusable

(* What it is to refuse it does not hold already. *)
LEMMA NotHeldYet ==
  ASSUME NEW e, IsSeq(log), Numbered(log), e.seq = Len(log)
  PROVE  e \notin Range(log)
<1>1. Len(log) \in Nat /\ DOMAIN log = 1 .. Len(log)
  BY SeqIs
<1> SUFFICES ASSUME NEW i \in 1 .. Len(log), e = log[i] PROVE FALSE
  BY <1>1 DEF Range
<1>2. log[i].seq = i - 1
  BY <1>1 DEF Numbered
<1> QED
  BY <1>1, <1>2

LEMMA NotHeldUngated ==
  ASSUME NEW e, Authorized, Refusable("administrative-path", e)
  PROVE  e \notin Range(log)
BY DEF Authorized, Refusable

LEMMA MissingIsRetried ==
  ASSUME NEW e, Refusable("gate-authorization-missing", e)
  PROVE  Refusable("administrative-path", e)
BY DEF Refusable

(* A table that names each of its transitions once, and not the one nobody is *)
(* to have, is passed.                                                        *)
LEMMA DistinctPasses ==
  ASSUME NEW t \in Tables, Distinct(t), \A i \in DOMAIN t : t[i].name # "no-such-transition"
  PROVE  CheckDurableObjects(t) # "failed"
<1>1. /\ \A x \in Range(t) : /\ x.from \in Seq(Range(x.from)) /\ None \notin Range(x.from)
                             /\ x.signers \in Seq(Range(x.signers)) \ {<<>>}
  BY ConformanceAssumption DEF ConformanceAssumption
<1>2. ASSUME NEW i \in DOMAIN t, NEW r, NEW s
      PROVE  CheckTransition(t, t[i].name, r, s) <=>
               /\ r \in Range(t[i].signers)
               /\ IF s = None THEN t[i].from = <<>> ELSE s \in Range(t[i].from)
  <2>1. \A j \in DOMAIN t : t[j].name = t[i].name => j = i
    BY DEF Distinct
  <2>2. t \in Seq(Range(t))
    BY ConformanceAssumption DEF ConformanceAssumption
  <2>3. \A j \in DOMAIN t : j < i => j # i
    BY <2>2
  <2> QED
    BY <2>1, <2>2, <2>3 DEF CheckTransition
<1>3. ASSUME NEW i \in DOMAIN t
      PROVE  CheckTransition(t, t[i].name, Head(t[i].signers), FirstFrom(t[i]))
  <2>1. PICK x \in Range(t) : x = t[i]
    BY DEF Range
  <2>2. IsSeq(x.from) /\ None \notin Range(x.from) /\ IsSeq(x.signers) /\ x.signers # <<>>
    BY <1>1 DEF IsSeq
  <2>3. Head(x.signers) \in Range(x.signers)
    BY <2>2, RestIsSeq
  <2>4. IF FirstFrom(x) = None THEN x.from = <<>> ELSE FirstFrom(x) \in Range(x.from)
    <3>1. x.from # <<>> => Head(x.from) \in Range(x.from)
      BY <2>2, RestIsSeq
    <3> QED
      BY <2>2, <3>1 DEF FirstFrom
  <2> QED
    BY <1>2, <2>1, <2>3, <2>4
<1>4. ~CheckTransition(t, "no-such-transition", "agent", None)
  BY DEF CheckTransition
<1>5. ASSUME NEW i \in DOMAIN t, t[i].signers = <<"human">>
      PROVE  ~CheckTransition(t, t[i].name, "agent", FirstFrom(t[i]))
  <2>1. "agent" \notin Range(t[i].signers)
    BY <1>5, OneIsSeq
  <2> QED
    BY <1>2, <2>1
<1> QED
  BY <1>3, <1>4, <1>5 DEF CheckDurableObjects

(* Along the script. *)

LEMMA StepInHand ==
  ASSUME ConformanceInv, todo # <<>>
  PROVE  /\ Now \in Range(todo) /\ Planned(Now)
         /\ Range(todo) = Range(Tail(todo)) \cup {Now}
         /\ \A s \in Range(Tail(todo)) : Follows(manifest, Now, s)
         /\ Now.case \notin {"hello", "vectors", "sample"} => ~Coming("sample")
         /\ Now.case \notin {"hello", "vectors", "sample", "coverage"} => ~Coming("coverage")
<1>1. IsSeq(todo) /\ InOrder(manifest, todo) /\ \A s \in Range(todo) : Planned(s)
  BY DEF ConformanceInv, Course, Ahead
<1>2. /\ Now \in Range(todo) /\ Range(todo) = Range(Tail(todo)) \cup {Now}
      /\ \A s \in Range(Tail(todo)) : Follows(manifest, Now, s)
  BY <1>1, RestIsSeq, TailInOrder DEF Now
<1> QED
  BY <1>1, <1>2 DEF Coming, Follows

(* What carries over to the next step.  A sample is gathered when its step is *)
(* passed, and nothing else is.                                               *)
Gathered ==
  IF Now.case = "sample"
  THEN \E g : /\ collected' = collected \o <<g>>
              /\ g.expires /\ g.action = Now.action.action
              /\ g.auth # None => Gates(Now) /\ g.auth = <<Now.action.action, "sample">>
  ELSE collected' = collected

(* What the step was taken for, when it is passed. *)
Done ==
  /\ Now.case \in NegativeCases \cup {"coverage"} => mode = "submitting" /\ subs = <<>>
  /\ Now.case = "coverage" => \E e \in Range(log) : e.expires
  /\ IF Now.case = "clock" THEN moved' ELSE UNCHANGED moved

LEMMA MovesOn ==
  ASSUME ConformanceInv, Faithful, OnCourse, todo # <<>>, todo' = Tail(todo), mode' = "next",
         UNCHANGED <<manifest, faults, kept, log, spent>>, Gathered, Done,
         IsSeq(collected'), Lands(log, spent, collected'), Stands(comp', log, collected'),
         \A e \in Range(collected') : OwnTarget(e), inbox' = <<>>, outbox' = <<>>
  PROVE  Lockstep' /\ Gathering' /\ Prepared' /\ Presented'
<1>1. /\ Now \in Range(todo) /\ Range(todo) = Range(todo') \cup {Now}
      /\ \A s \in Range(todo') : Follows(manifest, Now, s)
      /\ Now.case \notin {"hello", "vectors", "sample"} => ~Coming("sample")
      /\ Now.case \notin {"hello", "vectors", "sample", "coverage"} => ~Coming("coverage")
  BY StepInHand
<1>2. \A c : /\ Coming(c)' => Coming(c)
             /\ Coming(c) /\ Now.case # c => Coming(c)'
             /\ Due(c)' <=> Coming(c)'
             /\ ~Submitted(c)'
  BY <1>1 DEF Coming, Due, Submitted
<1>3. /\ ~(Now.case = "coverage" /\ Coming("coverage")')
      /\ ~(Now.case = "gate-authorization-replayed" /\ Coming("gate-authorization-replayed")')
  BY <1>1 DEF Coming, Follows, NegativeCases
<1>4. Lockstep'
  <2>1. Landing' = collected'
    BY DEF Landing
  <2>2. \A i \in DOMAIN log : log[i].seq = i - 1
    BY DEF OnCourse, Lockstep
  <2>3. Lands(log', spent', Landing') /\ Stands(comp', log', Landing')
    BY <2>1
  <2> QED
    BY <2>1, <2>2, <2>3 DEF Lockstep, Lands, Sound, Stands, Place, Top
<1>5. Gathering'
  <2>1. /\ collected # <<>> => Due("coverage") /\ mode # "submitting"
        /\ \A e \in Range(collected) : e.expires
        /\ Due("coverage") => \A a \in Range(manifest) :
             \/ StepOn("per-action-emission", "sample", a) \in Range(todo)
             \/ \E e \in Range(collected) : e.action = a.action
        /\ \A s \in Range(todo) : Gates(s) =>
             /\ <<s.action.action, "sample">> \notin spent
             /\ \A e \in Range(collected) : e.auth # <<s.action.action, "sample">>
    BY DEF OnCourse, Gathering
  <2>2. IsSeq(collected)
    BY DEF ConformanceInv, Exchanged, Holds, Held
  <2>3. CASE Now.case # "sample"
    <3>1. collected' = collected
      BY <2>3 DEF Gathered
    <3>2. collected' # <<>> => Due("coverage")'
      BY <1>2, <2>1, <3>1 DEF Due, Done
    <3>3. ASSUME Due("coverage")', NEW a \in Range(manifest)
          PROVE  \/ StepOn("per-action-emission", "sample", a) \in Range(todo')
                 \/ \E e \in Range(collected') : e.action = a.action
      <4>1. Due("coverage")
        BY <1>2, <1>3, <3>3 DEF Due, Submitted
      <4>2. StepOn("per-action-emission", "sample", a) # Now
        BY <2>3, StepIs
      <4> QED
        BY <1>1, <2>1, <3>1, <4>1, <4>2
    <3>4. \A s \in Range(todo') : Gates(s) =>
             /\ <<s.action.action, "sample">> \notin spent'
             /\ \A e \in Range(collected') : e.auth # <<s.action.action, "sample">>
      BY <1>1, <2>1, <3>1
    <3>5. mode' # "submitting" /\ \A e \in Range(collected') : e.expires
      BY <2>1, <3>1
    <3> QED
      BY <3>2, <3>3, <3>4, <3>5 DEF Gathering
  <2>4. CASE Now.case = "sample"
    <3>1. PICK g : /\ collected' = collected \o <<g>>
                   /\ g.expires /\ g.action = Now.action.action
                   /\ g.auth # None => Gates(Now) /\ g.auth = <<Now.action.action, "sample">>
      BY <2>4 DEF Gathered
    <3>2. Range(collected') = Range(collected) \cup {g}
      BY <2>2, <3>1, OneIsSeq, JoinIsSeq
    <3>3. Due("coverage") /\ Due("coverage")'
      <4>1. Coming("sample")
        BY <1>1, <2>4 DEF Coming
      <4>2. Coming("coverage")
        BY <4>1 DEF OnCourse, Prepared
      <4> QED
        BY <1>2, <2>4, <4>2 DEF Due, Submitted
    <3>4. ASSUME NEW a \in Range(manifest)
          PROVE  \/ StepOn("per-action-emission", "sample", a) \in Range(todo')
                 \/ \E e \in Range(collected') : e.action = a.action
      <4>1. CASE StepOn("per-action-emission", "sample", a) = Now
        <5>1. g.action = a.action
          BY <3>1, <4>1, StepIs
        <5> QED
          BY <3>2, <5>1
      <4>2. CASE StepOn("per-action-emission", "sample", a) # Now
        BY <1>1, <2>1, <3>2, <3>3, <4>2
      <4> QED
        BY <4>1, <4>2
    <3>5. ASSUME NEW s \in Range(todo'), Gates(s)
          PROVE  /\ <<s.action.action, "sample">> \notin spent'
                 /\ \A e \in Range(collected') : e.auth # <<s.action.action, "sample">>
      <4>1. g.auth # <<s.action.action, "sample">>
        <5>1. CASE g.auth = None
          <6>1. s.action \in Range(manifest)
            BY <1>1, <3>5 DEF OnCourse, Unfailed, Declared, Gates
          <6>2. None # <<s.action.action, "sample">>
            BY <6>1, PolicyIs DEF ConformanceInv, Exchanged
          <6> QED
            BY <5>1, <6>2
        <5>2. CASE g.auth # None
          <6>1. Now.action.action # s.action.action
            BY <1>1, <3>1, <3>5, <5>2 DEF Follows, Faithful
          <6> QED
            BY <3>1, <5>2, <6>1
        <5> QED
          BY <5>1, <5>2
      <4> QED
        BY <1>1, <2>1, <3>2, <3>5, <4>1
    <3>6. mode' # "submitting" /\ \A e \in Range(collected') : e.expires
      BY <2>1, <3>1, <3>2
    <3> QED
      BY <3>3, <3>4, <3>5, <3>6 DEF Gathering
  <2> QED
    BY <2>3, <2>4
<1>6. Prepared'
  <2>1. /\ Due("gate-authorization-replayed") => Approval \notin spent
        /\ kept = <<>> => Coming("gate-authorization-missing")
                          /\ (Submitted("gate-authorization-missing") => subs # <<>>)
        /\ kept # <<>> => \E e : kept = <<e>> /\ Refusable("administrative-path", e)
        /\ moved \/ Coming("clock")
        /\ \/ Coming("coverage")
           \/ ~Coming("sample") /\ \E e \in Range(log) : e.expires
    BY DEF OnCourse, Prepared
  <2>2. Due("gate-authorization-replayed")' => Approval' \notin spent'
    <3>1. Due("gate-authorization-replayed")' => Due("gate-authorization-replayed")
      BY <1>2, <1>3 DEF Due, Submitted
    <3>2. Approval' = Approval
      BY DEF Approval, GatedAction
    <3> QED
      BY <2>1, <3>1, <3>2
  <2>3. kept' = <<>> => Coming("gate-authorization-missing")'
    <3>1. kept = <<>> => Now.case # "gate-authorization-missing"
      BY <2>1 DEF Done, Submitted, NegativeCases
    <3> QED
      BY <1>2, <2>1, <3>1
  <2>4. kept' # <<>> => \E e : kept' = <<e>> /\ Refusable("administrative-path", e)'
    BY <2>1 DEF Refusable
  <2>5. moved' \/ Coming("clock")'
    BY <1>2, <2>1 DEF Done
  <2>6. \/ Coming("coverage")'
        \/ ~Coming("sample")' /\ \E e \in Range(log') : e.expires
    BY <1>1, <1>2, <2>1 DEF Done
  <2> QED
    BY <1>2, <2>2, <2>3, <2>4, <2>5, <2>6 DEF Prepared
<1>7. Presented'
  BY DEF Presented
<1> QED
  BY <1>4, <1>5, <1>6, <1>7

LEMMA PassesOn ==
  ASSUME ConformanceInv, Faithful, OnCourse, todo # <<>>, Pass,
         UNCHANGED <<manifest, objects, faults, kept, log, spent>>, Gathered, Done,
         IsSeq(collected'), Lands(log, spent, collected'), Stands(comp', log, collected'),
         \A e \in Range(collected') : OwnTarget(e), inbox' = <<>>, outbox' = <<>>
  PROVE  OnCourse'
<1>1. todo' = Tail(todo) /\ mode' = "next"
  BY DEF Pass
<1>2. Lockstep' /\ Gathering' /\ Prepared' /\ Presented'
  BY <1>1, MovesOn
<1>3. /\ Range(todo) = Range(todo') \cup {Now}
      /\ groups \in [Groups -> {"not-run", "passed", "failed", "not-applicable"}]
  BY <1>1, StepInHand DEF ConformanceInv, Course, Judged
<1>4. Unfailed
  BY DEF OnCourse
<1>5. ASSUME NEW g \in Groups
      PROVE  /\ groups'[g] = "not-run" => \E s \in Range(todo') : s.group = g
             /\ groups'[g] = "failed" => groups[g] = "failed"
  <2>1. CASE UNCHANGED groups /\ (Now.group = None \/ \E s \in Range(todo') : s.group = Now.group)
    <3>1. g # None
      BY NoneIsNoGroup
    <3> QED
      BY <1>3, <1>4, <2>1, <3>1 DEF Unfailed
  <2>2. CASE groups' = [groups EXCEPT ![Now.group] = "passed"]
    <3>1. g = Now.group => groups'[g] = "passed"
      BY <1>3, <2>2
    <3>2. g # Now.group => groups'[g] = groups[g]
      BY <1>3, <2>2
    <3> QED
      BY <1>3, <1>4, <3>1, <3>2 DEF Unfailed
  <2> QED
    BY <1>1, <2>1, <2>2 DEF Pass, Record
<1>6. Unfailed'
  <2>1. \A s \in Range(todo') : Declared(manifest, s)
    BY <1>3, <1>4 DEF Unfailed
  <2>2. \A s \in Range(todo') : Declared(manifest', s)
    BY <2>1
  <2> QED
    BY <1>4, <1>5, <2>2 DEF Unfailed
<1> QED
  BY <1>2, <1>6 DEF OnCourse

LEMMA SubmitsOn ==
  ASSUME ConformanceInv, Faithful, OnCourse, todo # <<>>, mode # "submitting",
         NEW s, Submitting(s), Now.case \notin {"hello", "vectors", "sample"},
         UNCHANGED <<manifest, objects, faults, kept, log, spent, moved>>, collected' = <<>>,
         Lands(log, spent, Landing'), Stands(comp', log, Landing'),
         Now.case = "gate-authorization-replayed" \/ \A e \in Range(Landing') : OwnTarget(e),
         Now.case = "gate-authorization-missing" => s # <<>>,
         inbox' = <<>>, outbox' = <<>>, Presented'
  PROVE  OnCourse'
<1>1. /\ mode' = "submitting" /\ subs' = s /\ sent' = <<>> /\ Now' = Now
      /\ UNCHANGED <<todo, groups>>
  BY DEF Submitting, Now
<1>2. \A c : /\ Coming(c)' <=> Coming(c)
             /\ Submitted(c)' <=> Now.case = c
             /\ ~Submitted(c)
             /\ Due(c) <=> Coming(c)
  BY <1>1 DEF Coming, Due, Submitted
<1>3. /\ Now.case # "coverage" => ~Coming("coverage")
      /\ ~Coming("sample")
  BY StepInHand
<1>4. Lockstep'
  <2>1. \A i \in DOMAIN log : log[i].seq = i - 1
    BY DEF OnCourse, Lockstep
  <2>2. Lands(log', spent', Landing') /\ Stands(comp', log', Landing')
    OBVIOUS
  <2>3. Submitted("gate-authorization-replayed")' \/ \A e \in Range(Landing') : OwnTarget(e)
    BY <1>2
  <2> QED
    BY <1>1, <2>1, <2>2, <2>3 DEF Lockstep, Lands, Sound, Stands, Place, Top, OwnTarget
<1>5. Gathering'
  <2>1. Range(collected') = {}
    BY NoneIsSeq
  <2>2. ~Due("coverage")'
    BY <1>2, <1>3 DEF Due
  <2>3. \A t \in Range(todo') : ~Gates(t)
    BY <1>1, <1>3 DEF Gates, Coming
  <2> QED
    BY <2>1, <2>2, <2>3 DEF Gathering
<1>6. Prepared'
  <2>1. Prepared
    BY DEF OnCourse
  <2>2. Approval' = Approval /\ (Due("gate-authorization-replayed")' => Due("gate-authorization-replayed"))
    BY <1>2 DEF Approval, GatedAction, Due
  <2>3. kept' # <<>> => \E e : kept' = <<e>> /\ Refusable("administrative-path", e)'
    BY <2>1 DEF Prepared, Refusable
  <2>4. kept' = <<>> => Coming("gate-authorization-missing")'
                        /\ (Submitted("gate-authorization-missing")' => subs' # <<>>)
    BY <1>1, <1>2, <2>1 DEF Prepared
  <2> QED
    BY <1>2, <2>1, <2>2, <2>3, <2>4 DEF Prepared
<1>7. Unfailed'
  BY <1>1 DEF OnCourse, Unfailed
<1> QED
  BY <1>4, <1>5, <1>6, <1>7 DEF OnCourse

(* Nothing but the run's end, or who has said what to whom, is otherwise. *)
LEMMA StaysOn ==
  ASSUME OnCourse,
         UNCHANGED <<manifest, todo, collected, subs, sent, kept, groups, objects, faults,
                     log, spent, moved>>,
         mode' = mode \/ (mode # "submitting" /\ mode' # "submitting"), Lockstep'
  PROVE  OnCourse'
<1>1. \A c : /\ Coming(c)' <=> Coming(c)
             /\ Submitted(c)' <=> Submitted(c)
             /\ Due(c)' <=> Due(c)
  BY DEF Coming, Due, Submitted, Now
<1>2. Gathering'
  BY <1>1 DEF OnCourse, Gathering
<1>3. Prepared'
  BY <1>1 DEF OnCourse, Prepared, Approval, GatedAction, Refusable
<1>4. Presented'
  BY DEF OnCourse, Presented, Now, HeadId, Refusable
<1>5. Unfailed'
  BY DEF OnCourse, Unfailed
<1> QED
  BY <1>2, <1>3, <1>4, <1>5 DEF OnCourse

LEMMA AskOn ==
  ASSUME ConformanceInv, OnCourse, Ask
  PROVE  OnCourse'
<1>1. /\ mode = "next" /\ mode' = "asking" /\ Request' = Request
      /\ UNCHANGED <<manifest, todo, collected, subs, sent, kept, groups, objects, faults,
                     log, spent, moved, comp, outbox>>
  BY DEF Ask, InHand, kernelVars, Request, Now
<1>2. Lockstep
  BY DEF OnCourse
<1>3. inbox' = <<Request>> /\ outbox' = <<>>
  <2>1. inbox = <<>> /\ outbox = <<>>
    BY <1>1, <1>2 DEF Lockstep
  <2> QED
    BY <1>1, <2>1 DEF Ask
<1>4. Landing' = Landing /\ Landing = collected
  BY <1>1 DEF Landing
<1>5. Lockstep'
  <2>1. /\ \A i \in DOMAIN log : log[i].seq = i - 1
        /\ Lands(log, spent, Landing) /\ Stands(comp, log, collected)
        /\ \A e \in Range(Landing) : OwnTarget(e)
    BY <1>1, <1>2, <1>4 DEF Lockstep, Submitted
  <2>2. Lands(log', spent', Landing') /\ Stands(comp', log', collected')
    BY <1>1, <1>4, <2>1
  <2>3. inbox' = <<Request'>>
    BY <1>1, <1>3
  <2> QED
    BY <1>1, <1>3, <1>4, <2>1, <2>2, <2>3 DEF Lockstep, Lands, Sound, Stands, Place, Top, OwnTarget
<1> QED
  BY <1>1, <1>5, StaysOn

LEMMA AnswerOn ==
  ASSUME ConformanceInv, OnCourse, Answer
  PROVE  OnCourse'
<1>1. /\ Request' = Request /\ inbox # <<>>
      /\ UNCHANGED <<manifest, mode, todo, collected, subs, sent, kept, groups, objects, faults,
                     log, spent, moved>>
  BY DEF Answer, runVars, kernelVars, Request, Now
<1>2. Lockstep
  BY DEF OnCourse
<1>3. mode = "asking" /\ inbox = <<Request>> /\ outbox = <<>> /\ Stands(comp, log, collected)
  BY <1>1, <1>2 DEF Lockstep
<1>4. PICK k \in Nat : comp = Place(log, collected, k)
  BY <1>3 DEF Stands
<1>5. PICK r, s : r = Request /\ s = Submissions(comp, r)
  OBVIOUS
<1>6. inbox' = <<>> /\ comp' = Behind(comp, r, s) /\ outbox' = <<Answered(r, s)>>
  <2>1. Head(inbox) = r /\ Tail(inbox) = <<>>
    BY <1>3, <1>5
  <2> QED
    BY <1>3, <1>5, <2>1 DEF Answer
<1>7. Landing' = Landing /\ Landing = collected
  BY <1>1, <1>3 DEF Landing
<1>8. Lockstep'
  <2>1. /\ \A i \in DOMAIN log : log[i].seq = i - 1
        /\ Lands(log, spent, Landing)
        /\ \A e \in Range(Landing) : OwnTarget(e)
    BY <1>2, <1>3 DEF Lockstep, Submitted
  <2>2. Lands(log', spent', Landing')
    BY <1>1, <1>7, <2>1
  <2>3. PICK c : c = Place(log, collected, k) /\ c = Place(log', collected', k)
    BY <1>1
  <2>4. s = Submissions(c, Request)'
    <3>1. s = Submissions(c, r)
      BY <1>4, <1>5, <2>3
    <3>2. Submissions(c, Request)' = Submissions(c, r)
      BY <1>1, <1>5 DEF Submissions, Sample, Aggregate, Queue, Attempt, OnTarget, GatedAction,
                  ReadAction, Approval
    <3> QED
      BY <3>1, <3>2
  <2>5. outbox' = <<Answered(Request', s)>> /\ comp' = Behind(c, Request', s)
    BY <1>1, <1>4, <1>5, <1>6, <2>3
  <2> QED
    <3>1. HasAnswered(c)'
      BY <2>4, <2>5 DEF HasAnswered
    <3>2. HasAnswered(Place(log, collected, k))'
      BY <2>3, <3>1
    <3>3. mode' = "asking" /\ inbox' = <<>> /\ \E j \in Nat : HasAnswered(Place(log, collected, j))'
      BY <1>1, <1>3, <1>6, <3>2
    <3>4. /\ \A i \in DOMAIN log' : log'[i].seq = i - 1
          /\ \A e \in Range(Landing') : OwnTarget(e)
      BY <1>1, <1>7, <2>1
    <3> QED
      BY <2>2, <3>3, <3>4 DEF Lockstep
<1> QED
  BY <1>1, <1>8, StaysOn

(* What is read is what the request asked for. *)

LEMMA RequestIs ==
  /\ Request.case = Now.case /\ Request.action = Now.action
  /\ Request.at = IF moved THEN "late" ELSE "early"
  /\ Request.expect = Expect(Now.case)
<1> DEFINE t == IF moved THEN "late" ELSE "early"
<1>1. Request = [group |-> Now.group, case |-> Now.case, action |-> Now.action,
                 at |-> t, expect |-> Expect(Now.case)]
  BY DEF Request
<1> HIDE DEF t
<1>2. /\ Request.case = Now.case /\ Request.action = Now.action /\ Request.at = t
      /\ Request.expect = Expect(Now.case)
  BY <1>1
<1> QED
  BY <1>2 DEF t

LEMMA NothingGathered ==
  ASSUME ConformanceInv, OnCourse, todo # <<>>,
         Now.case \notin {"hello", "vectors", "sample", "coverage"}
  PROVE  collected = <<>>
<1>1. ~Coming("coverage")
  BY StepInHand
<1> QED
  BY <1>1 DEF OnCourse, Gathering, Due

LEMMA AtHand ==
  ASSUME ConformanceInv, OnCourse, Taken
  PROVE  /\ mode = "asking" /\ todo # <<>> /\ Asked(Now)
         /\ inbox' = <<>> /\ outbox' = <<>>
         /\ \E k, p, r, s :
              /\ k \in Nat /\ p = Place(log, collected, k) /\ r = Request /\ s = Submissions(p, r)
              /\ comp' = Behind(p, r, s) /\ Head(outbox) = Answered(r, s)
<1>1. mode = "asking" /\ todo # <<>> /\ Asked(Now)
  BY TakenIs
<1>2. inbox = <<>> /\ \E k \in Nat : HasAnswered(Place(log, collected, k))
  <2>1. outbox # <<>>
    BY DEF Taken
  <2> QED
    BY <1>1, <2>1 DEF OnCourse, Lockstep
<1>3. PICK k, p, r, s :
        /\ k \in Nat /\ p = Place(log, collected, k) /\ r = Request /\ s = Submissions(p, r)
        /\ outbox = <<Answered(r, s)>> /\ comp = Behind(p, r, s)
  <2>1. PICK k \in Nat : HasAnswered(Place(log, collected, k))
    BY <1>2
  <2> QED
    BY <2>1 DEF HasAnswered
<1>4. Head(outbox) = Answered(r, s) /\ Tail(outbox) = <<>>
  BY <1>3
<1> QED
  BY <1>1, <1>2, <1>3, <1>4 DEF Taken

LEMMA HonestUsable ==
  ASSUME ConformanceInv, Faithful, OnCourse, Taken
  PROVE  Usable(Head(outbox))
<1>1. PICK k, p, r, s :
        /\ k \in Nat /\ p = Place(log, collected, k) /\ r = Request /\ s = Submissions(p, r)
        /\ Head(outbox) = Answered(r, s) /\ todo # <<>> /\ Asked(Now)
  BY AtHand
<1>2. PICK a : a = Head(outbox)
  OBVIOUS
<1>3. a.to = r /\ a.ok /\ ~a.error /\ a.subs = s /\ r.case = Now.case
  BY <1>1, <1>2, RequestIs DEF Answered
<1>4. IsSeq(log) /\ manifest \in Manifests
  BY DEF ConformanceInv, Exchanged, Holds, Held
<1>5. Now.case \in {"emit"} \cup Range(Negatives) => s # <<>>
  <2>1. Asked(r) /\ IsSeq(Reads(manifest))
    BY <1>1, <1>3, <1>4, ManifestIs DEF Asked
  <2> QED
    BY <1>1, <1>3, <2>1, NegativesAre, SubmissionsAnswer
<1>6. ASSUME Now.case = "offline" PROVE QueueHolds(s)
  <2>1. collected = <<>>
    BY <1>1, <1>6, NothingGathered
  <2>2. PICK q : LandsAll(log, spent, Place(log, <<>>, k), r, q) /\ Queues(log, q)
    BY <1>1, <1>3, <1>4, <1>6, QueueLands
  <2>3. q = s
    BY <1>1, <2>1, <2>2 DEF LandsAll
  <2> QED
    BY <2>2, <2>3 DEF QueueHolds, Queues
<1> QED
  BY <1>2, <1>3, <1>5, <1>6 DEF Usable

LEMMA ReadUnusableOn ==
  ASSUME ConformanceInv, Faithful, OnCourse, ReadUnusable
  PROVE  FALSE
BY HonestUsable DEF ReadUnusable

LEMMA ReadOn ==
  ASSUME ConformanceInv, Faithful, OnCourse, ReadUsable,
         Now.case \in {"hello", "vectors", "sample"}
  PROVE  OnCourse'
<1>1. PICK k, p, r, s :
        /\ k \in Nat /\ p = Place(log, collected, k) /\ r = Request /\ s = Submissions(p, r)
        /\ comp' = Behind(p, r, s) /\ Head(outbox) = Answered(r, s)
        /\ mode = "asking" /\ todo # <<>> /\ inbox' = <<>> /\ outbox' = <<>>
  BY AtHand DEF ReadUsable
<1>2. /\ UNCHANGED <<manifest, objects, faults, kept, log, spent, moved>> /\ Pass
      /\ Now.case \in {"hello", "vectors"} => UNCHANGED collected
      /\ Now.case = "sample" => collected' = collected \o s
  <2>1. Head(outbox).subs = s
    BY <1>1 DEF Answered
  <2> QED
    BY <2>1 DEF ReadUsable, Taken, kernelVars
<1>3. r.case = Now.case /\ r.action = Now.action
  BY <1>1, RequestIs
<1>4. IsSeq(log) /\ IsSeq(collected) /\ manifest \in Manifests
  BY DEF ConformanceInv, Exchanged, Holds, Held
<1>5. Lands(log, spent, collected) /\ \A e \in Range(collected) : OwnTarget(e)
  BY <1>1 DEF OnCourse, Lockstep, Landing, Submitted
<1>6. Done
  <2>1. Now.case \notin NegativeCases \cup {"coverage", "clock"}
    BY DEF NegativeCases
  <2> QED
    BY <1>2, <2>1 DEF Done
<1>7. CASE Now.case \in {"hello", "vectors"}
  <2>1. s = <<>>
    BY <1>1, <1>3, <1>7, NegativesAre DEF Submissions, NegativeCases
  <2>2. comp' = p
    BY <1>1, <2>1 DEF Behind
  <2>3. Stands(comp', log, collected')
    BY <1>1, <1>2, <1>7, <2>2 DEF Stands
  <2>4. Gathered
    BY <1>2, <1>7 DEF Gathered
  <2> QED
    BY <1>1, <1>2, <1>4, <1>5, <1>6, <1>7, <2>3, <2>4, PassesOn
<1>8. CASE Now.case = "sample"
  <2>1. Now \in Range(todo)
    BY <1>1, StepInHand
  <2>2. Now.action \in Range(manifest)
    BY <1>8, <2>1 DEF OnCourse, Unfailed, Declared
  <2>3. Now.action.class = "consequential" =>
           /\ <<Now.action.action, "sample">> \notin spent
           /\ \A e \in Range(collected) : e.auth # <<Now.action.action, "sample">>
    BY <1>8, <2>1 DEF OnCourse, Gathering, Gates
  <2>4. PICK g :
          /\ s = <<g>>
          /\ IsSeq(collected \o <<g>>) /\ Lands(log, spent, collected \o <<g>>)
          /\ Stands(Behind(p, r, <<g>>), log, collected \o <<g>>)
          /\ g.expires /\ g.action = Now.action.action /\ OwnTarget(g)
          /\ g.auth # None => /\ Now.action.class = "consequential"
                              /\ g.auth = <<Now.action.action, "sample">>
    <3>1. k \in Nat /\ r.case = "sample" /\ r.action = Now.action
      BY <1>1, <1>3, <1>8
    <3>2. PICK g : LandsNext(log, spent, collected, Place(log, collected, k), r, g)
      BY <1>4, <1>5, <2>2, <2>3, <3>1, SampleLands
    <3> QED
      BY <1>1, <3>1, <3>2 DEF LandsNext
  <2>5. collected' = collected \o <<g>>
    BY <1>2, <1>8, <2>4
  <2>6. Gathered
    BY <1>8, <2>4, <2>5 DEF Gathered, Gates
  <2>7. \A e \in Range(collected') : OwnTarget(e)
    BY <1>4, <1>5, <2>4, <2>5, OneIsSeq, JoinIsSeq
  <2>8. IsSeq(collected') /\ Lands(log, spent, collected') /\ Stands(comp', log, collected')
    BY <1>1, <2>4, <2>5
  <2> QED
    BY <1>1, <1>2, <1>6, <2>6, <2>7, <2>8, PassesOn
<1> QED
  BY <1>7, <1>8

(* What is read to be submitted. *)
LEMMA TakeOn ==
  ASSUME ConformanceInv, Faithful, OnCourse, ReadUsable,
         Now.case \notin {"hello", "vectors", "sample"}
  PROVE  OnCourse'
<1>1. PICK k, p, r, s :
        /\ k \in Nat /\ p = Place(log, collected, k) /\ r = Request /\ s = Submissions(p, r)
        /\ comp' = Behind(p, r, s) /\ Head(outbox) = Answered(r, s)
        /\ mode = "asking" /\ todo # <<>> /\ Asked(Now) /\ inbox' = <<>> /\ outbox' = <<>>
  BY AtHand DEF ReadUsable
<1>2. /\ UNCHANGED <<manifest, objects, faults, kept, log, spent, moved, collected>>
      /\ Submitting(s)
  <2>1. Head(outbox).subs = s
    BY <1>1 DEF Answered
  <2> QED
    BY <2>1 DEF ReadUsable, Taken, kernelVars
<1>3. /\ r.case = Now.case /\ r.action = Now.action /\ r.expect = Expect(Now.case)
      /\ r.at = IF moved THEN "late" ELSE "early"
  BY <1>1, RequestIs
<1>4. /\ Now.case \in {"emit", "offline"} \cup NegativeCases
      /\ Now.case # "coverage"
  BY <1>1, NegativesAre DEF Asked, NegativeCases
<1>5. IsSeq(log) /\ manifest \in Manifests
  BY DEF ConformanceInv, Exchanged, Holds, Held
<1>6. collected = <<>> /\ collected' = <<>>
  BY <1>1, <1>2, <1>4, NothingGathered
<1>7. p = Place(log, <<>>, k)
  BY <1>1, <1>6
<1>8. /\ mode' = "submitting" /\ subs' = s /\ sent' = <<>> /\ Now' = Now
  BY <1>2 DEF Submitting, Now
<1>9. /\ Now \in Range(todo) /\ Declared(manifest, Now)
  BY <1>1, StepInHand DEF OnCourse, Unfailed
(* Taken on, if what is to land lands and what is in hand is presentable. *)
<1>10. ASSUME NEW t, Landing' = t, Lands(log, spent, t), Stands(Behind(p, r, s), log, t),
              Now.case = "gate-authorization-replayed" \/ \A e \in Range(t) : OwnTarget(e),
              Now.case = "gate-authorization-missing" => s # <<>>, Presented'
       PROVE  OnCourse'
  BY <1>1, <1>2, <1>6, <1>10, SubmitsOn
<1>11. ~Refused(Now.case) => Landing' = s
  BY <1>8 DEF Landing
<1>12. CASE Now.case = "emit"
  <2>1. r.action \in Range(Reads(manifest)) /\ r.case = "emit" /\ k \in Nat
    BY <1>1, <1>3, <1>9, <1>12 DEF Declared
  <2>2. PICK g : /\ LandsAll(log, spent, p, r, <<g>>)
                 /\ g.kind = "aggregate" /\ g.folds = Calls(Now.action) /\ g.samples = 1
    <3>1. FoldLands(log, spent, p, r)
      <4>1. FoldLands(log, spent, Place(log, <<>>, k), r)
        BY <1>5, <2>1, AggregateLands
      <4> QED
        BY <1>7, <4>1
    <3> QED
      BY <1>3, <3>1 DEF FoldLands
  <2>3. s = <<g>>
    BY <1>1, <2>2 DEF LandsAll
  <2>4. ~Refused(Now.case)
    BY <1>12 DEF Refused, NegativeCases
  <2>5. Presented'
    <3>1. <<subs', sent'>> = <<<<g>>, <<>>>>
      BY <1>8, <2>3
    <3> QED
      BY <1>8, <1>12, <2>2, <2>4, <3>1 DEF Presented
  <2> QED
    BY <1>10, <1>11, <1>12, <2>2, <2>3, <2>4, <2>5 DEF LandsAll
<1>13. CASE Now.case = "offline"
  <2>1. PICK q : LandsAll(log, spent, p, r, q) /\ Queues(log, q)
    BY <1>1, <1>3, <1>5, <1>7, <1>13, QueueLands
  <2>2. s = q
    BY <1>1, <2>1 DEF LandsAll
  <2>3. ~Refused(Now.case)
    BY <1>13 DEF Refused, NegativeCases
  <2>4. Presented'
    BY <1>8, <1>13, <2>1, <2>2, <2>3 DEF Presented, Queues
  <2> QED
    BY <1>10, <1>11, <1>13, <2>1, <2>2, <2>3, <2>4 DEF LandsAll
<1>14. CASE Now.case = "prohibited-attempted"
  <2>1. r.expect = "accepted"
    BY <1>3, <1>14 DEF Expect
  <2>2. PICK e : LandsAll(log, spent, p, r, <<e>>) /\ e.outcome = "attempted"
    BY <1>1, <1>3, <1>5, <1>7, <1>14, <2>1, AttemptedLands
  <2>3. s = <<e>> /\ Range(s) = {e}
    BY <1>1, <2>2, OneIsSeq DEF LandsAll
  <2>4. ~Refused(Now.case)
    BY <1>14 DEF Refused
  <2>5. Presented'
    BY <1>4, <1>8, <1>14, <2>2, <2>3, <2>4 DEF Presented
  <2> QED
    BY <1>10, <1>11, <1>14, <2>2, <2>3, <2>4, <2>5 DEF LandsAll
<1>15. CASE Now.case = "gate-authorization-replayed"
  <2>1. r.expect = "refused"
    BY <1>3, <1>15 DEF Expect
  <2>2. Approval \notin spent
    <3>1. Due("gate-authorization-replayed")
      BY <1>1, <1>9, <1>15 DEF Due, Coming, Submitted
    <3> QED
      BY <3>1 DEF OnCourse, Prepared
  <2>3. PICK f, e : LandsFirst(log, spent, p, r, f, e)
    BY <1>1, <1>3, <1>5, <1>7, <1>15, <2>1, <2>2, ReplayIsRefused
  <2>4. s = <<f, e>>
    BY <1>1, <1>3, <1>15, <2>3, NegativesAre DEF LandsFirst, Submissions, NegativeCases
  <2>5. Refused(Now.case)
    BY <1>4, <1>15 DEF Refused
  <2>6. Landing' = <<f>>
    <3>1. Len(s) = 2 /\ s[1] = f
      BY <2>4
    <3> QED
      BY <1>8, <2>5, <3>1 DEF Landing
  <2>7. Presented'
    <3>1. /\ subs' = <<f, e>> /\ Refusable(Now.case, e)' /\ e.seq = Len(log') + 1
          /\ Applied(f) /\ f.auth = e.auth
      <4>1. /\ Refusable(Now.case, e) /\ e.seq = Len(log) + 1 /\ Applied(f) /\ f.auth = e.auth
        BY <1>3, <2>3 DEF LandsFirst
      <4> QED
        BY <1>2, <1>8, <2>4, <4>1 DEF Refusable
    <3>2. Now.case \notin {"coverage", "emit", "offline", "prohibited-attempted"}
      BY <1>15
    <3> QED
      BY <1>4, <1>8, <1>15, <3>1, <3>2 DEF Presented
  <2>8. s # <<>>
    BY <2>4
  <2> QED
    BY <1>10, <1>15, <2>3, <2>4, <2>6, <2>7, <2>8 DEF LandsFirst
<1>16. CASE Now.case \in NegativeCases \ {"prohibited-attempted", "gate-authorization-replayed"}
  <2>1. r.expect = "refused"
    BY <1>3, <1>16 DEF Expect
  <2>2. r.case = "mandate-expired" => r.at = "late"
    <3>1. ~Coming("clock")
      <4>1. Now.case \in NegativeCases /\ Now.case # "clock"
        BY <1>16 DEF NegativeCases
      <4> QED
        BY <1>1, <4>1, StepInHand DEF Coming, Follows
    <3>2. moved
      BY <3>1 DEF OnCourse, Prepared
    <3> QED
      BY <1>3, <3>2
  <2>3. OneRefused(log, r, Attempt(p, r), p)
    <3>1. r.case \in {"mandate-expired", "mandate-root-not-human", "cognition-with-evidence"}
          \/ r.case \in {"gate-authorization-missing", "gate-authorization-action-mismatch"}
      BY <1>3, <1>16 DEF NegativeCases
    <3> QED
      BY <1>1, <1>5, <1>7, <2>1, <2>2, <3>1, ReadsAreRefused, UngatedIsRefused
  <2>4. s = Attempt(p, r)
    BY <1>1, <1>3, <1>16, NegativesAre DEF Submissions, NegativeCases
  <2>5. PICK e : /\ s = <<e>> /\ e.seq = Len(log) /\ Refusable(Now.case, e)
                 /\ Stands(Behind(p, r, s), log, <<>>)
    BY <1>3, <2>3, <2>4 DEF OneRefused
  <2>6. Refused(Now.case)
    BY <1>16 DEF Refused
  <2>7. Landing' = <<>>
    <3>1. Len(s) # 2
      BY <2>5
    <3> QED
      BY <1>8, <2>6, <3>1 DEF Landing
  <2>8. Presented'
    <3>1. subs' = <<e>> /\ Refusable(Now.case, e)' /\ e.seq = Len(log')
      BY <1>2, <1>8, <2>5 DEF Refusable
    <3>2. Now.case \notin {"coverage", "emit", "offline", "prohibited-attempted",
                           "gate-authorization-replayed"}
      BY <1>16 DEF NegativeCases
    <3> QED
      BY <1>4, <1>8, <3>1, <3>2 DEF Presented
  <2>9. s # <<>> /\ Range(<<>>) = {}
    BY <2>5, NoneIsSeq
  <2> QED
    BY <1>10, <2>5, <2>7, <2>8, <2>9, NoneLands
<1> QED
  BY <1>4, <1>12, <1>13, <1>14, <1>15, <1>16
(* The harness goes on to the next step, or to submit what it has. *)

LEMMA AtRest ==
  ASSUME ConformanceInv, OnCourse, InHand("next")
  PROVE  /\ mode = "next" /\ inbox = <<>> /\ outbox = <<>>
         /\ IsSeq(collected) /\ Lands(log, spent, collected) /\ Stands(comp, log, collected)
         /\ \A e \in Range(collected) : OwnTarget(e)
<1>1. mode = "next" /\ Landing = collected
  BY DEF InHand, Landing
<1>2. IsSeq(collected)
  BY DEF ConformanceInv, Exchanged, Holds, Held
<1> QED
  BY <1>1, <1>2 DEF OnCourse, Lockstep, Submitted

LEMMA CloseAggregationOn ==
  ASSUME ConformanceInv, Faithful, OnCourse, CloseAggregation
  PROVE  OnCourse'
<1>1. /\ InHand("next") /\ todo # <<>> /\ Now.case = "folded" /\ Pass
      /\ UNCHANGED <<manifest, objects, collected, kept, log, spent, moved, comp, inbox, outbox, faults>>
  BY DEF CloseAggregation, kernelVars, pipeVars
<1>2. Gathered /\ Done
  BY <1>1 DEF Gathered, Done, NegativeCases
<1> QED
  BY <1>1, <1>2, AtRest, PassesOn

LEMMA MoveClockOn ==
  ASSUME ConformanceInv, Faithful, OnCourse, MoveClock
  PROVE  OnCourse'
<1>1. /\ InHand("next") /\ todo # <<>> /\ Now.case = "clock" /\ Pass /\ moved' = TRUE
      /\ UNCHANGED <<manifest, objects, collected, kept, log, spent, comp, inbox, outbox, faults>>
  BY DEF MoveClock, pipeVars
<1>2. Gathered /\ Done
  BY <1>1 DEF Gathered, Done, NegativeCases
<1> QED
  BY <1>1, <1>2, AtRest, PassesOn

LEMMA DecayOn ==
  ASSUME ConformanceInv, Faithful, OnCourse, Decay
  PROVE  OnCourse'
<1>1. /\ InHand("next") /\ todo # <<>> /\ Now.case = "decay"
      /\ Demonstrated => Pass
      /\ UNCHANGED <<manifest, objects, collected, kept, log, spent, moved, comp, inbox, outbox, faults>>
  BY DEF Decay, kernelVars, pipeVars
<1>2. ~Coming("clock") /\ ~Coming("coverage")
  BY <1>1, StepInHand DEF Coming, Follows
<1>3. Demonstrated
  BY <1>2 DEF Demonstrated, OnCourse, Prepared
<1>4. Gathered /\ Done
  BY <1>1 DEF Gathered, Done, NegativeCases
<1> QED
  BY <1>1, <1>3, <1>4, AtRest, PassesOn

LEMMA SubmitSamplesOn ==
  ASSUME ConformanceInv, Faithful, OnCourse, SubmitSamples
  PROVE  OnCourse'
<1>1. /\ InHand("next") /\ todo # <<>> /\ Now.case = "coverage"
      /\ Submitting(collected) /\ collected' = <<>>
      /\ UNCHANGED <<manifest, objects, kept, log, spent, moved, comp, inbox, outbox, faults>>
  BY DEF SubmitSamples, kernelVars, pipeVars
<1>2. /\ mode' = "submitting" /\ subs' = collected /\ sent' = <<>> /\ Now' = Now
  BY <1>1 DEF Submitting, Now
<1>3. Now.case \notin NegativeCases /\ ~Refused(Now.case)
  BY <1>1 DEF Refused, NegativeCases
<1>4. Landing' = collected
  BY <1>2, <1>3 DEF Landing
<1>5. Presented'
  <2>1. Due("coverage") /\ ~Coming("sample")
    BY <1>1, StepInHand, AtRest DEF Due, Coming, Submitted
  <2>2. \A e \in Range(collected) : e.expires
    BY DEF OnCourse, Gathering
  <2>3. ASSUME NEW a \in Range(manifest)
        PROVE  \E e \in Range(collected) : e.action = a.action
    <3>1. StepOn("per-action-emission", "sample", a) \notin Range(todo)
      BY <2>1, StepIs DEF Coming
    <3> QED
      BY <2>1, <3>1 DEF OnCourse, Gathering
  <2>4. Range(sent') = {}
    BY <1>2, NoneIsSeq
  <2> QED
    BY <1>1, <1>2, <1>3, <2>2, <2>3, <2>4 DEF Presented
<1> QED
  BY <1>1, <1>4, <1>5, AtRest, SubmitsOn

LEMMA RetryOn ==
  ASSUME ConformanceInv, Faithful, OnCourse, RetryAsAdministrator
  PROVE  OnCourse'
<1>1. /\ InHand("next") /\ todo # <<>> /\ Now.case = "administrative-path" /\ Submitting(kept)
      /\ UNCHANGED <<manifest, objects, collected, kept, log, spent, moved, comp, inbox, outbox, faults>>
  BY DEF RetryAsAdministrator, kernelVars, pipeVars
<1>2. /\ mode' = "submitting" /\ subs' = kept /\ sent' = <<>> /\ Now' = Now
  BY <1>1 DEF Submitting, Now
<1>3. Now.case \notin NegativeCases /\ Refused(Now.case)
  BY <1>1 DEF Refused, NegativeCases
<1>4. PICK e : kept = <<e>> /\ Refusable("administrative-path", e)
  <2>1. ~Coming("gate-authorization-missing")
    BY <1>1, StepInHand DEF Coming, Follows
  <2> QED
    BY <2>1 DEF OnCourse, Prepared
<1>5. Landing' = <<>>
  <2>1. Len(kept) # 2
    BY <1>4
  <2> QED
    BY <1>2, <1>3, <2>1 DEF Landing
<1>6. collected = <<>>
  BY <1>1, NothingGathered
<1>7. Presented'
  <2>1. subs' = <<e>> /\ Refusable(Now.case, e)'
    BY <1>1, <1>2, <1>4 DEF Refusable
  <2> QED
    BY <1>1, <1>2, <1>3, <2>1 DEF Presented
<1>8. Lands(log, spent, Landing') /\ Stands(comp', log, Landing') /\ Range(Landing') = {}
  BY <1>1, <1>5, <1>6, AtRest, NoneIsSeq
<1>9. mode # "submitting" /\ inbox' = <<>> /\ outbox' = <<>> /\ collected' = <<>>
  BY <1>1, <1>6, AtRest
<1> QED
  BY <1>1, <1>7, <1>8, <1>9, SubmitsOn

LEMMA NothingToBlockOn ==
  ASSUME ConformanceInv, Faithful, OnCourse, NothingToBlock
  PROVE  FALSE
<1>1. Declared(manifest, Now) /\ Now.case = "unblockable"
  BY StepInHand DEF OnCourse, Unfailed, NothingToBlock
<1> QED
  BY <1>1 DEF Declared, Faithful

LEMMA ReplayObjectsOn ==
  ASSUME ConformanceInv, Faithful, OnCourse, ReplayObjects
  PROVE  OnCourse'
<1>1. /\ InHand("next") /\ todo # <<>> /\ Now.case = "objects" /\ todo' = Tail(todo)
      /\ UNCHANGED <<manifest, mode, collected, kept, log, spent, moved, comp, inbox, outbox, faults>>
  BY DEF ReplayObjects, kernelVars, pipeVars
<1>2. PICK t, d : /\ t \in Tables /\ d = CheckDurableObjects(t) /\ objects' = t
                  /\ groups' = [groups EXCEPT !["durable-objects"] = d]
  BY DEF ReplayObjects, Record
<1>3. d # "not-run"
  BY <1>2 DEF CheckDurableObjects
<1>4. Gathered /\ Done
  BY <1>1 DEF Gathered, Done, NegativeCases
<1>5. Lockstep' /\ Gathering' /\ Prepared' /\ Presented'
  BY <1>1, <1>4, AtRest, MovesOn
<1>6. Unfailed'
  <2>1. /\ Now.group = "durable-objects" /\ Range(todo) = Range(todo') \cup {Now}
        /\ \A s \in Range(todo') : s.group # "durable-objects"
    BY <1>1, StepInHand DEF Planned, Follows
  <2>2. /\ \A s \in Range(todo) : Declared(manifest, s)
        /\ \A g \in Groups :
             /\ groups[g] = "not-run" => \E s \in Range(todo) : s.group = g
             /\ groups[g] = "failed" => g = "durable-objects"
    BY DEF OnCourse, Unfailed
  <2>3. \A s \in Range(todo') : Declared(manifest', s)
    BY <1>1, <2>1, <2>2
  <2>4. /\ groups'["durable-objects"] = d
        /\ \A g \in Groups : g # "durable-objects" => groups'[g] = groups[g]
    <3>1. DOMAIN groups = Groups /\ "durable-objects" \in Groups
      BY DEF ConformanceInv, Course, Judged, Groups
    <3> QED
      BY <1>2, <3>1
  <2>5. ASSUME NEW g \in Groups
        PROVE  /\ groups'[g] = "not-run" => \E s \in Range(todo') : s.group = g
               /\ groups'[g] = "failed" => /\ g = "durable-objects" /\ objects' \in Tables
                                           /\ CheckDurableObjects(objects') = "failed"
    BY <1>2, <1>3, <2>1, <2>2, <2>4
  <2> QED
    BY <2>3, <2>5 DEF Unfailed
<1> QED
  BY <1>5, <1>6 DEF OnCourse

(* The fold over the records of a step, when there is one. *)
First(s) == CHOOSE x \in s : TRUE
SumsFolds(g, S) == g = [s \in SUBSET S |->
                     IF s = {} THEN 0 ELSE sent[First(s)].folds + g[s \ {First(s)}]]
FoldTable(S) == CHOOSE g : SumsFolds(g, S)

LEMMA OneAccounted ==
  ASSUME NEW e, sent = <<e>>, e.kind = "aggregate", e.folds \in Nat
  PROVE  Folded # {} /\ Accounted = e.folds
<1>1. Folded = {1} /\ sent[1].folds = e.folds
  BY DEF Folded
<1>2. Accounted = FoldTable(Folded)[Folded]
  BY DEF Accounted, MapThenSumSet, MapThenFoldSet, FoldTable, SumsFolds, First
<1>3. First({1}) = 1 /\ {1} \ {1} = {} /\ SUBSET {1} = {{}, {1}}
  BY DEF First
<1>4. \E g : SumsFolds(g, {1})
  <2>1. PICK g : g = [s \in {{}, {1}} |-> IF s = {} THEN 0 ELSE e.folds]
    OBVIOUS
  <2>2. g[{}] = 0 /\ g[{1}] = e.folds
    BY <2>1
  <2>3. \A s \in {{}, {1}} :
          g[s] = IF s = {} THEN 0 ELSE sent[First(s)].folds + g[s \ {First(s)}]
    BY <1>1, <1>3, <2>2
  <2>4. SumsFolds(g, {1})
    BY <1>3, <2>1, <2>3 DEF SumsFolds
  <2> QED
    BY <2>4
<1>5. PICK h : h = FoldTable({1}) /\ SumsFolds(h, {1})
  BY <1>4 DEF FoldTable
<1>6. h[{1}] = e.folds
  <2>1. h[{}] = 0
    BY <1>3, <1>5 DEF SumsFolds
  <2>2. h[{1}] = sent[1].folds + h[{}]
    BY <1>3, <1>5 DEF SumsFolds
  <2> QED
    BY <1>1, <2>1, <2>2
<1> QED
  BY <1>1, <1>2, <1>5, <1>6

LEMMA SettledIs ==
  ASSUME ConformanceInv, Faithful, OnCourse, InHand("submitting"), subs = <<>>
  PROVE  Settled
<1>1. mode = "submitting" /\ todo # <<>>
  BY DEF InHand, ConformanceInv, Course, About
<1>2. CASE Now.case = "coverage"
  <2>1. ASSUME NEW i \in DOMAIN manifest
        PROVE  \E e \in Range(sent) : e.action = manifest[i].action
    <3>1. manifest[i] \in Range(manifest) /\ Range(subs) = {}
      BY NoneIsSeq DEF Range
    <3> QED
      BY <1>1, <1>2, <3>1 DEF OnCourse, Presented
  <2> QED
    BY <1>2, <2>1 DEF Settled, Covered
<1>3. CASE Now.case = "emit"
  <2>1. PICK e : sent = <<e>> /\ e.kind = "aggregate" /\ e.folds = Calls(Now.action)
    BY <1>1, <1>3 DEF OnCourse, Presented
  <2>2. e.folds \in Nat
    <3>1. Now.action \in Range(Reads(manifest)) /\ manifest \in Manifests
      BY <1>1, <1>3, StepInHand DEF OnCourse, Unfailed, Declared, ConformanceInv, Exchanged
    <3>2. Now.action.max \in 1 .. 16
      BY <3>1, PolicyIs
    <3> QED
      BY <2>1, <3>2 DEF Calls
  <2>3. Folded # {} /\ Accounted = Calls(Now.action)
    BY <2>1, <2>2, OneAccounted
  <2> QED
    BY <1>3, <2>3 DEF Settled
<1>4. CASE Now.case = "offline"
  <2>1. HeadId = Last(sent).id
    BY <1>1, <1>4 DEF OnCourse, Presented
  <2> QED
    BY <1>4, <2>1 DEF Settled
<1> QED
  BY <1>2, <1>3, <1>4 DEF Settled

LEMMA SettleOn ==
  ASSUME ConformanceInv, Faithful, OnCourse, Settle
  PROVE  OnCourse'
<1>1. /\ InHand("submitting") /\ subs = <<>> /\ mode = "submitting" /\ todo # <<>>
      /\ Settled => Pass
      /\ UNCHANGED <<manifest, objects, collected, kept, log, spent, moved, comp, inbox, outbox, faults>>
  BY DEF Settle, InHand, kernelVars, pipeVars, ConformanceInv, Course, About
<1>2. Pass
  BY <1>1, SettledIs
<1>3. Landing = <<>> /\ collected = <<>>
  <2>1. Landing = <<>>
    BY <1>1 DEF Landing
  <2> QED
    BY <1>1, <2>1 DEF OnCourse, Gathering
<1>4. /\ IsSeq(collected') /\ Lands(log, spent, collected') /\ Stands(comp', log, collected')
      /\ \A e \in Range(collected') : OwnTarget(e)
      /\ inbox' = <<>> /\ outbox' = <<>>
  BY <1>1, <1>3, NoneIsSeq DEF OnCourse, Lockstep
<1>5. Now.case \in {"coverage", "emit", "offline", "administrative-path"} \cup NegativeCases
  BY <1>1 DEF OnCourse, Presented
<1>6. Now.case = "coverage" => \E e \in Range(log) : e.expires
  <2>1. ASSUME Now.case = "coverage" PROVE \E e \in Range(log) : e.expires
    <3>1. PICK a : a \in Range(manifest)
      BY PolicyIs DEF ConformanceInv, Exchanged
    <3>2. Range(subs) = {}
      BY <1>1, NoneIsSeq
    <3> QED
      BY <1>1, <2>1, <3>1, <3>2 DEF OnCourse, Presented
  <2> QED
    BY <2>1
<1>7. Gathered /\ Done
  <2>1. Now.case # "sample" /\ Now.case # "clock"
    BY <1>5 DEF NegativeCases
  <2> QED
    BY <1>1, <1>6, <2>1 DEF Gathered, Done
<1> QED
  BY <1>1, <1>2, <1>4, <1>7, PassesOn

(* What is in hand is put to ingest. *)

LEMMA SubmittedOn ==
  ASSUME ConformanceInv, Faithful, OnCourse, mode = "submitting", todo # <<>>,
         UNCHANGED <<manifest, objects, collected, moved, comp, inbox, outbox, faults,
                     todo, mode, groups>>,
         Numbered(log'), Lands(log', spent', Landing'), Stands(comp', log', Landing'),
         Submitted("gate-authorization-replayed") \/ \A e \in Range(Landing') : OwnTarget(e),
         Range(log) \subseteq Range(log'),
         Approval \in spent' => Approval \in spent \/ Submitted("gate-authorization-replayed"),
         kept' = kept \/ \E e : kept' = <<e>> /\ Refusable("administrative-path", e),
         Submitted("gate-authorization-missing") /\ kept' = <<>> => subs' # <<>>,
         Presented'
  PROVE  OnCourse'
<1>1. \A c : /\ Coming(c)' <=> Coming(c)
             /\ Submitted(c)' <=> Submitted(c)
             /\ Due(c)' <=> Due(c)
  BY DEF Coming, Due, Submitted, Now
<1>2. Now.case \in {"coverage", "emit", "offline", "administrative-path"} \cup NegativeCases
  BY DEF OnCourse, Presented
<1>3. ~Coming("sample") /\ ~Due("coverage")
  <2>1. Now.case \notin {"hello", "vectors", "sample"}
    BY <1>2 DEF NegativeCases
  <2> QED
    BY <2>1, StepInHand DEF Due, Submitted
<1>4. Lockstep'
  <2>1. inbox' = <<>> /\ outbox' = <<>> /\ mode' # "asking"
    BY DEF OnCourse, Lockstep
  <2>2. Submitted("gate-authorization-replayed")' \/ \A e \in Range(Landing') : OwnTarget(e)
    BY <1>1
  <2>3. \A i \in DOMAIN log' : log'[i].seq = i - 1
    BY DEF Numbered
  <2> QED
    BY <2>1, <2>2, <2>3 DEF Lockstep, OwnTarget
<1>5. Gathering'
  <2>1. collected' = <<>>
    BY DEF OnCourse, Gathering
  <2>2. Range(collected') = {}
    BY <2>1, NoneIsSeq
  <2>3. \A s \in Range(todo') : ~Gates(s)
    BY <1>3 DEF Gates, Coming
  <2> QED
    BY <1>1, <1>3, <2>1, <2>2, <2>3 DEF Gathering
<1>6. Prepared'
  <2>1. Prepared
    BY DEF OnCourse
  <2>2. Due("gate-authorization-replayed")' => Approval' \notin spent'
    <3>1. Approval' = Approval
      BY DEF Approval, GatedAction
    <3> QED
      BY <1>1, <2>1, <3>1 DEF Prepared, Due
  <2>3. kept' = <<>> => Coming("gate-authorization-missing")'
                        /\ (Submitted("gate-authorization-missing")' => subs' # <<>>)
    BY <1>1, <2>1 DEF Prepared
  <2>4. kept' # <<>> => \E e : kept' = <<e>> /\ Refusable("administrative-path", e)'
    BY <2>1 DEF Prepared, Refusable
  <2>5. moved' \/ Coming("clock")'
    BY <1>1, <2>1 DEF Prepared
  <2>6. \/ Coming("coverage")'
        \/ ~Coming("sample")' /\ \E e \in Range(log') : e.expires
    BY <1>1, <2>1 DEF Prepared
  <2> QED
    BY <2>2, <2>3, <2>4, <2>5, <2>6 DEF Prepared
<1>7. Unfailed'
  BY DEF OnCourse, Unfailed
<1> QED
  BY <1>4, <1>5, <1>6, <1>7 DEF OnCourse

LEMMA BeingSubmitted ==
  ASSUME ConformanceInv, OnCourse, Submit
  PROVE  /\ mode = "submitting" /\ todo # <<>> /\ subs # <<>>
         /\ IsSeq(log) /\ IsSeq(subs) /\ IsSeq(sent) /\ Numbered(log)
         /\ Lands(log, spent, Landing) /\ Stands(comp, log, Landing)
         /\ UNCHANGED <<manifest, objects, collected, moved, comp, inbox, outbox, faults>>
         /\ Appended(Head(subs))
         /\ kept' = IF UnderTest /\ Now.case = "gate-authorization-missing"
                    THEN <<Head(subs)>> ELSE kept
         /\ Tolerated(Head(subs)) =>
              subs' = Tail(subs) /\ sent' = Append(sent, Head(subs)) /\ UNCHANGED <<todo, mode, groups>>
         /\ UnderTest <=> /\ Now.case \in NegativeCases \cup {"administrative-path"}
                          /\ Len(subs) = 1
<1>1. mode = "submitting" /\ todo # <<>> /\ subs # <<>>
  BY DEF Submit, InHand, ConformanceInv, Course, About
<1>2. /\ IsSeq(log) /\ IsSeq(subs) /\ IsSeq(sent) /\ Numbered(log)
      /\ Lands(log, spent, Landing) /\ Stands(comp, log, Landing)
  BY <1>1 DEF ConformanceInv, Exchanged, Holds, Held, OnCourse, Lockstep, Numbered
<1>3. UnderTest <=> /\ Now.case \in NegativeCases \cup {"administrative-path"}
                    /\ Len(subs) = 1
  BY <1>1, StepInHand DEF Planned, UnderTest
<1>4. PICK e : e = Head(subs)
  OBVIOUS
<1> QED
  BY <1>1, <1>2, <1>3 DEF Submit, pipeVars

(* The submission under test is refused, as it is to be. *)
LEMMA RefusedOn ==
  ASSUME ConformanceInv, Faithful, OnCourse, Submit, Refused(Now.case), Len(subs) # 2
  PROVE  OnCourse'
<1>1. /\ mode = "submitting" /\ todo # <<>> /\ subs # <<>> /\ Numbered(log) /\ IsSeq(log)
      /\ Lands(log, spent, Landing) /\ Stands(comp, log, Landing)
      /\ UNCHANGED <<manifest, objects, collected, moved, comp, inbox, outbox, faults>>
  BY BeingSubmitted
<1>2. PICK e : /\ subs = <<e>> /\ Refusable(Now.case, e)
               /\ Now.case # "administrative-path" => e.seq = Len(log)
               /\ Now.case = "gate-authorization-replayed" => e.auth \in spent
  <2>1. ASSUME NEW f, NEW g, subs = <<f, g>> PROVE FALSE
    BY <2>1
  <2> QED
    BY <1>1, <2>1 DEF OnCourse, Presented
<1>3. Head(subs) = e /\ Tail(subs) = <<>> /\ Len(subs) = 1
  BY <1>2
<1>4. UnderTest /\ Now.case \in NegativeCases \cup {"administrative-path"}
  BY <1>3, BeingSubmitted DEF Refused
<1>5. e \notin Range(log)
  <2>1. CASE Now.case = "administrative-path"
    BY <1>2, <2>1, NotHeldUngated DEF ConformanceInv, Exchanged
  <2>2. CASE Now.case # "administrative-path"
    BY <1>1, <1>2, <2>2, NotHeldYet
  <2> QED
    BY <2>1, <2>2
<1>6. Verdict(e) \in Refusals(Now.case) /\ Verdict(e) # "accepted"
  BY <1>2, <1>5, VerdictRefused
<1>7. log' = log /\ spent' = spent
  <2>1. Appended(e)
    BY <1>3, BeingSubmitted
  <2> QED
    BY <1>6, <2>1 DEF Appended
<1>8. Tolerated(e)
  <2>1. Now.case # "prohibited-attempted"
    BY DEF Refused
  <2> QED
    BY <1>4, <1>6, <2>1 DEF Tolerated
<1>9. subs' = <<>> /\ UNCHANGED <<todo, mode, groups>> /\ Now' = Now
  BY <1>3, <1>8, BeingSubmitted DEF Now
<1>10. kept' = IF Now.case = "gate-authorization-missing" THEN <<e>> ELSE kept
  BY <1>3, <1>4, BeingSubmitted
<1>11. kept' = kept \/ \E f : kept' = <<f>> /\ Refusable("administrative-path", f)
  BY <1>2, <1>10, MissingIsRetried
<1>12. Landing = <<>> /\ Landing' = <<>>
  <2>1. Len(subs') # 2
    BY <1>9
  <2> QED
    BY <1>1, <1>9, <2>1 DEF Landing
<1>13. Presented'
  <2>1. Now.case \notin {"coverage", "emit", "offline", "prohibited-attempted"}
    BY DEF Refused, NegativeCases
  <2> QED
    BY <1>4, <1>9, <2>1 DEF Presented
<1>14. kept' # <<>> \/ ~Submitted("gate-authorization-missing")
  BY <1>10 DEF Submitted
<1>15. /\ Numbered(log') /\ Lands(log', spent', Landing') /\ Stands(comp', log', Landing')
       /\ \A f \in Range(Landing') : OwnTarget(f)
  <2>1. Range(Landing') = {}
    BY <1>12, NoneIsSeq
  <2> QED
    BY <1>1, <1>7, <1>12, <2>1
<1> QED
  BY <1>1, <1>7, <1>9, <1>11, <1>13, <1>14, <1>15, SubmittedOn

(* What is to land lands. *)
LEMMA LandedOn ==
  ASSUME ConformanceInv, Faithful, OnCourse, Submit, ~Refused(Now.case) \/ Len(subs) = 2
  PROVE  OnCourse'
<1>1. /\ mode = "submitting" /\ todo # <<>> /\ subs # <<>> /\ Numbered(log) /\ IsSeq(log)
      /\ IsSeq(subs) /\ IsSeq(sent)
      /\ Lands(log, spent, Landing) /\ Stands(comp, log, Landing)
      /\ UNCHANGED <<manifest, objects, collected, moved, comp, inbox, outbox, faults>>
  BY BeingSubmitted
<1>2. PICK e : e = Head(subs)
  OBVIOUS
<1>3. /\ Appended(e)
      /\ kept' = IF UnderTest /\ Now.case = "gate-authorization-missing" THEN <<e>> ELSE kept
      /\ Tolerated(e) => subs' = Tail(subs) /\ sent' = Append(sent, e) /\ UNCHANGED <<todo, mode, groups>>
  BY <1>2, BeingSubmitted
<1>4. Presented
  BY DEF OnCourse
<1>5. Refused(Now.case) =>
        /\ Now.case = "gate-authorization-replayed"
        /\ \E g : /\ subs = <<e, g>> /\ Refusable(Now.case, g) /\ g.seq = Len(log) + 1
                  /\ Applied(e) /\ e.auth = g.auth
  <2>1. ASSUME Refused(Now.case)
        PROVE  /\ Now.case = "gate-authorization-replayed"
               /\ \E g : /\ subs = <<e, g>> /\ Refusable(Now.case, g) /\ g.seq = Len(log) + 1
                         /\ Applied(e) /\ e.auth = g.auth
    <3>1. ASSUME NEW h, subs = <<h>> PROVE FALSE
      BY <2>1, <3>1
    <3>2. /\ Now.case = "gate-authorization-replayed"
          /\ \E f, g : /\ subs = <<f, g>> /\ Refusable(Now.case, g) /\ g.seq = Len(log) + 1
                       /\ Applied(f) /\ f.auth = g.auth
      BY <1>1, <1>4, <2>1, <3>1 DEF Presented
    <3>3. PICK f, g : /\ subs = <<f, g>> /\ Refusable(Now.case, g) /\ g.seq = Len(log) + 1
                      /\ Applied(f) /\ f.auth = g.auth
      BY <3>2
    <3>4. f = e
      BY <1>2, <3>3
    <3> QED
      BY <3>2, <3>3, <3>4
  <2> QED
    BY <2>1
<1>6. PICK s : /\ s = Landing /\ IsSeq(s) /\ s # <<>> /\ Head(s) = e
               /\ ~Refused(Now.case) => s = subs
               /\ Refused(Now.case) => s = <<e>>
  <2>1. CASE ~Refused(Now.case)
    BY <1>1, <1>2, <2>1 DEF Landing
  <2>2. CASE Refused(Now.case)
    <3>1. PICK g : subs = <<e, g>>
      BY <1>5, <2>2
    <3>2. Len(subs) = 2 /\ subs[1] = e
      BY <3>1
    <3>3. Landing = <<e>>
      BY <1>1, <2>2, <3>2 DEF Landing
    <3> QED
      BY <2>2, <3>3, OneIsSeq
  <2> QED
    BY <2>1, <2>2
<1>7. e \notin Range(log) /\ e.seq = Len(log) /\ e.prev = Top(log) /\ Sound(spent, e)
  <2>1. spent \subseteq spent \cup {Head(s).auth}
    OBVIOUS
  <2>2. IsSeq(log) /\ Numbered(log) /\ IsSeq(s) /\ s # <<>> /\ Lands(log, spent, s)
    BY <1>1, <1>6
  <2>3. FirstIs(log, spent, s)
    BY <2>1, <2>2, FirstLands
  <2> QED
    BY <1>6, <2>3 DEF FirstIs
<1>8. Verdict(e) = "accepted"
  BY <1>7, VerdictSound
<1>9. /\ log' = Append(log, e)
      /\ spent' = IF Applied(e) /\ e.auth # None THEN spent \cup {e.auth} ELSE spent
  BY <1>3, <1>7, <1>8 DEF Appended
<1>10. /\ IsSeq(log') /\ Numbered(log') /\ Top(log') = e.id
       /\ Lands(log', spent', Tail(s)) /\ Stands(comp, log', Tail(s))
       /\ Range(log') = Range(log) \cup {e} /\ Len(log') = Len(log) + 1 /\ Last(log') = e
  <2>1. spent' \subseteq spent \cup {Head(s).auth}
    BY <1>6, <1>9
  <2>2. /\ IsSeq(log) /\ Numbered(log) /\ IsSeq(s) /\ s # <<>>
        /\ Lands(log, spent, s) /\ Stands(comp, log, s)
    BY <1>1, <1>6
  <2>3. RestLands(log, spent', s)
    BY <2>1, <2>2, FirstLands
  <2>4. Range(log') = Range(log) \cup {e}
    BY <1>1, <1>9, AppendIsSeq
  <2>5. Len(log') = Len(log) + 1 /\ Last(log') = e
    BY <1>1, <1>9, AppendIs
  <2> QED
    BY <1>6, <1>9, <2>2, <2>3, <2>4, <2>5 DEF RestLands
<1>11. UnderTest => Now.case = "prohibited-attempted"
  <2>1. UnderTest => Now.case \in NegativeCases \cup {"administrative-path"} /\ Len(subs) # 2
    BY BeingSubmitted
  <2> QED
    BY <2>1 DEF Refused
<1>12. e \in Range(subs) /\ Range(subs) = Range(Tail(subs)) \cup {e}
  BY <1>1, <1>2, RestIsSeq
<1>13. Now.case = "emit" =>
         /\ subs = <<e>> /\ sent = <<>> /\ Tail(subs) = <<>>
         /\ e.kind = "aggregate" /\ e.folds = Calls(Now.action) /\ e.samples = 1
  <2>1. ASSUME Now.case = "emit"
        PROVE  /\ subs = <<e>> /\ sent = <<>> /\ Tail(subs) = <<>>
               /\ e.kind = "aggregate" /\ e.folds = Calls(Now.action) /\ e.samples = 1
    <3>1. PICK f : /\ <<subs, sent>> \in {<<<<f>>, <<>>>>, <<<<>>, <<f>>>>}
                   /\ f.kind = "aggregate" /\ f.folds = Calls(Now.action) /\ f.samples = 1
      BY <1>1, <1>4, <2>1 DEF Presented
    <3>2. subs = <<f>> /\ sent = <<>>
      BY <1>1, <3>1
    <3>3. Head(subs) = f /\ Tail(subs) = <<>>
      BY <3>2
    <3> QED
      BY <1>2, <3>1, <3>2, <3>3
  <2> QED
    BY <2>1
<1>14. Tolerated(e)
  <2>1. UnderTest => e.outcome = "attempted"
    BY <1>1, <1>4, <1>11, <1>12 DEF Presented
  <2>2. Now.case = "emit" => e.samples \in 1 .. Now.action.max /\ e.mandate = "run"
    <3>1. ASSUME Now.case = "emit" PROVE e.samples \in 1 .. Now.action.max /\ e.mandate = "run"
      <4>1. Now.action \in Range(Reads(manifest)) /\ manifest \in Manifests
        BY <1>1, <3>1, StepInHand DEF OnCourse, Unfailed, Declared, ConformanceInv, Exchanged
      <4>2. Now.action.max \in 1 .. 16
        BY <4>1, PolicyIs
      <4>3. e.samples = 1 /\ e.mandate = "run"
        BY <1>7, <1>13, <3>1 DEF Sound
      <4> QED
        BY <4>2, <4>3
    <3> QED
      BY <3>1
  <2> QED
    BY <1>8, <1>11, <2>1, <2>2 DEF Tolerated
<1>15. /\ subs' = Tail(subs) /\ sent' = Append(sent, e) /\ UNCHANGED <<todo, mode, groups>>
       /\ Now' = Now
  BY <1>3, <1>14 DEF Now
<1>16. kept' = kept /\ ~Submitted("gate-authorization-missing")
  <2>1. ~(UnderTest /\ Now.case = "gate-authorization-missing")
    BY <1>11
  <2>2. Now.case # "gate-authorization-missing"
    BY <1>5 DEF Refused, NegativeCases
  <2> QED
    BY <1>3, <2>1, <2>2 DEF Submitted
<1>17. Landing' = Tail(s)
  <2>1. CASE ~Refused(Now.case)
    BY <1>1, <1>6, <1>15, <2>1 DEF Landing
  <2>2. CASE Refused(Now.case)
    <3>1. PICK g : subs = <<e, g>>
      BY <1>5, <2>2
    <3>2. subs' = <<g>>
      BY <1>15, <3>1
    <3>3. Len(subs') # 2
      BY <3>2
    <3>4. Tail(s) = <<>>
      <4>1. s = <<e>>
        BY <1>6, <2>2
      <4> QED
        BY <4>1
    <3> QED
      BY <1>1, <1>15, <2>2, <3>3, <3>4 DEF Landing
  <2> QED
    BY <2>1, <2>2
<1>18. \/ Submitted("gate-authorization-replayed")
       \/ OwnTarget(e) /\ \A f \in Range(Landing') : OwnTarget(f)
  <2>1. Submitted("gate-authorization-replayed") \/ \A f \in Range(s) : OwnTarget(f)
    BY <1>6 DEF OnCourse, Lockstep
  <2>2. Range(s) = Range(Landing') \cup {e}
    BY <1>6, <1>17, RestIsSeq
  <2> QED
    BY <2>1, <2>2
<1>19. Approval \in spent' => Approval \in spent \/ Submitted("gate-authorization-replayed")
  <2>1. ASSUME OwnTarget(e), e.auth # None PROVE e.auth # Approval
    <3>1. e.target = "sample" /\ e.auth = <<e.action, e.target>>
      BY <1>7, <2>1 DEF OwnTarget, Sound
    <3> QED
      BY <3>1 DEF Approval
  <2> QED
    BY <1>9, <1>18, <2>1
<1>20. Presented'
  <2>1. Range(sent') = Range(sent) \cup {e}
    BY <1>1, <1>15, AppendIsSeq
  <2>2. Now.case \in {"coverage", "emit", "offline", "administrative-path"} \cup NegativeCases
    BY <1>1, <1>4 DEF Presented
  <2>3. Now.case = "coverage" =>
         /\ \A f \in Range(subs') \cup Range(sent') : f.expires
         /\ Range(sent') \subseteq Range(log')
         /\ \A a \in Range(manifest') : \E f \in Range(subs') \cup Range(sent') : f.action = a.action
    <3>1. Range(subs') \cup Range(sent') = Range(subs) \cup Range(sent)
      BY <1>12, <1>15, <2>1
    <3> QED
      BY <1>1, <1>4, <1>10, <2>1, <3>1 DEF Presented
  <2>4. Now.case = "emit" =>
         \E f : /\ <<subs', sent'>> \in {<<<<f>>, <<>>>>, <<<<>>, <<f>>>>}
                /\ f.kind = "aggregate" /\ f.folds = Calls(Now.action) /\ f.samples = 1
    <3>1. ASSUME Now.case = "emit" PROVE subs' = <<>> /\ sent' = <<e>>
      BY <1>13, <1>15, <3>1
    <3> QED
      BY <1>13, <3>1
  <2>5. sent' # <<>> /\ HeadId' = Last(sent').id
    <3>1. sent' # <<>> /\ Last(sent') = e
      BY <1>1, <1>15, AppendIs, AppendIsSeq
    <3>2. HeadId' = Top(log')
      BY DEF HeadId, Top
    <3> QED
      BY <1>10, <3>1, <3>2
  <2>6. Now.case = "prohibited-attempted" => \A f \in Range(subs') : f.outcome = "attempted"
    BY <1>1, <1>4, <1>12, <1>15 DEF Presented
  <2>7. Refused(Now.case) =>
          \E g : /\ subs' = <<g>> /\ Refusable(Now.case, g)
                 /\ (Now.case # "administrative-path" => g.seq = Len(log'))
                 /\ (Now.case = "gate-authorization-replayed" => g.auth \in spent')
    <3>1. ASSUME Refused(Now.case)
          PROVE  \E g : /\ subs' = <<g>> /\ Refusable(Now.case, g)
                        /\ (Now.case # "administrative-path" => g.seq = Len(log'))
                        /\ (Now.case = "gate-authorization-replayed" => g.auth \in spent')
      <4>1. PICK g : /\ subs = <<e, g>> /\ Refusable(Now.case, g) /\ g.seq = Len(log) + 1
                     /\ Applied(e) /\ e.auth = g.auth /\ Now.case = "gate-authorization-replayed"
        BY <1>5, <3>1
      <4>2. subs' = <<g>>
        BY <1>15, <4>1
      <4>3. g.auth # None
        BY <4>1 DEF Refusable
      <4> QED
        BY <1>9, <1>10, <4>1, <4>2, <4>3
    <3> QED
      BY <3>1
  <2> QED
    BY <1>15, <2>2, <2>3, <2>4, <2>5, <2>6, <2>7 DEF Presented, Refusable
<1>21. /\ Stands(comp', log', Landing') /\ Lands(log', spent', Landing')
       /\ Range(log) \subseteq Range(log')
  BY <1>1, <1>10, <1>17
<1> QED
  BY <1>1, <1>10, <1>15, <1>16, <1>18, <1>19, <1>20, <1>21, SubmittedOn

LEMMA SubmitOn ==
  ASSUME ConformanceInv, Faithful, OnCourse, Submit
  PROVE  OnCourse'
BY RefusedOn, LandedOn

(* The run. *)

LEMMA BeginsOnCourse == Init => KeptInv
<1>1. SUFFICES ASSUME Init PROVE OnCourse
  BY DEF KeptInv
<1>2. /\ todo = Script(manifest) /\ mode = "next" /\ manifest \in Manifests
      /\ collected = <<>> /\ kept = <<>> /\ groups = [g \in Groups |-> "not-run"]
      /\ log = <<>> /\ spent = {} /\ inbox = <<>> /\ outbox = <<>>
      /\ comp = [seq |-> 0, prev |-> 0, made |-> 0]
  BY <1>1 DEF Init
<1>3. /\ \A s \in Range(todo) : Planned(s) /\ Declared(manifest, s)
      /\ Step("per-action-emission", "coverage") \in Range(todo)
      /\ \A a \in Range(manifest) : StepOn("per-action-emission", "sample", a) \in Range(todo)
      /\ Step(None, "clock") \in Range(todo)
      /\ \A c \in NegativeCases : Step("negative-cases", c) \in Range(todo)
      /\ \A g \in Groups : \E s \in Range(todo) : s.group = g
  BY <1>2, ManifestIs, ScriptIs
<1>4. /\ Coming("coverage") /\ Coming("clock") /\ Coming("gate-authorization-missing")
      /\ \A c : ~Submitted(c)
  <2>1. Coming("coverage")
    <3>1. PICK s : s = Step("per-action-emission", "coverage")
      OBVIOUS
    <3>2. s.case = "coverage"
      BY <3>1 DEF Step
    <3>3. s \in Range(todo)
      BY <1>3, <3>1
    <3> QED
      BY <3>2, <3>3 DEF Coming
  <2>2. Coming("clock")
    <3>1. PICK s : s = Step(None, "clock")
      OBVIOUS
    <3>2. s.case = "clock"
      BY <3>1 DEF Step
    <3>3. s \in Range(todo)
      BY <1>3, <3>1
    <3> QED
      BY <3>2, <3>3 DEF Coming
  <2>3. Coming("gate-authorization-missing")
    <3>1. PICK s : s = Step("negative-cases", "gate-authorization-missing")
      OBVIOUS
    <3>2. s.case = "gate-authorization-missing"
      BY <3>1 DEF Step
    <3>3. s \in Range(todo)
      BY <1>3, <3>1 DEF NegativeCases
    <3> QED
      BY <3>2, <3>3 DEF Coming
  <2> QED
    BY <1>2, <2>1, <2>2, <2>3 DEF Submitted
<1>5. Lockstep
  <2>1. Landing = <<>> /\ Range(Landing) = {} /\ DOMAIN log = {}
    BY <1>2, NoneIsSeq DEF Landing
  <2>2. Stands(comp, log, <<>>)
    <3>1. comp = Place(log, <<>>, 0)
      BY <1>2 DEF Place, Top
    <3> QED
      BY <3>1 DEF Stands
  <2>3. Lands(log, spent, Landing)
    BY <2>1, NoneLands
  <2> QED
    BY <1>2, <2>1, <2>2, <2>3 DEF Lockstep
<1>6. Gathering
  <2>1. Range(collected) = {}
    BY <1>2, NoneIsSeq
  <2> QED
    BY <1>2, <1>3, <2>1 DEF Gathering
<1>7. Prepared
  BY <1>2, <1>4 DEF Prepared
<1>8. Presented
  BY <1>2 DEF Presented
<1>9. Unfailed
  BY <1>2, <1>3 DEF Unfailed
<1> QED
  BY <1>5, <1>6, <1>7, <1>8, <1>9 DEF OnCourse

(* The manifest is the one under test throughout, and what was held against   *)
(* the component stays so.                                                    *)
LEMMA FaithfulBefore ==
  ASSUME [Next]_vars, Faithful'
  PROVE  Faithful /\ ~Depart /\ ~Timeout
<1>1. manifest' = manifest
  BY DEF Next, HarnessNext, Ask, ReadUsable, ReadUnusable, Taken, Timeout, Submit, Settle,
         SubmitSamples, CloseAggregation, MoveClock, RetryAsAdministrator, NothingToBlock,
         ReplayObjects, Decay, Finish, Answer, Depart, StoreUnavailable, vars, runVars
<1>2. faults' = {}
  BY DEF Faithful
<1>3. ~Depart
  BY <1>2 DEF Depart
<1>4. ~Timeout
  BY <1>2 DEF Timeout
<1>5. faults' = faults
  BY <1>3, <1>4
     DEF Next, HarnessNext, Ask, ReadUsable, ReadUnusable, Taken, Submit, Settle,
         SubmitSamples, CloseAggregation, MoveClock, RetryAsAdministrator, NothingToBlock,
         ReplayObjects, Decay, Finish, Answer, StoreUnavailable, vars, pipeVars
<1> QED
  BY <1>1, <1>3, <1>4, <1>5 DEF Faithful, AsThePolicySays

LEMMA FinishOn ==
  ASSUME ConformanceInv, OnCourse, Finish
  PROVE  OnCourse'
<1>1. /\ InHand("next") /\ inbox' = <<>> /\ outbox' = <<>>
      /\ UNCHANGED <<manifest, todo, mode, collected, subs, sent, kept, groups, objects, faults,
                     log, spent, moved, comp>>
  BY DEF Finish, kernelVars
<1>2. Lockstep'
  <2>1. /\ Landing' = Landing
        /\ Submitted("gate-authorization-replayed")' <=> Submitted("gate-authorization-replayed")
    BY <1>1 DEF Landing, Now, Submitted
  <2>2. Lockstep /\ mode = "next"
    BY <1>1 DEF OnCourse, InHand
  <2>3. Lands(log', spent', Landing') /\ Stands(comp', log', Landing')
    BY <1>1, <2>1, <2>2 DEF Lockstep
  <2> QED
    BY <1>1, <2>1, <2>2, <2>3 DEF Lockstep, OwnTarget
<1> QED
  BY <1>1, <1>2, StaysOn

LEMMA QuietOn ==
  ASSUME OnCourse, UNCHANGED vars \/ StoreUnavailable
  PROVE  OnCourse'
<1>1. UNCHANGED <<manifest, todo, mode, collected, subs, sent, kept, groups, objects, faults,
                  log, spent, moved, comp, inbox, outbox>>
  BY DEF StoreUnavailable, vars, runVars, kernelVars, pipeVars
<1>2. Lockstep'
  <2>1. /\ Landing' = Landing /\ Request' = Request
        /\ Submitted("gate-authorization-replayed")' <=> Submitted("gate-authorization-replayed")
    BY <1>1 DEF Landing, Now, Submitted, Request
  <2>2. ASSUME NEW c, HasAnswered(c) PROVE HasAnswered(c)'
    <3>1. PICK r, s : /\ r = Request /\ s = Submissions(c, r)
                      /\ outbox = <<Answered(r, s)>> /\ comp = Behind(c, r, s)
      BY <2>2 DEF HasAnswered
    <3>2. Submissions(c, Request)' = Submissions(c, r)
      BY <1>1, <2>1, <3>1 DEF Submissions, Sample, Aggregate, Queue, Attempt, OnTarget, GatedAction,
                  ReadAction, Approval
    <3>3. outbox' = <<Answered(Request', s)>> /\ comp' = Behind(c, Request', s)
      BY <1>1, <2>1, <3>1
    <3> QED
      BY <3>1, <3>2, <3>3 DEF HasAnswered
  <2>3. Lockstep
    BY DEF OnCourse
  <2>4. Lands(log', spent', Landing')
    BY <1>1, <2>1, <2>3 DEF Lockstep
  <2>5. mode # "asking" => Stands(comp', log', Landing')
    BY <1>1, <2>1, <2>3 DEF Lockstep
  <2>6. Stands(comp, log, collected) => Stands(comp', log', collected')
    BY <1>1
  <2>7. ASSUME NEW k \in Nat, HasAnswered(Place(log, collected, k))
        PROVE  HasAnswered(Place(log, collected, k))'
    <3>1. PICK c : c = Place(log, collected, k) /\ c = Place(log', collected', k)
      BY <1>1
    <3>2. HasAnswered(c)'
      BY <2>2, <2>7, <3>1
    <3> QED
      BY <3>1, <3>2
  <2>8. mode' = "asking" =>
         \/ inbox' = <<Request'>> /\ outbox' = <<>> /\ Stands(comp', log', collected')
         \/ inbox' = <<>> /\ \E k \in Nat : HasAnswered(Place(log, collected, k))'
    BY <1>1, <2>1, <2>3, <2>6, <2>7 DEF Lockstep
  <2> QED
    BY <1>1, <2>1, <2>3, <2>4, <2>5, <2>8 DEF Lockstep, OwnTarget
<1> QED
  BY <1>1, <1>2, StaysOn

LEMMA StepStaysOnCourse ==
  ASSUME ConformanceInv, KeptInv, [Next]_vars
  PROVE  KeptInv'
<1>1. SUFFICES ASSUME Faithful' PROVE OnCourse'
  BY DEF KeptInv
<1>2. Faithful /\ OnCourse /\ ~Depart /\ ~Timeout
  BY <1>1, FaithfulBefore DEF KeptInv
<1>3. CASE Ask
  BY <1>2, <1>3, AskOn
<1>4. CASE ReadUsable
  <2>1. CASE Now.case \in {"hello", "vectors", "sample"}
    BY <1>2, <1>4, <2>1, ReadOn
  <2>2. CASE Now.case \notin {"hello", "vectors", "sample"}
    BY <1>2, <1>4, <2>2, TakeOn
  <2> QED
    BY <2>1, <2>2
<1>5. CASE ReadUnusable
  BY <1>2, <1>5, ReadUnusableOn
<1>6. CASE Submit
  BY <1>2, <1>6, SubmitOn
<1>7. CASE Settle
  BY <1>2, <1>7, SettleOn
<1>8. CASE SubmitSamples
  BY <1>2, <1>8, SubmitSamplesOn
<1>9. CASE CloseAggregation
  BY <1>2, <1>9, CloseAggregationOn
<1>10. CASE MoveClock
  BY <1>2, <1>10, MoveClockOn
<1>11. CASE RetryAsAdministrator
  BY <1>2, <1>11, RetryOn
<1>12. CASE NothingToBlock
  BY <1>2, <1>12, NothingToBlockOn
<1>13. CASE ReplayObjects
  BY <1>2, <1>13, ReplayObjectsOn
<1>14. CASE Decay
  BY <1>2, <1>14, DecayOn
<1>15. CASE Finish
  BY <1>2, <1>15, FinishOn
<1>16. CASE Answer
  BY <1>2, <1>16, AnswerOn
<1>17. CASE UNCHANGED vars \/ StoreUnavailable
  BY <1>2, <1>17, QuietOn
<1> QED
  BY <1>2, <1>3, <1>4, <1>5, <1>6, <1>7, <1>8, <1>9, <1>10, <1>11, <1>12, <1>13, <1>14, <1>15,
     <1>16, <1>17 DEF Next, HarnessNext

LEMMA StepIsOver ==
  ASSUME RedIsOver, [Next]_vars
  PROVE  RedIsOver'
<1>1. CASE UNCHANGED vars
  BY <1>1 DEF RedIsOver, Outstanding, vars, runVars
<1>2. CASE Finish
  BY <1>2 DEF RedIsOver, Finish, Outstanding
<1>3. CASE Next /\ ~Finish
  <2>1. ended' \in {"running", "error"}
    BY <1>3 DEF Next, HarnessNext, Ask, ReadUsable, ReadUnusable, Taken, Timeout, Overdue, Submit,
                Settle, SubmitSamples, CloseAggregation, MoveClock, RetryAsAdministrator,
                NothingToBlock, ReplayObjects, Decay, Answer, Depart, StoreUnavailable, InHand,
                Running, vars, runVars, pipeVars
  <2> QED
    BY <2>1 DEF RedIsOver
<1> QED
  BY <1>1, <1>2, <1>3

(* A component that keeps to the protocol is certified (conformance.rs, "a    *)
(* component that advanced its chain over seven refusals would leave a gap"): *)
(* what it signs for each case follows what the throwaway kernel holds, so    *)
(* that nothing the harness makes it do is held against it, of whatever       *)
(* manifest the kernel's own policy classes as it does.                       *)
THEOREM ConformantPasses == ConformanceSpec => []ConformantIsGreen
<1>1. Init => ConformanceInv /\ KeptInv /\ RedIsOver
  <2>1. Init => RedIsOver
    BY DEF Init, RedIsOver
  <2> QED
    BY <2>1, Begins, BeginsOnCourse
<1>2. ConformanceInv /\ KeptInv /\ RedIsOver /\ [Next]_vars
        => (ConformanceInv /\ KeptInv /\ RedIsOver)'
  BY StepKeeps, StepStaysOnCourse, StepIsOver
<1>3. ConformanceInv /\ KeptInv /\ RedIsOver => ConformantIsGreen
  <2>1. SUFFICES ASSUME ConformanceInv, KeptInv, RedIsOver, ended = "red", Conformed, AsThePolicySays
                 PROVE  FALSE
    BY DEF ConformantIsGreen
  <2>2. OnCourse
    BY <2>1 DEF KeptInv, Faithful, Conformed, DeclaredOnce
  <2>3. PICK g \in Groups : groups[g] \notin {"passed", "not-applicable"} /\ Range(todo) = {}
    BY <2>1, NoneIsSeq DEF RedIsOver, Outstanding
  <2>4. groups[g] \in {"not-run", "failed"}
    BY <2>1, <2>3 DEF ConformanceInv, Course, Judged
  <2>5. objects \in Tables /\ CheckDurableObjects(objects) = "failed"
    BY <2>2, <2>3, <2>4 DEF OnCourse, Unfailed
  <2> QED
    BY <2>1, <2>5, DistinctPasses DEF Conformed
<1> QED
  BY <1>1, <1>2, <1>3, PTL DEF ConformanceSpec
================================================================================

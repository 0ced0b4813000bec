------------------------- MODULE OperatorCeremonyProofs -------------------------
(******************************************************************************)
(* Proofs about OperatorCeremony, for any operators, duties, versions, number *)
(* of attempts and bounds.  The invariant that carries them says that what is *)
(* on the wire or about to be sent has been approved, that a policy in a file *)
(* or a request was drafted under a version, and that a command which goes on *)
(* trying last read a head as many envelopes further on as it has been        *)
(* overtaken.                                                                 *)
(******************************************************************************)
EXTENDS OperatorCeremony, TLAPS

Status == {"not parked", "waiting", "approve", "deny"}
Drafted == [version : Version, from : Version, text : 0..MaxEdits]
Policies == Drafted \cup {Bootstrap}

Envelope == [id : Number, args : File]
RequestRecord == [action : Action, args : File, names : Version]
DeskRecord == [draft : Drafted \cup {None}, document : Drafted \cup {None},
               evidence : File, request : Number]
CallRecord == [pc : {"idle", "decision", "head", "send", "answer"},
               id : Number, tries : Nat, seq : Nat, since : Nat]
WireRecord == [by : Operator, id : 1..Len(requests), seq : Nat]

(* Chain, policies and requests. *)
RecordsTyped ==
  /\ chain \in Seq(Envelope)
  /\ policies \in Seq(Policies) /\ policies # << >>
  /\ requests \in Seq(RequestRecord)
  /\ queue \in [1..Len(requests) -> Status]
  /\ lapsed \subseteq 1..Len(requests)
  /\ edits \in 0..MaxEdits

(* Desks, commands and submissions. *)
DesksTyped ==
  /\ desk \in [Operator -> DeskRecord]
  /\ call \in [Operator -> CallRecord]
  /\ \A o \in Operator : ~AtDesk(o) => call[o].id # 0
  /\ wire \subseteq WireRecord

(* A request to publish names a document with a version. *)
RequestsDrafted ==
  \A i \in 1..Len(requests) : Installs(i) => requests[i].args \in Drafted

(* Nothing is sent but what a root approved. *)
SentIsApproved ==
  /\ \A o \in Operator : call[o].pc \in {"head", "send", "answer"} =>
                           queue[call[o].id] = "approve"
  /\ \A m \in wire : queue[m.id] = "approve"

(* An attempt is made on a head that lies as far beyond the one the command   *)
(* began with as it has been overtaken. *)
AttemptsAccounted ==
  \A o \in Operator :
    /\ ~AtDesk(o) => call[o].since + call[o].tries =< Len(chain)
    /\ call[o].pc \in {"send", "answer"} =>
         /\ call[o].since + call[o].tries =< call[o].seq
         /\ call[o].seq =< Len(chain)

CeremonyInv ==
  /\ RecordsTyped /\ DesksTyped
  /\ RequestsDrafted /\ SentIsApproved /\ AttemptsAccounted
  /\ RecordedAsApproved

--------------------------------------------------------------------------------
(* Sequences. *)

LEMMA AppendTyped ==
  ASSUME NEW S, NEW q \in Seq(S), NEW x \in S
  PROVE  /\ Append(q, x) \in Seq(S) /\ Len(Append(q, x)) = Len(q) + 1
         /\ \A i \in 1..Len(q) : Append(q, x)[i] = q[i]
         /\ Append(q, x)[Len(q) + 1] = x
         /\ Len(q) \in Nat /\ Append(q, x) # << >>
OBVIOUS

LEMMA SeqOfMore ==
  ASSUME NEW S, NEW T, S \subseteq T, NEW q \in Seq(S)
  PROVE  q \in Seq(T)
OBVIOUS

LEMMA ElementsTyped ==
  ASSUME NEW S, NEW q \in Seq(S)
  PROVE  /\ Len(q) \in Nat
         /\ \A i \in 1..Len(q) : q[i] \in S
OBVIOUS

--------------------------------------------------------------------------------
(* What the invariant gives. *)

LEMMA ClassifiedTyped == RecordsTyped /\ DesksTyped => CeremonyTypeOK
<1> SUFFICES ASSUME RecordsTyped, DesksTyped PROVE CeremonyTypeOK
  OBVIOUS
<1>1. Drafted \subseteq Document /\ Policies \subseteq Document
  BY CeremonyAssumption DEF Drafted, Policies, Bootstrap, Document
<1>2. policies \in Seq(Document)
  BY <1>1 DEF RecordsTyped
<1>3. Drafted \cup {None} \subseteq File
  BY <1>1 DEF File
<1>4. desk \in [Operator -> [draft : File, document : File, evidence : File,
                            request : Number]]
  BY <1>3 DEF DesksTyped, DeskRecord
<1> QED
  BY <1>2, <1>4 DEF RecordsTyped, DesksTyped, CeremonyTypeOK, Envelope, RequestRecord,
                    CallRecord, WireRecord, Status

LEMMA InForceIsVersion ==
  ASSUME RecordsTyped
  PROVE  InForce \in Version
<1>1. policies[Len(policies)] \in Policies
  BY DEF RecordsTyped
<1> QED
  BY <1>1, CeremonyAssumption DEF Policies, Drafted, Bootstrap, InForce

LEMMA InvOvertaken == CeremonyInv => OvertakenEachTime
<1> SUFFICES ASSUME CeremonyInv, NEW o \in Operator, ~AtDesk(o)
             PROVE  call[o].tries =< Len(chain) - call[o].since
  BY DEF OvertakenEachTime
<1>1. call[o].tries \in Nat /\ call[o].since \in Nat /\ Len(chain) \in Nat
  BY DEF CeremonyInv, DesksTyped, RecordsTyped, CallRecord
<1>2. call[o].since + call[o].tries =< Len(chain)
  BY DEF CeremonyInv, AttemptsAccounted
<1> QED
  BY <1>1, <1>2

LEMMA InitInv == Init => CeremonyInv
<1> SUFFICES ASSUME Init PROVE CeremonyInv
  OBVIOUS
<1> USE CeremonyAssumption DEF Init
<1>1. /\ chain = << >> /\ Len(chain) = 0
      /\ requests = << >> /\ Len(requests) = 0
      /\ policies = << Bootstrap >> /\ Len(policies) = 1
  OBVIOUS
<1>2. RecordsTyped
  <2>1. policies \in Seq(Policies)
    BY <1>1 DEF Policies
  <2> QED
    BY <1>1, <2>1 DEF RecordsTyped
<1>3. DesksTyped
  BY DEF DesksTyped, DeskRecord, CallRecord, WireRecord, Desk, Idle, AtDesk, File, Number
<1>4. RequestsDrafted
  BY <1>1 DEF RequestsDrafted
<1>5. SentIsApproved /\ AttemptsAccounted
  BY DEF SentIsApproved, AttemptsAccounted, AtDesk, Idle
<1>6. RecordedAsApproved
  BY <1>1 DEF RecordedAsApproved
<1> QED
  BY <1>2, <1>3, <1>4, <1>5, <1>6 DEF CeremonyInv

--------------------------------------------------------------------------------
(* Preparing a change: files, requests and answers. *)

LEMMA FilesKeep ==
  ASSUME CeremonyInv, NEW o \in Operator,
         PolicyDraft(o) \/ PolicySign(o) \/ EditFile(o)
  PROVE  CeremonyInv'
<1>1. /\ UNCHANGED << kernel, requests, call, wire, runs >>
      /\ edits' \in 0..MaxEdits
  BY CeremonyAssumption
     DEF PolicyDraft, PolicySign, EditFile, CeremonyInv, RecordsTyped
<1>2. desk \in [Operator -> DeskRecord]
  BY DEF CeremonyInv, DesksTyped
<1>3. desk' \in [Operator -> DeskRecord]
  <2>1. CASE PolicyDraft(o)
    <3>1. PICK v \in Version :
            desk' = [desk EXCEPT ![o].draft = [version |-> v, from |-> InForce, text |-> 0]]
      BY <2>1 DEF PolicyDraft
    <3>2. [version |-> v, from |-> InForce, text |-> 0] \in Drafted
      BY CeremonyAssumption, InForceIsVersion DEF CeremonyInv, Drafted
    <3> QED
      BY <1>2, <3>1, <3>2 DEF DeskRecord
  <2>2. CASE PolicySign(o)
    BY <1>2, <2>2 DEF PolicySign, DeskRecord
  <2>3. CASE EditFile(o)
    <3>1. edits + 1 \in 0..MaxEdits
      BY <2>3, CeremonyAssumption DEF EditFile, CeremonyInv, RecordsTyped
    <3>2. CASE /\ desk[o].draft # None
               /\ desk' = [desk EXCEPT ![o].draft.text = edits + 1]
      <4>1. desk[o].draft \in Drafted
        BY <1>2, <3>2 DEF DeskRecord
      <4>2. [desk[o].draft EXCEPT !.text = edits + 1] \in Drafted
        BY <3>1, <4>1 DEF Drafted
      <4> QED
        BY <1>2, <3>2, <4>2 DEF DeskRecord
    <3>3. CASE /\ desk[o].evidence # None
               /\ desk' = [desk EXCEPT ![o].evidence.text = edits + 1]
      <4>1. desk[o].evidence \in Document
        BY <1>2, <3>3 DEF DeskRecord, File
      <4>2. [desk[o].evidence EXCEPT !.text = edits + 1] \in File
        BY <3>1, <4>1 DEF Document, File
      <4> QED
        BY <1>2, <3>3, <4>2 DEF DeskRecord
    <3> QED
      BY <2>3, <3>2, <3>3 DEF EditFile
  <2> QED
    BY <2>1, <2>2, <2>3
<1>4. RecordsTyped'
  BY <1>1 DEF CeremonyInv, RecordsTyped, kernel, Envelope, Number
<1>5. DesksTyped'
  BY <1>1, <1>3 DEF CeremonyInv, DesksTyped, AtDesk, kernel, DeskRecord, CallRecord,
                    WireRecord, Number
<1>6. /\ RequestsDrafted' /\ SentIsApproved' /\ AttemptsAccounted' /\ RecordedAsApproved'
  BY <1>1 DEF CeremonyInv, RequestsDrafted, Installs, SentIsApproved, AttemptsAccounted,
              AtDesk, RecordedAsApproved, kernel
<1> QED
  BY <1>4, <1>5, <1>6 DEF CeremonyInv

(* A request is put behind those there are: what named one of them still does.*)
LEMMA BuildKeeps ==
  ASSUME CeremonyInv, NEW o \in Operator, NEW action \in Action, NEW args \in File,
         NEW evidence \in File, Build(o, action, args, evidence),
         action = "kernel.publish_policy" => args \in Drafted
  PROVE  CeremonyInv'
<1> DEFINE new == [action |-> action, args |-> args, names |-> InForce]
<1>0. PICK n \in Nat : n = Len(requests)
  BY DEF CeremonyInv, RecordsTyped
<1>1. /\ requests' = Append(requests, new) /\ queue' = Append(queue, "not parked")
      /\ desk' = [desk EXCEPT ![o].request = n + 1, ![o].evidence = evidence]
      /\ UNCHANGED << chain, policies, lapsed, call, wire, edits, runs >>
  BY <1>0 DEF Build
<1>2. /\ chain \in Seq(Envelope) /\ requests \in Seq(RequestRecord)
      /\ queue \in [1..n -> Status]
      /\ lapsed \subseteq 1..n
  BY <1>0 DEF CeremonyInv, RecordsTyped
<1>3. new \in RequestRecord
  BY InForceIsVersion DEF CeremonyInv, RequestRecord
<1>4. /\ requests' \in Seq(RequestRecord) /\ Len(requests') = n + 1
      /\ \A i \in 1..n : requests'[i] = requests[i]
      /\ requests'[n + 1] = new
  <2> HIDE DEF new
  <2>1. /\ Append(requests, new) \in Seq(RequestRecord)
        /\ Len(Append(requests, new)) = Len(requests) + 1
        /\ \A i \in 1..Len(requests) : Append(requests, new)[i] = requests[i]
        /\ Append(requests, new)[Len(requests) + 1] = new
    BY <1>2, <1>3, AppendTyped
  <2> QED
    BY <1>0, <1>1, <2>1
<1>5. /\ queue' \in [1..(n + 1) -> Status]
      /\ \A i \in 1..n : queue'[i] = queue[i]
  <2>1. queue \in Seq(Status) /\ Len(queue) = n
    BY <1>2
  <2>2. PICK x \in Status : queue' = Append(queue, x)
    BY <1>1 DEF Status
  <2>3. /\ Append(queue, x) \in Seq(Status)
        /\ Len(Append(queue, x)) = Len(queue) + 1
        /\ \A i \in 1..Len(queue) : Append(queue, x)[i] = queue[i]
    BY <2>1, AppendTyped
  <2>4. /\ queue' \in Seq(Status) /\ Len(queue') = n + 1
        /\ \A i \in 1..n : queue'[i] = queue[i]
    BY <2>1, <2>2, <2>3, Zenon
  <2> QED
    BY <2>4
<1>6. Number \subseteq Number' /\ Envelope \subseteq Envelope' /\ n + 1 \in Number'
      /\ WireRecord \subseteq WireRecord' /\ CallRecord \subseteq CallRecord'
  BY <1>0, <1>4 DEF Number, Envelope, WireRecord, CallRecord
<1>7. chain' \in Seq(Envelope')
  BY <1>1, <1>2, <1>6, SeqOfMore
<1>8. RecordsTyped'
  <2>1. policies' \in Seq(Policies) /\ policies' # << >> /\ edits' \in 0..MaxEdits
    BY <1>1 DEF CeremonyInv, RecordsTyped
  <2>2. lapsed' \subseteq 1..Len(requests')
    <3>1. lapsed' = lapsed /\ lapsed \subseteq 1..n
      BY <1>1, <1>2
    <3> QED
      BY <1>4, <3>1
  <2> QED
    BY <1>4, <1>5, <1>7, <2>1, <2>2 DEF RecordsTyped
<1>9. DesksTyped'
  <2>1. desk' \in [Operator -> DeskRecord']
    BY <1>1, <1>6 DEF CeremonyInv, DesksTyped, DeskRecord
  <2>2. call' \in [Operator -> CallRecord']
    BY <1>1, <1>6 DEF CeremonyInv, DesksTyped
  <2> QED
    BY <1>1, <1>6, <2>1, <2>2 DEF CeremonyInv, DesksTyped, AtDesk
<1>10. RequestsDrafted'
  <2> SUFFICES ASSUME NEW i \in 1..(n + 1), Installs(i)' PROVE requests'[i].args \in Drafted
    BY <1>4 DEF RequestsDrafted
  <2>1. CASE i \in 1..n
    BY <1>0, <1>4, <2>1 DEF CeremonyInv, RequestsDrafted, Installs
  <2>2. CASE i = n + 1
    BY <1>4, <2>2 DEF Installs
  <2> QED
    BY <1>2, <2>1, <2>2
<1>11. SentIsApproved'
  <2>1. \A p \in Operator : call[p].pc \in {"head", "send", "answer"} => call[p].id \in 1..n
    BY <1>0 DEF CeremonyInv, DesksTyped, CallRecord, AtDesk, Number
  <2>2. \A m \in wire : m.id \in 1..n
    BY <1>0 DEF CeremonyInv, DesksTyped, WireRecord
  <2> QED
    BY <1>1, <1>5, <2>1, <2>2 DEF CeremonyInv, SentIsApproved
<1>12. AttemptsAccounted'
  BY <1>1 DEF CeremonyInv, AttemptsAccounted, AtDesk
<1>13. RecordedAsApproved'
  <2>1. \A k \in 1..Len(chain) : chain[k] \in Envelope
    BY <1>2, ElementsTyped
  <2>2. \A k \in 1..Len(chain) : chain[k].id # 0 => chain[k].id \in 1..n
    BY <1>0, <2>1 DEF Envelope, Number
  <2> QED
    BY <1>1, <1>4, <1>5, <2>2 DEF CeremonyInv, RecordedAsApproved
<1> QED
  BY <1>8, <1>9, <1>10, <1>11, <1>12, <1>13 DEF CeremonyInv

LEMMA RequestsKeep ==
  ASSUME CeremonyInv, NEW o \in Operator,
         PolicyRequest(o) \/ RootRequest(o) \/ ResumeRequest(o) \/ EffectRequest(o)
  PROVE  CeremonyInv'
<1>1. desk[o] \in DeskRecord
  BY DEF CeremonyInv, DesksTyped
<1>2. Evidence(0) \in File /\ None \in File /\ desk[o].evidence \in File
  BY <1>1, CeremonyAssumption DEF Evidence, Document, File, DeskRecord
<1>3. CASE PolicyRequest(o)
  <2>1. desk[o].document \in Drafted
    BY <1>1, <1>3 DEF PolicyRequest, DeskRecord
  <2>2. desk[o].document \in File
    BY <2>1 DEF Drafted, Document, File
  <2> QED
    BY <1>2, <1>3, <2>1, <2>2, BuildKeeps DEF PolicyRequest, Action
<1>4. CASE RootRequest(o)
  BY <1>2, <1>4, BuildKeeps DEF RootRequest, Action
<1>5. CASE ResumeRequest(o)
  BY <1>2, <1>5, BuildKeeps DEF ResumeRequest, Action
<1>6. CASE EffectRequest(o)
  BY <1>2, <1>6, BuildKeeps DEF EffectRequest, Action
<1> QED
  BY <1>3, <1>4, <1>5, <1>6

(* An answer is final: nothing that was approved ceases to be. *)
LEMMA AnswersKeep ==
  ASSUME CeremonyInv,
         \/ \E o \in Operator : Park(o)
         \/ \E i \in 1..Len(requests) : Answer(i) \/ Lapse(i)
  PROVE  CeremonyInv'
<1>1. /\ UNCHANGED << chain, policies, requests, desk, call, wire, edits, runs >>
      /\ lapsed' \subseteq 1..Len(requests)
  BY DEF Park, Answer, Lapse, CeremonyInv, RecordsTyped
<1>2. /\ queue' \in [1..Len(requests) -> Status]
      /\ \A i \in 1..Len(requests) : queue[i] = "approve" => queue'[i] = "approve"
  <2>1. queue \in [1..Len(requests) -> Status]
    BY DEF CeremonyInv, RecordsTyped
  <2>2. \/ UNCHANGED queue
        \/ \E i, x : /\ queue' = [queue EXCEPT ![i] = x] /\ x \in Status
                     /\ queue[i] # "approve"
    BY DEF Park, Answer, Lapse, Status
  <2> QED
    BY <2>1, <2>2
<1>3. RecordsTyped'
  BY <1>1, <1>2 DEF CeremonyInv, RecordsTyped, Envelope, Number
<1>4. DesksTyped'
  BY <1>1 DEF CeremonyInv, DesksTyped, AtDesk, DeskRecord, CallRecord, WireRecord, Number
<1>5. SentIsApproved'
  <2>1. \A o \in Operator : call[o].pc \in {"head", "send", "answer"}
                              => call[o].id \in 1..Len(requests)
    BY DEF CeremonyInv, DesksTyped, RecordsTyped, CallRecord, AtDesk, Number
  <2>2. \A m \in wire : m.id \in 1..Len(requests)
    BY DEF CeremonyInv, DesksTyped, WireRecord
  <2> QED
    BY <1>1, <1>2, <2>1, <2>2 DEF CeremonyInv, SentIsApproved
<1>6. RecordedAsApproved'
  <2>1. \A k \in 1..Len(chain) : chain[k] \in Envelope
    BY ElementsTyped DEF CeremonyInv, RecordsTyped
  <2>2. \A k \in 1..Len(chain) : chain[k].id # 0 => chain[k].id \in 1..Len(requests)
    BY <2>1 DEF CeremonyInv, RecordsTyped, Envelope, Number
  <2> QED
    BY <1>1, <1>2, <2>2 DEF CeremonyInv, RecordedAsApproved
<1>7. RequestsDrafted' /\ AttemptsAccounted'
  BY <1>1 DEF CeremonyInv, RequestsDrafted, Installs, AttemptsAccounted, AtDesk
<1> QED
  BY <1>3, <1>4, <1>5, <1>6, <1>7 DEF CeremonyInv

--------------------------------------------------------------------------------
(* Publishing. *)

(* A command goes on to a state that is well formed, is about something       *)
(* approved if it is past the answer, and keeps count of its attempts. *)
CallOk(c) ==
  /\ c \in CallRecord
  /\ c.pc # "idle" => c.id # 0 /\ c.since + c.tries =< Len(chain)
  /\ c.pc \in {"head", "send", "answer"} => queue[c.id] = "approve"
  /\ c.pc \in {"send", "answer"} => /\ c.since + c.tries =< c.seq
                                    /\ c.seq =< Len(chain)

LEMMA CallsOk ==
  ASSUME CeremonyInv
  PROVE  \A o \in Operator : CallOk(call[o])
BY DEF CeremonyInv, DesksTyped, SentIsApproved, AttemptsAccounted, AtDesk, CallOk

LEMMA IdleOk ==
  ASSUME CeremonyInv
  PROVE  CallOk(Idle)
BY DEF CeremonyInv, RecordsTyped, CallOk, Idle, CallRecord, Number

LEMMA CallKeeps ==
  ASSUME CeremonyInv, NEW o \in Operator, NEW c, CallOk(c),
         call' = [call EXCEPT ![o] = c],
         UNCHANGED << kernel, requests, desk, edits >>,
         wire' \subseteq wire \/ (wire' = wire \cup {Submission(o)} /\ call[o].pc = "send")
  PROVE  CeremonyInv'
<1>1. call' \in [Operator -> CallRecord] /\ \A p \in Operator : CallOk(call'[p])
  BY CallsOk DEF CeremonyInv, DesksTyped, CallOk
<1>2. wire' \subseteq WireRecord /\ \A m \in wire' : queue[m.id] = "approve"
  <2>1. wire \subseteq WireRecord /\ \A m \in wire : queue[m.id] = "approve"
    BY DEF CeremonyInv, DesksTyped, SentIsApproved
  <2>2. ASSUME call[o].pc = "send"
        PROVE  Submission(o) \in WireRecord /\ queue[Submission(o).id] = "approve"
    <3>1. /\ call[o].id \in Number /\ call[o].id # 0 /\ call[o].seq \in Nat
          /\ queue[call[o].id] = "approve"
      BY <2>2, CallsOk DEF CallOk, CallRecord
    <3>2. call[o].id \in 1..Len(requests)
      BY <3>1 DEF Number, CeremonyInv, RecordsTyped
    <3> QED
      BY <3>1, <3>2 DEF Submission, WireRecord
  <2> QED
    BY <2>1, <2>2
<1>3. RecordsTyped' /\ RequestsDrafted' /\ RecordedAsApproved'
  BY DEF CeremonyInv, RecordsTyped, RequestsDrafted, RecordedAsApproved, Installs, kernel,
         Envelope, Number
<1>4. DesksTyped' /\ SentIsApproved' /\ AttemptsAccounted'
  BY <1>1, <1>2 DEF CeremonyInv, DesksTyped, SentIsApproved, AttemptsAccounted, AtDesk,
                    CallOk, kernel, DeskRecord, CallRecord, WireRecord, Number
<1> QED
  BY <1>3, <1>4 DEF CeremonyInv

LEMMA PublishKeeps ==
  ASSUME CeremonyInv, NEW o \in Operator, NEW action, Publish(o, action)
  PROVE  CeremonyInv'
<1> DEFINE c == [pc |-> "decision", id |-> desk[o].request, tries |-> 0, seq |-> 0,
                 since |-> Len(chain)]
<1>1. desk[o].request \in Number /\ desk[o].request # 0 /\ Len(chain) \in Nat
  BY DEF Publish, CeremonyInv, DesksTyped, DeskRecord, RecordsTyped
<1>2. CallOk(c)
  BY <1>1 DEF CallOk, CallRecord
<1>3. /\ call' = [call EXCEPT ![o] = c] /\ UNCHANGED << kernel, requests, desk, edits, wire >>
  BY DEF Publish
<1> HIDE DEF c
<1> QED
  BY <1>2, <1>3, CallKeeps

LEMMA PublishesKeep ==
  ASSUME CeremonyInv, NEW o \in Operator,
         PolicyPublish(o) \/ RootPublish(o) \/ ResumePublish(o) \/ EffectPublish(o)
  PROVE  CeremonyInv'
BY PublishKeeps DEF PolicyPublish, RootPublish, ResumePublish, EffectPublish

LEMMA StepKeeps ==
  ASSUME CeremonyInv, NEW o \in Operator, Step(o)
  PROVE  CeremonyInv'
<1>1. CallOk(call[o]) /\ CallOk(Idle) /\ Len(chain) \in Nat
  BY CallsOk, IdleOk DEF CeremonyInv, RecordsTyped
<1>2. CASE FetchDecision(o)
  <2> DEFINE c == IF queue[call[o].id] = "approve" THEN [call[o] EXCEPT !.pc = "head"]
                  ELSE Idle
  <2>1. CallOk(c)
    BY <1>1, <1>2 DEF FetchDecision, CallOk, CallRecord
  <2>2. call' = [call EXCEPT ![o] = c] /\ UNCHANGED << kernel, requests, desk, edits, wire >>
    BY <1>2 DEF FetchDecision
  <2> HIDE DEF c
  <2> QED
    BY <2>1, <2>2, CallKeeps
<1>3. CASE HeadOf(o)
  <2> DEFINE c == [call[o] EXCEPT !.seq = Len(chain), !.pc = "send"]
  <2>1. /\ call[o] \in CallRecord /\ call[o].id # 0 /\ queue[call[o].id] = "approve"
        /\ call[o].since + call[o].tries =< Len(chain)
    BY <1>1, <1>3 DEF HeadOf, CallOk
  <2>2. /\ c \in CallRecord /\ c.pc = "send" /\ c.seq = Len(chain)
        /\ c.id = call[o].id /\ c.since = call[o].since /\ c.tries = call[o].tries
    BY <1>1, <2>1 DEF CallRecord
  <2>3. CallOk(c)
    <3> HIDE DEF c
    <3> QED
      BY <1>1, <2>1, <2>2 DEF CallOk
  <2>4. call' = [call EXCEPT ![o] = c] /\ UNCHANGED << kernel, requests, desk, edits, wire >>
    BY <1>3 DEF HeadOf, CeremonyInv, DesksTyped, CallRecord
  <2> HIDE DEF c
  <2> QED
    BY <2>3, <2>4, CallKeeps
<1>4. CASE Send(o)
  <2> DEFINE c == [call[o] EXCEPT !.pc = "answer"]
  <2>1. CallOk(c)
    BY <1>1, <1>4 DEF Send, CallOk, CallRecord
  <2>2. /\ call' = [call EXCEPT ![o] = c] /\ UNCHANGED << kernel, requests, desk, edits >>
        /\ wire' = wire \cup {Submission(o)} /\ call[o].pc = "send"
    BY <1>4 DEF Send
  <2> HIDE DEF c
  <2> QED
    BY <2>1, <2>2, CallKeeps
<1>5. CASE GiveUp(o)
  BY <1>1, <1>5, CallKeeps DEF GiveUp
<1> QED
  BY <1>2, <1>3, <1>4, <1>5 DEF Step

--------------------------------------------------------------------------------
(* The chain grows. *)

(* One envelope more: what commands rely on is not disturbed, whoever wrote it*)
LEMMA ChainGrows ==
  ASSUME CeremonyInv, NEW x \in Envelope, chain' = Append(chain, x),
         UNCHANGED << queue, lapsed, requests, desk, edits >>,
         call' \in [Operator -> CallRecord],
         \A o \in Operator : call'[o] = call[o] \/ call'[o] = Idle,
         wire' \subseteq wire,
         \/ policies' = policies
         \/ x.id # 0 /\ x.args \in Drafted /\ policies' = Append(policies, x.args),
         x.id # 0 => /\ queue[x.id] = "approve" /\ x.args = requests[x.id].args
                     /\ ~Spent(x.id)
  PROVE  CeremonyInv'
<1>1. chain \in Seq(Envelope) /\ policies \in Seq(Policies) /\ policies # << >>
  BY DEF CeremonyInv, RecordsTyped
<1>2. PICK n \in Nat : n = Len(chain)
  BY <1>1
<1>3. /\ chain' \in Seq(Envelope) /\ Len(chain') = n + 1
      /\ \A k \in 1..n : chain'[k] = chain[k]
      /\ chain'[n + 1] = x
  BY <1>1, <1>2, AppendTyped
<1>4. PICK m \in Nat : m = Len(policies)
  BY <1>1
<1>5. /\ policies' \in Seq(Policies) /\ policies' # << >>
      /\ \A k \in 1..m : policies'[k] = policies[k]
      /\ \/ Len(policies') = m
         \/ Len(policies') = m + 1 /\ policies'[m + 1] = x.args /\ x.id # 0
  <2>1. CASE policies' = policies
    BY <1>1, <1>4, <2>1
  <2>2. CASE x.id # 0 /\ x.args \in Drafted /\ policies' = Append(policies, x.args)
    BY <1>1, <1>4, <2>2, AppendTyped DEF Policies
  <2> QED
    BY <2>1, <2>2
<1>6. RecordsTyped'
  BY <1>3, <1>5 DEF CeremonyInv, RecordsTyped, Envelope, Number
<1>7. DesksTyped'
  BY DEF CeremonyInv, DesksTyped, AtDesk, Idle, DeskRecord, CallRecord, WireRecord, Number
<1>8. SentIsApproved' /\ RequestsDrafted'
  BY DEF CeremonyInv, SentIsApproved, RequestsDrafted, Installs, Idle
<1>9. AttemptsAccounted'
  <2>1. \A o \in Operator : call[o] \in CallRecord
    BY DEF CeremonyInv, DesksTyped
  <2> SUFFICES ASSUME NEW o \in Operator
               PROVE  /\ call'[o].pc # "idle" => call'[o].since + call'[o].tries =< n + 1
                      /\ call'[o].pc \in {"send", "answer"} =>
                           /\ call'[o].since + call'[o].tries =< call'[o].seq
                           /\ call'[o].seq =< n + 1
    BY <1>3 DEF AttemptsAccounted, AtDesk
  <2>2. CASE call'[o] = Idle
    BY <2>2 DEF Idle
  <2>3. CASE call'[o] = call[o]
    <3>1. /\ call[o].since \in Nat /\ call[o].tries \in Nat /\ call[o].seq \in Nat
      BY <2>1 DEF CallRecord
    <3> QED
      BY <1>2, <2>3, <3>1 DEF CeremonyInv, AttemptsAccounted, AtDesk
  <2> QED
    BY <2>2, <2>3
<1>10. RecordedAsApproved'
  <2>1. \A k \in 1..n : chain[k].id # 0 =>
          /\ queue[chain[k].id] = "approve"
          /\ chain[k].args = requests[chain[k].id].args
          /\ \A j \in 1..n : chain[j].id = chain[k].id => j = k
    BY <1>2 DEF CeremonyInv, RecordedAsApproved
  <2>2. x.id # 0 => \A k \in 1..n : chain[k].id # x.id
    BY <1>2 DEF Spent
  <2>3. \A k \in 1..(n + 1) : k \in 1..n \/ k = n + 1
    OBVIOUS
  <2>4. \A k \in 1..(n + 1) : chain'[k].id # 0 =>
          /\ queue[chain'[k].id] = "approve"
          /\ chain'[k].args = requests[chain'[k].id].args
          /\ \A j \in 1..(n + 1) : chain'[j].id = chain'[k].id => j = k
    <3> SUFFICES ASSUME NEW k \in 1..(n + 1), chain'[k].id # 0
                 PROVE  /\ queue[chain'[k].id] = "approve"
                        /\ chain'[k].args = requests[chain'[k].id].args
                        /\ \A j \in 1..(n + 1) : chain'[j].id = chain'[k].id => j = k
      OBVIOUS
    <3>1. CASE k \in 1..n
      BY <1>3, <2>1, <2>2, <2>3, <3>1
    <3>2. CASE k = n + 1
      BY <1>3, <2>2, <2>3, <3>2
    <3> QED
      BY <2>3, <3>1, <3>2
  <2>5. \A p \in 2..m : \E k \in 1..n : chain[k].id # 0 /\ chain[k].args = policies[p]
    BY <1>2, <1>4 DEF CeremonyInv, RecordedAsApproved
  <2>6. \A p \in 2..Len(policies') : \E k \in 1..(n + 1) :
          chain'[k].id # 0 /\ chain'[k].args = policies'[p]
    <3> SUFFICES ASSUME NEW p \in 2..Len(policies')
                 PROVE  \E k \in 1..(n + 1) :
                          chain'[k].id # 0 /\ chain'[k].args = policies'[p]
      OBVIOUS
    <3>1. CASE p \in 2..m
      <4>1. PICK k \in 1..n : chain[k].id # 0 /\ chain[k].args = policies[p]
        BY <2>5, <3>1
      <4>2. k \in 1..(n + 1) /\ p \in 1..m
        BY <3>1
      <4> QED
        BY <1>3, <1>5, <4>1, <4>2
    <3>2. CASE p = m + 1 /\ policies'[m + 1] = x.args /\ x.id # 0
      BY <1>3, <3>2
    <3>3. CASE Len(policies') = m
      BY <3>1, <3>3
    <3>4. CASE Len(policies') = m + 1 /\ policies'[m + 1] = x.args /\ x.id # 0
      <4>1. p \in 2..m \/ p = m + 1
        BY <3>4
      <4> QED
        BY <3>1, <3>2, <3>4, <4>1
    <3> QED
      BY <1>5, <3>3, <3>4
  <2> QED
    BY <1>3, <2>4, <2>6 DEF RecordedAsApproved
<1> QED
  BY <1>6, <1>7, <1>8, <1>9, <1>10 DEF CeremonyInv

LEMMA OthersKeep == CeremonyInv /\ OthersAppend => CeremonyInv'
<1> SUFFICES ASSUME CeremonyInv, OthersAppend PROVE CeremonyInv'
  OBVIOUS
<1>1. Other \in Envelope /\ Other.id = 0
  BY DEF Other, Envelope, Number, File, CeremonyInv, RecordsTyped
<1> QED
  BY <1>1, ChainGrows DEF OthersAppend, CeremonyInv, DesksTyped

LEMMA JudgeKeeps ==
  ASSUME CeremonyInv, NEW m \in wire, Judge(m)
  PROVE  CeremonyInv'
<1>1. /\ m \in WireRecord /\ queue[m.id] = "approve"
      /\ m.id \in 1..Len(requests) /\ m.id # 0 /\ m.by \in Operator
  BY DEF CeremonyInv, DesksTyped, SentIsApproved, WireRecord
<1>2. call \in [Operator -> CallRecord] /\ Idle \in CallRecord /\ Len(chain) \in Nat
  BY IdleOk DEF CeremonyInv, DesksTyped, RecordsTyped, CallOk
<1>3. /\ UNCHANGED << queue, lapsed, requests, desk, edits >> /\ wire' \subseteq wire
      /\ call' = IF Waiting(m) THEN [call EXCEPT ![m.by] = Heard(call[m.by], Verdict(m))]
                 ELSE call
  BY DEF Judge
<1>4. CASE Verdict(m) = "ok"
  <2> DEFINE x == [id |-> m.id, args |-> requests[m.id].args]
  <2>1. requests[m.id] \in RequestRecord
    BY <1>1, ElementsTyped DEF CeremonyInv, RecordsTyped
  <2>2. x \in Envelope /\ x.id = m.id /\ x.args = requests[m.id].args
    BY <1>1, <2>1 DEF Envelope, Number, RequestRecord, CeremonyInv, RecordsTyped
  <2>3. ~Spent(m.id)
    BY <1>4 DEF Verdict
  <2>4. Heard(call[m.by], Verdict(m)) = Idle
    BY <1>4 DEF Heard, Contended
  <2>5. /\ call' \in [Operator -> CallRecord]
        /\ \A o \in Operator : call'[o] = call[o] \/ call'[o] = Idle
    BY <1>1, <1>2, <1>3, <2>4
  <2>6. /\ chain' = Append(chain, x)
        /\ \/ policies' = policies
           \/ x.args \in Drafted /\ policies' = Append(policies, x.args)
    BY <1>1, <1>4, <2>2 DEF Judge, Record, CeremonyInv, RequestsDrafted
  <2> HIDE DEF x
  <2> QED
    BY <1>1, <1>3, <2>2, <2>3, <2>5, <2>6, ChainGrows
<1>5. CASE Verdict(m) # "ok"
  <2>1. UNCHANGED kernel
    BY <1>3, <1>5 DEF Judge, Record, kernel
  <2>2. CASE Waiting(m)
    <3>1. PICK d : d = call[m.by]
      OBVIOUS
    <3>2. CallOk(d) /\ d.pc = "answer" /\ m.seq = d.seq
      BY <1>1, <2>2, <3>1, CallsOk DEF Waiting, Submission
    <3>3. PICK c : c = Heard(d, Verdict(m))
      OBVIOUS
    <3>4. ASSUME c = [d EXCEPT !.pc = "head", !.tries = d.tries + 1], Contended(Verdict(m))
          PROVE  CallOk(c)
      <4>1. m.seq # Len(chain)
        BY <3>4 DEF Verdict, Contended
      <4>2. /\ d \in CallRecord /\ d.id # 0 /\ queue[d.id] = "approve"
            /\ d.since + d.tries =< d.seq /\ d.seq =< Len(chain)
        BY <3>2 DEF CallOk
      <4>3. /\ c \in CallRecord /\ c.pc = "head" /\ c.id = d.id
            /\ c.since = d.since /\ c.tries = d.tries + 1
            /\ d.since \in Nat /\ d.tries \in Nat /\ d.seq \in Nat
        <5>1. PICK e : e = [d EXCEPT !.pc = "head"]
          OBVIOUS
        <5>2. /\ e \in CallRecord /\ e.pc = "head" /\ e.id = d.id
              /\ e.since = d.since /\ e.tries = d.tries
          BY <4>2, <5>1 DEF CallRecord
        <5>3. c = [e EXCEPT !.tries = d.tries + 1]
          BY <3>4, <5>1
        <5> QED
          BY <4>2, <5>2, <5>3 DEF CallRecord
      <4>4. c.since + c.tries =< Len(chain)
        BY <1>2, <3>2, <4>1, <4>2, <4>3
      <4> QED
        BY <4>2, <4>3, <4>4 DEF CallOk
    <3>5. ASSUME c = Idle PROVE CallOk(c)
      BY <3>5, IdleOk
    <3>6. CallOk(c)
      BY <3>3, <3>4, <3>5 DEF Heard
    <3>7. call' = [call EXCEPT ![m.by] = c]
      BY <1>3, <2>2, <3>1, <3>3
    <3> QED
      BY <1>1, <1>3, <2>1, <3>6, <3>7, CallKeeps
  <2>3. CASE ~Waiting(m)
    <3>1. call' = [call EXCEPT ![m.by] = call[m.by]]
      BY <1>2, <1>3, <2>3
    <3> QED
      BY <1>1, <1>3, <2>1, <3>1, CallsOk, CallKeeps
  <2> QED
    BY <2>2, <2>3
<1> QED
  BY <1>4, <1>5

--------------------------------------------------------------------------------
LEMMA CeremonyInvariant == Spec => []CeremonyInv
<1>1. CeremonyInv /\ [Next]_vars => CeremonyInv'
  <2> SUFFICES ASSUME CeremonyInv, [Next]_vars PROVE CeremonyInv'
    OBVIOUS
  <2>1. ASSUME NEW o \in Operator, Command(o) PROVE CeremonyInv'
    BY <2>1, FilesKeep, RequestsKeep, AnswersKeep, PublishesKeep DEF Command
  <2>2. CASE UNCHANGED vars
    <3>1. UNCHANGED << kernel, requests, desk, edits, call, wire >>
      BY <2>2 DEF vars
    <3> QED
      BY <3>1 DEF CeremonyInv, RecordsTyped, DesksTyped, RequestsDrafted, Installs,
                  SentIsApproved, AttemptsAccounted, AtDesk, RecordedAsApproved, kernel,
                  Envelope, DeskRecord, CallRecord, WireRecord, Number
  <2> QED
    BY <2>1, <2>2, StepKeeps, AnswersKeep, JudgeKeeps, OthersKeep DEF Next
<1> QED
  BY <1>1, InitInv, PTL DEF Spec

(* Files, requests, commands and what the kernel holds are well formed, and   *)
(* every policy and every policy request names a version. *)
THEOREM CeremonyTyped == Spec => []CeremonyTypeOK
<1>1. CeremonyInv => CeremonyTypeOK
  BY ClassifiedTyped DEF CeremonyInv
<1> QED
  BY <1>1, CeremonyInvariant, PTL

(* What reaches the chain was approved, as it was asked and once, for any     *)
(* number of operators, edits, reruns, lost answers and late submissions      *)
(* (policy_publish, publish_effect): no command compares the file again after *)
(* the answer, so what keeps it true is that a request never changes once it  *)
(* is parked and that ingest spends the approval. *)
THEOREM RecordsAreAsApproved == Spec => []RecordedAsApproved
<1>1. CeremonyInv => RecordedAsApproved
  BY DEF CeremonyInv
<1> QED
  BY <1>1, CeremonyInvariant, PTL

(* A command that tries again has been overtaken by somebody each time, also  *)
(* when its own earlier submission is judged late (ATTEMPTS). *)
THEOREM LosesOnlyRaces == Spec => []OvertakenEachTime
<1>1. CeremonyInv => OvertakenEachTime
  BY InvOvertaken
<1> QED
  BY <1>1, CeremonyInvariant, PTL
================================================================================

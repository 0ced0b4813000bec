---------------------------- MODULE OperatorCeremony ---------------------------
(******************************************************************************)
(* What an operator does at a terminal to change anything the root set must   *)
(* approve: the commands of main.rs that build a request, park it, and, once  *)
(* a root has answered, publish it on the kernel's core stream.  Between two  *)
(* of an operator's commands anything may happen: files are edited, another   *)
(* operator publishes, the stream grows.  A publishing command reads the      *)
(* answer, then the head, then submits, and starts again at the head when     *)
(* somebody was faster; an answer of the kernel may be lost, and what was     *)
(* sent may be judged after its sender has given up.                          *)
(*                                                                            *)
(* Documents are told apart by the version they install, the policy they were *)
(* drafted from and their text; a hash is the document it is the hash of.     *)
(* Signing keys, mandates and expiry windows are ingest's to check; here an   *)
(* approval lapses at some point.                                             *)
(******************************************************************************)
EXTENDS Integers, Sequences, FiniteSets

CONSTANTS
  None,
  Operator,
  Duty,         \* [Operator -> SUBSET Action]: what each sets out to change
  Version,      \* policy versions a draft may be given
  FirstVersion, \* the version the bootstrap published
  Attempts,     \* ATTEMPTS: submissions one publishing command makes
  MaxRequests,  \* bound on the requests built
  MaxEdits,     \* bound on the times a file is edited
  MaxRuns,      \* bound on the publishing commands run
  MaxOthers     \* bound on what others append to the stream

Action == {"kernel.publish_policy", "kernel.enroll_root", "kernel.retire_root",
           "kernel.resume_stream", "kernel.conformance_run"}

ASSUME CeremonyAssumption ==
  /\ FirstVersion \in Version
  /\ Duty \in [Operator -> SUBSET Action]
  /\ Attempts \in Nat \ {0}
  /\ MaxRequests \in Nat /\ MaxEdits \in Nat /\ MaxRuns \in Nat /\ MaxOthers \in Nat

VARIABLES
  chain,     \* kernel:core since the bootstrap: what each envelope records
  policies,  \* the policies published, in order
  requests,  \* the requests built, in order: a request hash is a place here
  queue,     \* where each stands: not parked, waiting, approved or denied
  lapsed,    \* those whose approval is out of date
  desk,      \* each operator's files: draft, signed document, evidence, request
  call,      \* each operator's publishing command, if one is running
  wire,      \* submissions sent and not judged
  edits, runs

kernel == << chain, policies, queue, lapsed >>
vars == << kernel, requests, desk, call, wire, edits, runs >>

Document == [version : Version \cup {None}, from : Version \cup {None},
             text : 0..MaxEdits]
Evidence(n) == [version |-> None, from |-> None, text |-> n]
Bootstrap == [version |-> FirstVersion, from |-> None, text |-> 0]

Desk == [draft |-> None, document |-> None, evidence |-> None, request |-> 0]
Idle == [pc |-> "idle", id |-> 0, tries |-> 0, seq |-> 0, since |-> 0]
Other == [id |-> 0, args |-> None]

InForce == policies[Len(policies)].version
Spent(i) == \E n \in 1..Len(chain) : chain[n].id = i

Init ==
  /\ chain = << >> /\ policies = << Bootstrap >>
  /\ requests = << >> /\ queue = << >> /\ lapsed = {}
  /\ desk = [o \in Operator |-> Desk]
  /\ call = [o \in Operator |-> Idle]
  /\ wire = {} /\ edits = 0 /\ runs = 0

AtDesk(o) == call[o].pc = "idle"

--------------------------------------------------------------------------------
(* Preparing a change.                                                        *)

(* A draft is the policy in force, under a new version, to be edited. *)
PolicyDraft(o) ==
  /\ AtDesk(o) /\ "kernel.publish_policy" \in Duty[o]
  /\ \E v \in Version \ {InForce} :
       desk' = [desk EXCEPT ![o].draft =
                  [version |-> v, from |-> InForce, text |-> 0]]
  /\ UNCHANGED << kernel, requests, call, wire, edits, runs >>

PolicySign(o) ==
  /\ AtDesk(o) /\ desk[o].draft # None
  /\ desk' = [desk EXCEPT ![o].document = desk[o].draft]
  /\ UNCHANGED << kernel, requests, call, wire, edits, runs >>

(* Somebody edits a draft, or the evidence lying beside a request. *)
EditFile(o) ==
  /\ edits < MaxEdits
  /\ edits' = edits + 1
  /\ \/ /\ desk[o].draft # None
        /\ desk' = [desk EXCEPT ![o].draft.text = edits + 1]
     \/ /\ desk[o].evidence # None
        /\ desk' = [desk EXCEPT ![o].evidence.text = edits + 1]
  /\ UNCHANGED << kernel, requests, call, wire, runs >>

(* The request file, and the evidence written with it if there is any. *)
Build(o, action, args, evidence) ==
  /\ action \in Duty[o] /\ Len(requests) < MaxRequests
  /\ requests' = Append(requests, [action |-> action, args |-> args,
                                   names |-> InForce])
  /\ queue' = Append(queue, "not parked")
  /\ desk' = [desk EXCEPT ![o].request = Len(requests) + 1, ![o].evidence = evidence]
  /\ UNCHANGED << chain, policies, lapsed, call, wire, edits, runs >>

(* The version in force is read first; it is not asked whether the document   *)
(* was drafted from it. *)
PolicyRequest(o) ==
  /\ AtDesk(o) /\ desk[o].document # None
  /\ desk[o].document.version # InForce
  /\ Build(o, "kernel.publish_policy", desk[o].document, desk[o].evidence)

RootRequest(o) ==
  /\ AtDesk(o)
  /\ \/ Build(o, "kernel.enroll_root", Evidence(0), Evidence(0))
     \/ Build(o, "kernel.retire_root", None, desk[o].evidence)

ResumeRequest(o) ==
  /\ AtDesk(o)
  /\ Build(o, "kernel.resume_stream", Evidence(0), Evidence(0))

(* What the request commits to and what is kept as evidence may differ: a     *)
(* conformance run attests a manifest and carries a report. *)
EffectRequest(o) ==
  /\ AtDesk(o)
  /\ Build(o, "kernel.conformance_run", Evidence(0), desk[o].evidence)

Park(o) ==
  /\ AtDesk(o)
  /\ LET i == desk[o].request
     IN /\ i # 0 /\ queue[i] = "not parked"
        /\ queue' = [queue EXCEPT ![i] = "waiting"]
  /\ UNCHANGED << chain, policies, lapsed, requests, desk, call, wire, edits, runs >>

(* decide and answer: one signed answer, and no second one. *)
Answer(i) ==
  /\ queue[i] = "waiting"
  /\ \E d \in {"approve", "deny"} : queue' = [queue EXCEPT ![i] = d]
  /\ UNCHANGED << chain, policies, lapsed, requests, desk, call, wire, edits, runs >>

Lapse(i) ==
  /\ queue[i] = "approve" /\ i \notin lapsed
  /\ lapsed' = lapsed \cup {i}
  /\ UNCHANGED << chain, policies, queue, requests, desk, call, wire, edits, runs >>

--------------------------------------------------------------------------------
(* Publishing.                                                                *)

Publish(o, action) ==
  /\ AtDesk(o) /\ desk[o].request # 0
  /\ requests[desk[o].request].action = action
  /\ call' = [call EXCEPT ![o] = [pc |-> "decision", id |-> desk[o].request,
                                  tries |-> 0, seq |-> 0, since |-> Len(chain)]]
  /\ runs < MaxRuns /\ runs' = runs + 1
  /\ UNCHANGED << kernel, requests, desk, wire, edits >>

(* A file that is not the one the request commits to is never sent. *)
Asked(o) == requests[desk[o].request].args

PolicyPublish(o) ==
  /\ desk[o].request # 0 /\ desk[o].document = Asked(o)
  /\ Publish(o, "kernel.publish_policy")

RootPublish(o) ==
  \/ /\ desk[o].request # 0 /\ desk[o].evidence = Asked(o)
     /\ Publish(o, "kernel.enroll_root")
  \/ Publish(o, "kernel.retire_root")

ResumePublish(o) ==
  /\ desk[o].request # 0 /\ desk[o].evidence = Asked(o)
  /\ Publish(o, "kernel.resume_stream")

EffectPublish(o) == Publish(o, "kernel.conformance_run")

(* Only an approval is published; a denial, or no answer yet, ends it. *)
FetchDecision(o) ==
  /\ call[o].pc = "decision"
  /\ call' = [call EXCEPT ![o] = IF queue[call[o].id] = "approve"
                                 THEN [call[o] EXCEPT !.pc = "head"] ELSE Idle]
  /\ UNCHANGED << kernel, requests, desk, wire, edits, runs >>

(* Mutant: the head is read once, not at every attempt. *)
HeadOnce(o) ==
  /\ call[o].pc = "head"
  /\ call' = [call EXCEPT ![o].seq = IF call[o].tries = 0 THEN Len(chain) ELSE call[o].seq,
                          ![o].pc = "send"]
  /\ UNCHANGED << kernel, requests, desk, wire, edits, runs >>

HeadOf(o) ==
  /\ call[o].pc = "head"
  /\ call' = [call EXCEPT ![o].seq = Len(chain), ![o].pc = "send"]
  /\ UNCHANGED << kernel, requests, desk, wire, edits, runs >>

Submission(o) == [by |-> o, id |-> call[o].id, seq |-> call[o].seq]

(* Signed anew each time: the position is inside the signed bytes. *)
Send(o) ==
  /\ call[o].pc = "send"
  /\ wire' = wire \cup {Submission(o)}
  /\ call' = [call EXCEPT ![o].pc = "answer"]
  /\ UNCHANGED << kernel, requests, desk, edits, runs >>

(* The kernel cannot be reached, or does not answer in time. *)
GiveUp(o) ==
  /\ ~AtDesk(o)
  /\ call' = [call EXCEPT ![o] = Idle]
  /\ UNCHANGED << kernel, requests, desk, wire, edits, runs >>

Installs(i) == requests[i].action = "kernel.publish_policy"
Published(v) == \E n \in 1..Len(policies) : policies[n].version = v

(* Mutant: that an approval was used is not asked. *)
VerdictUnspent(m) ==
  CASE Installs(m.id) /\ Published(requests[m.id].args.version) -> "policy-version-reused"
    [] m.id \in lapsed -> "gate-approval-expired"
    [] m.seq # Len(chain) -> "chain-seq-duplicate"
    [] OTHER -> "ok"

(* What of ingest's checks can tell against a submission of these commands. *)
Verdict(m) ==
  CASE Installs(m.id) /\ Published(requests[m.id].args.version) -> "policy-version-reused"
    [] Spent(m.id) -> "gate-authorization-replayed"
    [] m.id \in lapsed -> "gate-approval-expired"
    [] m.seq # Len(chain) -> "chain-seq-duplicate"
    [] OTHER -> "ok"

Contended(code) == code = "chain-seq-duplicate"

Record(m) ==
  IF Verdict(m) = "ok"
  THEN /\ chain' = Append(chain, [id |-> m.id, args |-> requests[m.id].args])
       /\ policies' = IF Installs(m.id) THEN Append(policies, requests[m.id].args)
                      ELSE policies
  ELSE UNCHANGED << chain, policies >>

Waiting(m) == call[m.by].pc = "answer" /\ Submission(m.by) = m

(* Mutant: what the next attempt is about is dropped with the last one. *)
HeardAfresh(c, code) ==
  IF Contended(code) /\ c.tries + 1 < Attempts
  THEN [Idle EXCEPT !.pc = "head", !.tries = c.tries + 1]
  ELSE Idle

(* What the command makes of the kernel's answer. *)
Heard(c, code) ==
  IF Contended(code) /\ c.tries + 1 < Attempts
  THEN [c EXCEPT !.pc = "head", !.tries = c.tries + 1]
  ELSE Idle

(* The kernel judges a submission; its sender may have given up by then. *)
Judge(m) ==
  /\ Record(m)
  /\ wire' = wire \ {m}
  /\ call' = IF Waiting(m) THEN [call EXCEPT ![m.by] = Heard(call[m.by], Verdict(m))]
             ELSE call
  /\ UNCHANGED << queue, lapsed, requests, desk, edits, runs >>

(* Gate decisions, revocations and registrations of others. *)
OthersAppend ==
  /\ Cardinality({n \in 1..Len(chain) : chain[n] = Other}) < MaxOthers
  /\ chain' = Append(chain, Other)
  /\ UNCHANGED << policies, queue, lapsed, requests, desk, call, wire, edits, runs >>

--------------------------------------------------------------------------------
Command(o) ==
  \/ PolicyDraft(o) \/ PolicySign(o) \/ EditFile(o)
  \/ PolicyRequest(o) \/ RootRequest(o) \/ ResumeRequest(o) \/ EffectRequest(o)
  \/ Park(o)
  \/ PolicyPublish(o) \/ RootPublish(o) \/ ResumePublish(o) \/ EffectPublish(o)

Step(o) == FetchDecision(o) \/ HeadOf(o) \/ Send(o) \/ GiveUp(o)

Next ==
  \/ \E o \in Operator : Command(o) \/ Step(o)
  \/ \E i \in 1..Len(requests) : Answer(i) \/ Lapse(i)
  \/ \E m \in wire : Judge(m)
  \/ OthersAppend

Spec == Init /\ [][Next]_vars

--------------------------------------------------------------------------------
(* Properties.                                                                *)

File == Document \cup {None}
Number == 0..Len(requests)

(* Files, requests, commands and what the kernel holds are well formed, and   *)
(* whatever a command is about or has sent is a request that was built. *)
CeremonyTypeOK ==
  /\ chain \in Seq([id : Number, args : File])
  /\ policies \in Seq(Document) /\ policies # << >>
  /\ requests \in Seq([action : Action, args : File, names : Version])
  /\ queue \in [1..Len(requests) -> {"not parked", "waiting", "approve", "deny"}]
  /\ lapsed \subseteq 1..Len(requests)
  /\ desk \in [Operator -> [draft : File, document : File, evidence : File,
                            request : Number]]
  /\ call \in [Operator -> [pc : {"idle", "decision", "head", "send", "answer"},
                            id : Number, tries : Nat, seq : Nat, since : Nat]]
  /\ \A o \in Operator : ~AtDesk(o) => call[o].id # 0
  /\ wire \subseteq [by : Operator, id : 1..Len(requests), seq : Nat]

(* What is on the chain was approved, as it was asked and once: though the    *)
(* files it was built from have changed since, its operator gave up and ran   *)
(* the command again, and two submissions of it were under way (policy_publish*)
(* and publish_effect). *)
RecordedAsApproved ==
  /\ \A n \in 1..Len(chain) : chain[n].id # 0 =>
       /\ queue[chain[n].id] = "approve"
       /\ chain[n].args = requests[chain[n].id].args
       /\ \A k \in 1..Len(chain) : chain[k].id = chain[n].id => k = n
  /\ \A p \in 2..Len(policies) : \E n \in 1..Len(chain) :
       chain[n].id # 0 /\ chain[n].args = policies[p]

(* A command that goes on trying, and so one that ends as contended, has been *)
(* overtaken by another envelope at every attempt: "losing the race is        *)
(* ordinary and is retried rather than reported" (policy_publish). *)
OvertakenEachTime ==
  \A o \in Operator : ~AtDesk(o) => call[o].tries =< Len(chain) - call[o].since

================================================================================

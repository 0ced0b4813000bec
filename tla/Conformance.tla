------------------------------ MODULE Conformance ------------------------------
(******************************************************************************)
(* The certification of a component (kernel conformance.rs, harness.rs,       *)
(* driver.rs, and `conformance' of main.rs).                                  *)
(*                                                                            *)
(* Three actors.  The harness walks the steps of a run and judges what comes  *)
(* back.  The component answers one line per request, from a pipe it reads at *)
(* its own pace: an answer has no name on it, so one that comes too late is   *)
(* read as the answer to the next request.  The throwaway kernel judges what  *)
(* the component signed as ingest does.  The component may depart from the    *)
(* protocol in any of the ways the groups are there to notice.                *)
(******************************************************************************)
EXTENDS Naturals, FiniteSets, SequencesExt

CONSTANTS
  None,
  Manifests,  \* the manifests under test: their actions, in order
  ByAction,   \* the classes the throwaway kernel's policy gives by name
  Tables,     \* the durable-object tables a manifest may declare
  MaxFaults   \* how often the component departs from the protocol

Classes == <<"read", "benign", "consequential", "prohibited">>

Groups == {"vectors", "per-action-emission", "aggregation", "negative-cases",
           "offline-behaviour", "durable-objects", "decay-independence"}

(* An approval names an action and a target, and is none of the absent ones.  *)
(* The policy is the baseline profile, which knows the two names the attempts *)
(* use whatever the manifest declares (policy.rs, `baseline_conservative').   *)
ASSUME ConformanceAssumption ==
  /\ \A m \in Manifests :
       /\ m \in Seq(Range(m))
       /\ \A a \in Range(m) :
            /\ a \in [action : {a.action}, max : 1 .. 16, class : {"read", "consequential"}]
            /\ \A t \in {"sample", "approved", "elsewhere"} : None # <<a.action, t>>
  /\ None \notin Groups
  /\ ByAction \in [DOMAIN ByAction -> Range(Classes)]
  /\ "get" \in DOMAIN ByAction /\ ByAction["get"] = "read"
  /\ \A t \in Tables :
       /\ t \in Seq(Range(t))
       /\ \A x \in Range(t) : /\ x.from \in Seq(Range(x.from)) /\ None \notin Range(x.from)
                              /\ x.signers \in Seq(Range(x.signers)) \ {<<>>}
  /\ MaxFaults \in Nat

Negatives == <<"gate-authorization-missing", "gate-authorization-action-mismatch",
               "gate-authorization-replayed", "mandate-expired",
               "mandate-root-not-human", "prohibited-attempted",
               "cognition-with-evidence">>

VARIABLES
  manifest,   \* the one under test
  todo,       \* the steps of the run still ahead; the head is in hand
  mode,       \* what the harness is about: "next", "asking", "submitting"
  collected,  \* samples asked for and not yet submitted
  subs,       \* submissions of the step in hand still to be put to ingest
  sent,       \* those of the step ingest took or was meant to refuse
  kept,       \* the gated envelope without an authorization, for the last case
  groups,     \* the outcome of each group
  ended,      \* "running", or how the command exits: "green", "red", "error"
  log,        \* the component's stream in the throwaway kernel
  spent,      \* the approvals used there
  moved,      \* whether the clock has moved past the brief mandate
  comp,       \* the component: next position, what precedes it, what it signed
  inbox,      \* requests written to the component's stdin and not yet answered
  outbox,     \* answers on its stdout and not yet read
  faults,     \* how it departed from the protocol, and where
  misread,    \* whether an answer was read for another request than its own
  objects     \* the manifest's durable objects, once they have been replayed

runVars == <<manifest, todo, mode, collected, subs, sent, kept, groups, objects, ended>>
kernelVars == <<log, spent, moved>>
pipeVars == <<comp, inbox, outbox, faults, misread>>
vars == <<runVars, kernelVars, pipeVars>>

(*---------------------------------------------------------------------------*)
(* The steps of a run.                                                       *)

Step(g, c) == [group |-> g, case |-> c, action |-> None, at |-> None]
StepOn(g, c, a) == [Step(g, c) EXCEPT !.action = a]

(* The actions of a class, in the order of the manifest.                      *)
OfClass(m, c) ==
  LET upTo[n \in 0 .. Len(m)] ==
        IF n = 0 THEN <<>>
        ELSE IF m[n].class = c THEN Append(upTo[n - 1], m[n]) ELSE upTo[n - 1]
  IN  upTo[Len(m)]

Reads(m) == OfClass(m, "read")
Gated(m) == OfClass(m, "consequential")

(* Script: in the order of harness::run; samples are all asked for before any *)
(* is submitted.                                                              *)
Script(m) ==
  <<Step(None, "hello"), Step("vectors", "vectors")>>
  \o [i \in DOMAIN m |-> StepOn("per-action-emission", "sample", m[i])]
  \o <<Step("per-action-emission", "coverage")>>
  \o [i \in DOMAIN Reads(m) |-> StepOn("aggregation", "emit", Reads(m)[i])]
  \o <<Step("aggregation", "folded"), Step(None, "clock")>>
  \o [i \in DOMAIN Negatives |-> Step("negative-cases", Negatives[i])]
  \o <<Step("negative-cases", "administrative-path"),
       Step("offline-behaviour", IF Gated(m) = <<>> THEN "unblockable" ELSE "offline"),
       Step("durable-objects", "objects"),
       Step("decay-independence", "decay")>>

Now == Head(todo)
Asked(s) == s.case \in {"hello", "vectors", "sample", "emit", "offline"} \cup Range(Negatives)

(* One past the ceiling the manifest declares.                                *)
Calls(a) == a.max + 1

(* Mutant: the component is told that a refused cognition lands.              *)
ExpectCognition(case) ==
  IF case \in {"prohibited-attempted", "cognition-with-evidence"} THEN "accepted" ELSE "refused"

(* What becomes of the last submission of a case, as the component is told.   *)
Expect(case) == IF case = "prohibited-attempted" THEN "accepted" ELSE "refused"

(*---------------------------------------------------------------------------*)
(* The throwaway kernel.                                                     *)

Weight(c) == CHOOSE i \in DOMAIN Classes : Classes[i] = c

(* No manifest is registered there: a name the policy does not list is        *)
(* consequential, whatever the manifest proposes.                             *)
PolicyClass(a) == IF a \in DOMAIN ByAction THEN ByAction[a] ELSE "consequential"

Applied(e) == e.outcome = "applied"
HeadId == IF log = <<>> THEN 0 ELSE Last(log).id

(* Ingest, in its order: held already, schema, grant, class, mandate, gate,   *)
(* and the position last, in the append transaction.                          *)
Verdict(e) ==
  IF e \in Range(log) THEN "accepted"
  ELSE IF e.kind = "cognition" THEN "cognition-envelope-has-effect-fields"
  ELSE IF e.kind = "mandate" THEN "mandate-root-grantor-not-human"
  ELSE IF Weight(e.class) < Weight(PolicyClass(e.action)) THEN "policy-component-override-attempt"
  ELSE IF e.mandate = "brief" /\ e.at = "late" THEN "mandate-expired"
  ELSE IF PolicyClass(e.action) = "consequential" /\ Applied(e) /\ e.auth = None
       THEN "gate-authorization-missing"
  ELSE IF e.auth # None /\ e.auth # <<e.action, e.target>>
       THEN "gate-authorization-action-mismatch"
  ELSE IF e.auth # None /\ e.auth \in spent THEN "gate-authorization-replayed"
  ELSE IF e.seq # Len(log) THEN "chain-seq-gap"
  ELSE IF e.prev # HeadId THEN "chain-prev-hash-mismatch"
  ELSE "accepted"

Appended(e) ==
  IF Verdict(e) = "accepted" /\ e \notin Range(log)
  THEN /\ log' = Append(log, e)
       /\ spent' = IF Applied(e) /\ e.auth # None THEN spent \cup {e.auth} ELSE spent
  ELSE UNCHANGED <<log, spent>>

(*---------------------------------------------------------------------------*)
(* The component.                                                            *)

(* What it signs next for an action: nothing but a position and a number of   *)
(* its own tell two envelopes apart.                                          *)
Signed(c, r, a) ==
  [id |-> c.made + 1, seq |-> c.seq, prev |-> c.prev, kind |-> "effect",
   action |-> a.action, class |-> a.class, outcome |-> "applied",
   target |-> "sample", auth |-> None, mandate |-> "run", at |-> r.at,
   folds |-> 0, samples |-> 0, expires |-> FALSE]

Commit(c, e) == [seq |-> e.seq + 1, prev |-> e.id, made |-> e.id]
CommitAll(c, s) == IF s = <<>> THEN c ELSE Commit(c, Last(s))

GatedAction == IF Gated(manifest) = <<>> THEN [action |-> "create", class |-> "consequential"]
               ELSE Head(Gated(manifest))
ReadAction == IF Reads(manifest) = <<>> THEN [action |-> "get", class |-> "read"]
              ELSE Head(Reads(manifest))

Sample(c, r) ==
  [Signed(c, r, r.action) EXCEPT
     !.auth = IF r.action.class = "consequential" THEN <<r.action.action, "sample">> ELSE None,
     !.expires = TRUE]

Aggregate(c, r, n) ==
  [Signed(c, r, r.action) EXCEPT !.kind = "aggregate", !.folds = n, !.samples = 1]

OnTarget(c, r, t, auth) ==
  [Signed(c, r, GatedAction) EXCEPT !.target = t, !.auth = auth]

Approval == <<GatedAction.action, "approved">>

(* The attempt of a case: its setup and, last, the submission under test.     *)
Attempt(c, r) ==
  CASE r.case = "gate-authorization-missing" -> <<OnTarget(c, r, "approved", None)>>
    [] r.case = "gate-authorization-action-mismatch" -> <<OnTarget(c, r, "elsewhere", Approval)>>
    [] r.case = "gate-authorization-replayed" ->
         LET first == OnTarget(c, r, "approved", Approval)
         IN  <<first, OnTarget(Commit(c, first), r, "approved", Approval)>>
    [] r.case = "mandate-expired" -> <<[Signed(c, r, ReadAction) EXCEPT !.mandate = "brief"]>>
    [] r.case = "mandate-root-not-human" -> <<[Signed(c, r, ReadAction) EXCEPT !.kind = "mandate"]>>
    [] r.case = "prohibited-attempted" ->
         <<[Signed(c, r, [action |-> "delete", class |-> "prohibited"])
              EXCEPT !.outcome = "attempted"]>>
    [] r.case = "cognition-with-evidence" ->
         <<[Signed(c, r, ReadAction) EXCEPT !.kind = "cognition"]>>

(* It advances over what lands: the setup, and the last if it was told so.    *)
Advanced(c, r, s) ==
  LET landed == IF r.expect = "accepted" THEN s ELSE Front(s)
  IN  [CommitAll(c, landed) EXCEPT !.made = Last(s).id]

(* Offline: its reads as ever, and the record that the gated one was blocked. *)
Queue(c, r) ==
  LET acts == Reads(manifest) \o <<GatedAction>>
  IN  [i \in DOMAIN acts |->
        [Signed(c, r, acts[i]) EXCEPT
           !.id = c.made + i, !.seq = c.seq + i - 1,
           !.prev = IF i = 1 THEN c.prev ELSE c.made + i - 1,
           !.outcome = IF i = Len(acts) THEN "blocked" ELSE "applied"]]

(* ok: the key is the manifest's, the vectors are right, the gated action is  *)
(* reported blocked.                                                          *)
Answered(r, s) == [to |-> r, ok |-> TRUE, error |-> FALSE, subs |-> s]

Submissions(c, r) ==
  CASE r.case = "sample" -> <<Sample(c, r)>>
    [] r.case = "emit" -> <<Aggregate(c, r, Calls(r.action))>>
    [] r.case = "offline" -> Queue(c, r)
    [] r.case \in Range(Negatives) -> Attempt(c, r)
    [] OTHER -> <<>>

Behind(c, r, s) == IF s = <<>> THEN c
                   ELSE IF r.case \in Range(Negatives) THEN Advanced(c, r, s)
                   ELSE CommitAll(c, s)

(* The ways to depart from the protocol that a case gives room for.           *)
Departures(r) ==
  {"error"} \cup
  CASE r.case \in {"hello", "vectors"} -> {"wrong"}
    [] r.case = "sample" -> {"none", "ungated", "keeps"}
    [] r.case = "emit" -> {"none", "itemizes", "oversamples", "undercounts", "repeats"}
    [] r.case = "offline" -> {"wrong", "none", "applies", "renumbers", "unlinks"}
    [] OTHER -> {"none", "complies", "advances", "stays"}

(* What it submits instead.                                                   *)
Departed(s, c, r, d) ==
  LET e == IF s = <<>> THEN None ELSE Last(s)
      with(f) == Append(Front(s), f)
  IN CASE d \in {"none", "error"} -> <<>>
       [] d = "ungated" -> with([e EXCEPT !.auth = None])
       [] d = "keeps" -> with([e EXCEPT !.expires = FALSE])
       [] d = "itemizes" -> with([e EXCEPT !.kind = "effect", !.folds = 0])
       [] d = "oversamples" -> with([e EXCEPT !.samples = r.action.max + 1])
       [] d = "undercounts" -> with([e EXCEPT !.folds = @ - 1])
       [] d = "repeats" -> LET half == [e EXCEPT !.folds = @ \div 2] IN <<half, half>>
       [] d = "applies" -> with([e EXCEPT !.outcome = "applied"])
       [] d = "complies" -> with([Signed(c, r, ReadAction) EXCEPT
                                    !.id = e.id, !.seq = e.seq, !.prev = e.prev])
       [] d = "renumbers" -> [i \in DOMAIN s |-> [s[i] EXCEPT !.seq = @ + 1]]
       [] d = "unlinks" -> with([e EXCEPT !.prev = 0])
       [] OTHER -> s

(* Its position after it, when it mistakes what became of the last one.       *)
Mistaken(c, r, s, d) ==
  CASE d = "advances" -> CommitAll(c, s)
    [] d = "stays" -> [c EXCEPT !.made = Last(s).id]
    [] OTHER -> Behind(c, r, s)

Answer ==
  /\ ended = "running" /\ inbox # <<>>
  /\ LET r == Head(inbox) s == Submissions(comp, r) IN
     /\ inbox' = Tail(inbox)
     /\ comp' = Behind(comp, r, s)
     /\ outbox' = Append(outbox, Answered(r, s))
  /\ UNCHANGED <<runVars, kernelVars, faults, misread>>

Depart ==
  /\ ended = "running" /\ inbox # <<>> /\ Cardinality(faults) < MaxFaults
  /\ LET r == Head(inbox) s == Submissions(comp, r) IN
     \E d \in Departures(r) :
       LET t == Departed(s, comp, r, d) IN
       /\ inbox' = Tail(inbox)
       /\ comp' = Mistaken(comp, r, IF d \in {"advances", "stays"} THEN s ELSE t, d)
       /\ outbox' = Append(outbox, [Answered(r, t) EXCEPT !.ok = (d # "wrong"),
                                                          !.error = (d = "error")])
       /\ faults' = faults \cup {<<r.case, r.action, d>>}
  /\ UNCHANGED <<runVars, kernelVars, misread>>

(*---------------------------------------------------------------------------*)
(* Durable objects: a table is a sequence of transitions, of one object type. *)

(* The first entry of the name decides.  From state None there is no object.  *)
CheckTransition(t, name, role, state) ==
  \E i \in DOMAIN t :
    /\ t[i].name = name
    /\ \A j \in DOMAIN t : j < i => t[j].name # name
    /\ role \in Range(t[i].signers)
    /\ IF state = None THEN t[i].from = <<>> ELSE state \in Range(t[i].from)

FirstFrom(x) == IF x.from = <<>> THEN None ELSE Head(x.from)

CheckDurableObjects(t) ==
  IF t = <<>> THEN "not-applicable"
  ELSE IF /\ \A i \in DOMAIN t :
               CheckTransition(t, t[i].name, Head(t[i].signers), FirstFrom(t[i]))
          /\ ~CheckTransition(t, "no-such-transition", "agent", None)
          /\ \A i \in DOMAIN t :
               t[i].signers = <<"human">>
                 => ~CheckTransition(t, t[i].name, "agent", FirstFrom(t[i]))
       THEN "passed" ELSE "failed"

(*---------------------------------------------------------------------------*)
(* The harness.                                                              *)

Running == ended = "running"
InHand(m) == Running /\ mode = m

(* On to the next step; a group is recorded with its last one.                *)
Record(g, result) == groups' = [groups EXCEPT ![g] = result]

Pass ==
  /\ todo' = Tail(todo)
  /\ mode' = "next"
  /\ subs' = <<>> /\ sent' = <<>>
  /\ IF Now.group = None \/ \E s \in Range(Tail(todo)) : s.group = Now.group
     THEN UNCHANGED groups
     ELSE Record(Now.group, "passed")

(* A group that failed is left at once: the rest of its steps, which follow   *)
(* each other in every script, are not taken.                                 *)
Fail ==
  /\ \E n \in DOMAIN todo :
       /\ \A i \in DOMAIN todo : i <= n <=> todo[i].group = Now.group
       /\ todo' = SubSeq(todo, n + 1, Len(todo))
  /\ mode' = "next"
  /\ subs' = <<>> /\ sent' = <<>>
  /\ Record(Now.group, "failed")

Submitting(s) ==
  /\ mode' = "submitting" /\ subs' = s /\ sent' = <<>>
  /\ UNCHANGED <<todo, groups>>

Request ==
  [group |-> Now.group, case |-> Now.case, action |-> Now.action,
   at |-> IF moved THEN "late" ELSE "early", expect |-> Expect(Now.case)]

Ask ==
  /\ InHand("next") /\ todo # <<>> /\ Asked(Now)
  /\ inbox' = Append(inbox, Request)
  /\ mode' = "asking"
  /\ UNCHANGED <<manifest, objects, todo, collected, subs, sent, kept, groups, ended, kernelVars,
                 comp, outbox, faults, misread>>

(* The queue chains, from the position the kernel has free, and holds no      *)
(* gated action that was applied.                                             *)
QueueHolds(s) ==
  /\ s # <<>>
  /\ \A i \in DOMAIN s :
       /\ i > 1 => s[i].seq = s[i - 1].seq + 1 /\ s[i].prev = s[i - 1].id
       /\ s[i].action = GatedAction.action => ~Applied(s[i])
  /\ Head(s).seq = Len(log)

(* Read, on the answer at hand: whether the step goes on with it.             *)
Usable(a) ==
  /\ ~a.error
  /\ Now.case \in {"hello", "vectors", "offline"} => a.ok /\ a.to.case = Now.case
  /\ Now.case \in {"emit"} \cup Range(Negatives) => a.subs # <<>>
  /\ Now.case = "offline" => QueueHolds(a.subs)

Taken ==
  /\ InHand("asking") /\ outbox # <<>>
  /\ outbox' = Tail(outbox)
  /\ misread' = (misread \/ Head(outbox).to # Request)
  /\ UNCHANGED <<manifest, objects, kernelVars, comp, inbox, faults>>

ReadUsable ==
  /\ Taken /\ Usable(Head(outbox))
  /\ CASE Now.case \in {"hello", "vectors"} -> Pass /\ UNCHANGED collected
       [] Now.case = "sample" -> Pass /\ collected' = collected \o Head(outbox).subs
       [] OTHER -> Submitting(Head(outbox).subs) /\ UNCHANGED collected
  /\ UNCHANGED <<kept, ended>>

(* Nobody to certify, or another than the manifest's: the run is not one.     *)
ReadUnusable ==
  /\ Taken /\ ~Usable(Head(outbox))
  /\ IF Now.case = "hello"
     THEN ended' = "error" /\ UNCHANGED <<todo, mode, subs, sent, groups>>
     ELSE Fail /\ UNCHANGED ended
  /\ UNCHANGED <<kept, collected>>

(* Mutant: only a component that has read its request has a deadline.         *)
OverdueOnceRead == InHand("asking") /\ outbox = <<>> /\ inbox = <<>>

Overdue == InHand("asking") /\ outbox = <<>>

(* The deadline of a request; what answers it later stays in the pipe.        *)
Timeout ==
  /\ Overdue
  /\ IF Now.case = "hello"
     THEN ended' = "error" /\ UNCHANGED <<todo, mode, subs, sent, groups>>
     ELSE Fail /\ UNCHANGED ended
  /\ faults' = faults \cup {<<Now.case, Now.action, "late">>}
  /\ UNCHANGED <<manifest, objects, collected, kept, kernelVars, comp, inbox, outbox, misread>>

(* What the last submission of a case must come to.                           *)
Refusals(case) ==
  CASE case = "gate-authorization-missing" -> {"gate-authorization-missing"}
    [] case = "administrative-path" -> {"gate-authorization-missing"}
    [] case = "gate-authorization-action-mismatch" -> {"gate-authorization-action-mismatch"}
    [] case = "gate-authorization-replayed" -> {"gate-authorization-replayed"}
    [] case = "mandate-expired" -> {"mandate-expired"}
    [] case = "mandate-root-not-human" ->
         {"mandate-root-grantor-not-human", "mandate-delegation-depth-exceeded"}
    [] case = "cognition-with-evidence" -> {"cognition-envelope-has-effect-fields"}

UnderTest == Now.group = "negative-cases" /\ Len(subs) = 1

Tolerated(e) ==
  IF UnderTest /\ Now.case # "prohibited-attempted" THEN Verdict(e) \in Refusals(Now.case)
  ELSE /\ Verdict(e) = "accepted"
       /\ UnderTest => e.outcome = "attempted"
       /\ Now.case = "emit" /\ e.kind = "aggregate" => 
            e.samples \in 1 .. Now.action.max /\ e.mandate = "run"

Submit ==
  /\ InHand("submitting") /\ subs # <<>>
  /\ LET e == Head(subs) IN
     /\ Appended(e)
     /\ kept' = IF UnderTest /\ Now.case = "gate-authorization-missing" THEN <<e>> ELSE kept
     /\ IF Tolerated(e)
        THEN /\ subs' = Tail(subs) /\ sent' = Append(sent, e)
             /\ UNCHANGED <<todo, mode, groups>>
        ELSE Fail
  /\ UNCHANGED <<manifest, objects, collected, ended, moved, pipeVars>>

(* Mutant: one sample is enough for the group.                                *)
CoveredOnce == \E i \in DOMAIN manifest : \E e \in Range(sent) : e.action = manifest[i].action

Covered == \A i \in DOMAIN manifest : \E e \in Range(sent) : e.action = manifest[i].action

Folded == {i \in DOMAIN sent : sent[i].kind = "aggregate"}
Accounted == MapThenSumSet(LAMBDA i : sent[i].folds, Folded)

(* What a group asks of the submissions of a step once ingest took them.      *)
Settled ==
  CASE Now.case = "coverage" -> Covered
    [] Now.case = "emit" -> Folded # {} /\ Accounted = Calls(Now.action)
    [] Now.case = "offline" -> HeadId = Last(sent).id
    [] OTHER -> TRUE

Settle ==
  /\ InHand("submitting") /\ subs = <<>>
  /\ IF Settled THEN Pass ELSE Fail
  /\ UNCHANGED <<manifest, objects, collected, kept, ended, kernelVars, pipeVars>>

(* The steps the harness takes by itself.                                     *)
SubmitSamples ==
  /\ InHand("next") /\ todo # <<>> /\ Now.case = "coverage"
  /\ Submitting(collected) /\ collected' = <<>>
  /\ UNCHANGED <<manifest, objects, kept, ended, kernelVars, pipeVars>>

CloseAggregation ==
  /\ InHand("next") /\ todo # <<>> /\ Now.case = "folded"
  /\ Pass
  /\ UNCHANGED <<manifest, objects, collected, kept, ended, kernelVars, pipeVars>>

(* The brief mandate is granted, and the clock moves past it.                 *)
MoveClock ==
  /\ InHand("next") /\ todo # <<>> /\ Now.case = "clock"
  /\ moved' = TRUE
  /\ Pass
  /\ UNCHANGED <<manifest, objects, collected, kept, ended, log, spent, pipeVars>>

RetryAsAdministrator ==
  /\ InHand("next") /\ todo # <<>> /\ Now.case = "administrative-path"
  /\ Submitting(kept)
  /\ UNCHANGED <<manifest, objects, collected, kept, ended, kernelVars, pipeVars>>

NothingToBlock ==
  /\ InHand("next") /\ todo # <<>> /\ Now.case = "unblockable"
  /\ Fail
  /\ UNCHANGED <<manifest, objects, collected, kept, ended, kernelVars, pipeVars>>

(* The table of the manifest, which nothing before this step has read.        *)
ReplayObjects ==
  /\ InHand("next") /\ todo # <<>> /\ Now.case = "objects"
  /\ \E t \in Tables : /\ Record("durable-objects", CheckDurableObjects(t))
                       /\ objects' = t
  /\ todo' = Tail(todo)
  /\ UNCHANGED <<manifest, mode, collected, subs, sent, kept, ended, kernelVars, pipeVars>>

(* Something was erased: what had expired by the instant the clock moved to.  *)
Demonstrated == moved /\ \E e \in Range(log) : e.expires

(* The stream verifies before and after, whatever was erased.                 *)
Decay ==
  /\ InHand("next") /\ todo # <<>> /\ Now.case = "decay"
  /\ IF Demonstrated THEN Pass ELSE Fail
  /\ UNCHANGED <<manifest, objects, collected, kept, ended, kernelVars, pipeVars>>

Outstanding == {g \in Groups : groups[g] \notin {"passed", "not-applicable"}}

(* The evidence is printed, the component stopped, the exit code set.         *)
Finish ==
  /\ InHand("next") /\ todo = <<>>
  /\ ended' = IF Outstanding = {} THEN "green" ELSE "red"
  /\ inbox' = <<>> /\ outbox' = <<>>
  /\ UNCHANGED <<manifest, objects, todo, mode, collected, subs, sent, kept, groups, kernelVars,
                 comp, faults, misread>>

(* The store does not answer: no verdict on the component.                    *)
StoreUnavailable ==
  /\ Running /\ todo # <<>>
  /\ mode = "submitting" \/ Now.case \in {"clock", "decay"}
  /\ ended' = "error"
  /\ UNCHANGED <<manifest, objects, todo, mode, collected, subs, sent, kept, groups, kernelVars,
                 pipeVars>>

Init ==
  /\ manifest \in Manifests
  /\ todo = Script(manifest)
  /\ mode = "next"
  /\ collected = <<>> /\ subs = <<>> /\ sent = <<>> /\ kept = <<>>
  /\ groups = [g \in Groups |-> "not-run"]
  /\ objects = <<>>
  /\ ended = "running"
  /\ log = <<>> /\ spent = {} /\ moved = FALSE
  /\ comp = [seq |-> 0, prev |-> 0, made |-> 0]
  /\ inbox = <<>> /\ outbox = <<>>
  /\ faults = {} /\ misread = FALSE

HarnessNext ==
  \/ Ask \/ ReadUsable \/ ReadUnusable \/ Timeout
  \/ Submit \/ Settle \/ SubmitSamples \/ CloseAggregation \/ MoveClock
  \/ RetryAsAdministrator \/ NothingToBlock \/ ReplayObjects \/ Decay \/ Finish

Next == HarnessNext \/ Answer \/ Depart \/ StoreUnavailable

ConformanceSpec == Init /\ [][Next]_vars

(* The harness is the program of the operator's terminal; of the component    *)
(* nothing is assumed.                                                        *)
FairConformanceSpec == ConformanceSpec /\ WF_vars(HarnessNext)

(*---------------------------------------------------------------------------*)
(* Properties.                                                               *)

(* A human-only transition is refused to an agent in every state.             *)
PersonsDecide(t) ==
  \A i \in DOMAIN t :
    t[i].signers = <<"human">>
      => \A s \in Range(t[i].from) \cup {None} : ~CheckTransition(t, t[i].name, "agent", s)

(* A green run is what it says (conformance.rs, the head of the module): the  *)
(* kernel took a sample of every declared action and a record of every read;  *)
(* holds a recorded attempt, and no gated effect but under an approval of its *)
(* own; and every answer was the answer to what was asked.                    *)
GreenIsEarned ==
  ended = "green" =>
    /\ \A i \in DOMAIN manifest :
         \E e \in Range(log) : /\ e.kind = "effect" /\ e.at = "early"
                               /\ e.action = manifest[i].action
    /\ \A i \in DOMAIN Reads(manifest) :
         \E e \in Range(log) : /\ e.kind = "aggregate"
                               /\ e.action = Reads(manifest)[i].action
                               /\ e.samples \in 1 .. Reads(manifest)[i].max
    /\ \E e \in Range(log) : e.outcome = "attempted"
    /\ \A e \in Range(log) : PolicyClass(e.action) = "consequential" /\ Applied(e)
                               => e.auth = <<e.action, e.target>>
    /\ \A e, f \in Range(log) : e.auth # None /\ e.auth = f.auth => e = f
    /\ PersonsDecide(objects)
    /\ ~misread

Distinct(t) == \A i, j \in DOMAIN t : t[i].name = t[j].name => i = j

(* A gated action declared twice is asked for two samples under one approval; *)
(* and the group of the durable objects tries a transition nobody is to have. *)
Conformed ==
  /\ faults = {}
  /\ Gated(manifest) # <<>>
  /\ \A i, j \in DOMAIN Gated(manifest) :
       Gated(manifest)[i].action = Gated(manifest)[j].action => i = j
  /\ Distinct(objects)
  /\ \A i \in DOMAIN objects : objects[i].name # "no-such-transition"

AsThePolicySays ==
  \A i \in DOMAIN manifest : manifest[i].class = PolicyClass(manifest[i].action)

(* A component that keeps to the protocol is not failed for what the harness  *)
(* makes it do: seven attempts that must be refused, at positions nothing may *)
(* come to occupy, and the retry of the first when its position is taken      *)
(* (conformance.rs, "a component that advanced its chain over seven refusals  *)
(* would leave a gap").  Only of actions the throwaway kernel's own policy    *)
(* classes as the manifest does, since nobody registers the manifest there.   *)
ConformantIsGreen ==
  ended = "red" /\ Conformed => ~AsThePolicySays

(* A run comes to an end although the component may never answer (driver.rs:  *)
(* "a hung certification run reports nothing at all").                        *)
RunConcludes == <>(ended # "running")
================================================================================

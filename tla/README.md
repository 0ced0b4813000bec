# stozher: verification project

stozher is an accountability kernel for software agents. A component that acts
(the *gateway*, a Python MCP proxy) writes one signed *envelope* per act onto
its own hash-linked *stream* and submits it; the *kernel* (Rust, SQLite)
judges the envelope against mandates, policy and approvals and appends it, or
refuses it and records the refusal. These modules model the parts of that
which are decided by state and by order rather than by bytes.

References are to `kernel/stozher-kernel/src`, `kernel/stozher-core/src`,
`gateway/src/stozher_gateway` and `spec/`.

## Inventory

| component | state | operations | what is hard | what makes it correct | modelled |
|---|---|---|---|---|---|
| store (`store.rs`, `sql/schema.sql`) | envelope log, stream heads, single-use rows, rejections, resumes, policies, manifests, roots, decisions, mandates, revocations, checkpoints, spend, payloads | append (one transaction with its projections), record a rejection, sweep payloads, rebuild spend | any order of plans; resumes and bridges around refused positions; projections that must agree with the log | one envelope per position, linked chain, single use, bridges name refusals, caches and folds agree with the log | `KernelStore`, `AuditLog`, `KernelStoreProofs` |
| ingest (`ingest.rs`) | none of its own: each handler keeps what it has read | submit, with some ten reads before the append | every read may be stale when it is used; a retry races its original | no false replay, nothing privileged without a root's approval, nothing denied unflagged, everything under a mandate | `KernelIngest` (commitments, triggers, aggregates planned) |
| core algorithms (`mandate.rs`, `gate.rs`, `chain.rs`, `decimal.rs`, `sync.rs`, `trigger.rs`) | none | chain walk, scope narrowing, authorization steps, chain verification, exact sums, snapshot acceptance | order of checks, boundaries, bridges | agreement with a reference definition | as far as ingest uses them; operators planned |
| encodings (`jcs.rs`, `crypto.rs`, `signed.rs`, `payload.rs`, `envelope.rs`) | none | canonical JSON, signatures, schema | bytes | - | not: a hash is an identity, a bad encoding a `flaw` |
| gate queue (`gatequeue.rs`, `notify.rs`, the gate routes of `http.rs` and `console.rs`, queue tables of `store.rs`) | queued requests and when each was received, argument values, pings sent, decisions, the argument-mismatch records | park, count, decide over two routes, ping, erase values | duplicates at the cap, retries and restarts, an answer on its way while another is recorded, values written after a sweep | the cap holds for any number of callers, a question is put once and answered once, by somebody else | `GateQueue`, `ApprovalQueue`, `GateQueueProofs` |
| checkpointer and retention (`checkpoint.rs`, two routes of `http.rs`) | heads and ranges read outside the transaction, the instant a sweep is as of | attest every stream, one stream, sweep what has expired | the checkpoint stream moves between a read and the append; envelopes arrive between a listing and its sweep | nothing is erased before it is attested; everything is attested and everything expired erased in the end | `Checkpointer`, `CheckpointerProofs`; the rows in `KernelStore` |
| start-up (`lib.rs`, `migrate.rs`, `clock.rs`, `config.rs`, `Store::connect`) | schema and its stamp, declarations of an advanced clock, roots | migrate, re-verify, rewind, declare, seed, serve | kills between any two, several builds and clocks over one file | the stamp claims no step the file has not had; no undeclared clock is served; declared time does not go back | `KernelStartup`, `KernelStartupProofs` |
| operator commands (`main.rs`, `operator.rs`) | files on an operator's desk, an answer, a head | draft, sign, request, park, answer, publish | files edited and other operators publishing meanwhile; lost answers and reruns | what is recorded is what was approved, once | `OperatorCeremony`, `OperatorCeremonyProofs` (grants, revocations, exports and anchors are left) |
| policy, budget, manifest, genesis | policy and manifest rows, spend | publish, classify, charge, register, bootstrap | stale policy or spend, pre-policy state | see ingest | within `KernelIngest`; rule matching planned |
| conformance harness (`conformance.rs`, `harness.rs`, `driver.rs`; the component's side in `gateway/.../conformance.py`) | the steps still to take, the groups' outcomes, the lines in the pipe, a throwaway kernel's stream, the component's own count of its positions | ask, read an answer or give up on it, submit, settle, move the clock, replay a durable object | an answer that comes after its deadline; refusals that must not move the chain; departures that cancel out | green is earned, whoever conforms is green, every run ends | `Conformance` |
| HTTP and console | none that decides | route, render | I/O | - | the routes that write are part of the components they write to |
| gateway enforcement (`enforce.py` and the modules it calls) | intents, parks, collected approvals, folded windows | call, recover, requeue, seed, consume | a crash between effect and record, several processes over one file | every effect leads to one envelope, no approval is consumed twice | planned next |
| gateway chain and delivery (`store.py`, `emitter.py`, `kernel_client.py`) | the chain, pushed marks, wedges | append next, push, mark, wedge, clear | lost and late answers, refusals, resumes | what the kernel holds is a prefix of the chain; what reads as delivered is held; a refusal holds back its own stream and no other | `GatewayDelivery`, `GatewayDeliveryProofs` (read aggregation, grace counting and the tables of enforcement are left) |
| gateway session, proxy, bundles (`runtime.py`, `proxy.py`, `bundle.py`, `sync.py`, ...) | sessions, cached policy | open, forward, load | start-up order | - | bundles and sync planned |

How they interact: the gateway calls `POST /v1/ingest`, which is
`Ingest::submit`; the console and the checkpointer write through
`append_as_kernel`, which ends in the same append transaction. Handlers share
nothing but the database, and all that is atomic is one `BEGIN IMMEDIATE`
transaction of `store.rs`.

## Modules

* `AuditLog` - the abstract specification of what the store promises: streams
  that only grow past their end, positions passed over only after a refusal,
  approvals that single-use entries share with nobody.
* `KernelStore` - the store. One action per write transaction: `AppendPlan`
  (with every projection it writes), `RecordRejection`, `DecayPayloads`,
  `RebuildSpend`. The tables are its variables. A transaction that fails is
  not a step; `RefusalCode` is what its caller is told.
  `ImplementsAuditLog` is the refinement of `AuditLog`.
* `KernelIngest` - extends `KernelStore` with request handlers. A handler's
  record keeps the policy, root set, approvers and flag it has read so far,
  and each action is one read of the database with the judgement made on it,
  in the code's order; then one append, one refusal record, or one outage.
  Which `Env[e]` fields decide what is the data; hashes, signatures and schema
  are one field `flaw`.
* `GatewayDelivery` - extends `KernelStore` with the gateway's file and the
  threads that push it. `chain`, `pushed`, `faulted` and `wedge` are the
  tables `envelopes` (its rows, `pushed_at`, `push_error`) and `wedges`; a
  pusher's record is where `push_pending` stands, the row it is at, the rows
  left of those it took up, and whether it read a wedge. One action per SQL statement and one per request sent or
  answer received, because several processes push the same file. The kernel
  judges a submission in one step: it appends what `AppendPlan` allows, or
  refuses what `AppendPlan` does not allow or what is in `Doubtful`, a set
  standing for everything ingest may find missing.
* `ApprovalQueue` - the abstract specification of the pending queue: questions
  that stay as they were asked, values shown beside them from the first asking
  or never, at most one answer each, and only a fitting one.
* `GateQueue` - the queue. A handler's record says where its call stands; each
  action is one statement or one transaction of `post_gate_request`, of the
  console's decide route, or of ingest's `validate_gate_decision`, since two
  calls interleave between any two of them. `Insert` is the transaction of
  `queue_gate_request` with its repeated count; `Commit` the one that records
  an answer, which the console reaches through `append_as_kernel` and an emitter
  through `POST /v1/ingest`. `Notify` is the spawned ping, `Sweep` the erasure of
  the decay loop, `Restart` the loss of everything not in the database.
* `KernelStartup` - how a process comes to serve a store. A process's record
  says how far `Kernel::open` has come and what it has read; each action is one
  read or one transaction, since a start may be killed after any of them and
  another may run beside it. Of the schema only the version matters: `schema`
  is the last step the file has had and `stamp` is what it says of itself.
* `Checkpointer` - the two loops of a serving kernel and the two routes that
  run the same code. A task's record is where it stands in `emit_all` or
  `decay_with_checkpoints`, the streams left to it, and, of each of its three
  reads of the checkpoint stream, whether that stream has been appended to
  since: that, and not the positions themselves, is what decides whether its
  checkpoint is refused. It is kept in this relative form because the
  checkpoint stream grows with every checkpoint.
* `OperatorCeremony` - the commands an operator gives to change what the root
  set must approve, over files that may be edited between two commands. One
  action per command that only prepares something; a publishing command is
  the steps fetch the decision, read the head, send, hear the answer. `wire`
  holds what was sent and is not judged, which may be judged after its sender
  has given up and been run again.
* `Conformance` - the certification of a component. `todo` is `Script`, the
  steps of `harness::run` in order, and `mode` says what the harness is about
  with the one in hand: nothing yet, waiting for an answer, or putting what
  came back to ingest. The pipe is two queues, because a line has no name on
  it: `Timeout` leaves in it whatever answers later. The component's record is
  its next position, what precedes it, and a number per envelope signed, which
  stands for its id; `Answer` is what `conformance.py` answers, `Depart` any of
  the ways a component may get a request wrong that some group is there to
  notice. `Verdict` is what the throwaway kernel's ingest says, in the order it
  says it, under the baseline policy and with no manifest registered.
* `KernelStoreProofs`, `GatewayDeliveryProofs`, `GateQueueProofs`,
  `KernelStartupProofs`, `KernelIngestProofs`, `CheckpointerProofs`,
  `OperatorCeremonyProofs`, `ConformanceProofs` - theorems about the modules
  they are named for.
* `MCKernelStore`, `MCKernelIngest`, `MCGatewayDelivery`, `MCGateQueue`,
  `MCKernelStartup`, `MCCheckpointer`, `MCOperatorCeremony`, `MCConformance` -
  small deployments
  for TLC. A case of
  `MCKernelIngest` is the ceremony's two envelopes and a handful that contend
  with one another; which envelopes are offered is chosen at the start.

An envelope is named by its id, a member of `DOMAIN Env`, and `Env[e]` is what
it says. `raw` is the hash of the request body that carried it: the two are
different hashes of different bytes in the code, and a bridge names the second.
The operators marked `Mutant:` are plausible slips in the definition that
follows them; they appear in no specification and are there to show that the
properties notice.

## Runs

| run | cfg | what it shows |
|---|---|---|
| store | `MCKernelStore.cfg` | every property of `KernelStore`, and the refinement, with every plan offered in every state |
| ingest | `MCKernelIngest.cfg` | five cases, one chosen at the start: two effects of two streams under one approval with policies that change between their reads and a resume reported as denied; a component registered after a green run or a denied one; a root enrolled, another retired, one approving itself; grants, revocations and cognition under a delegated mandate; two decisions over one request, and a first policy that reports it was not applied; a checkpoint, a signal contending for a stream |
| resubmitted | `MCKernelIngestIdempotent.cfg` | **violated**: `HeldIsNotRefused` |
| gate_queue | `MCGateQueue.cfg` | two handlers, three calls out of parking, retrying, mismatching and answering, over both routes, with a cap of one per window, an expiry inside the run, two policy versions and restarts |
| startup | `MCKernelStartup.cfg` | two processes, each started over and over with one of several builds, clocks and root lists; starts overlap, are killed and are refused, the chain breaks, roots are enrolled and retired |
| checkpointer | `MCCheckpointer.cfg` | both loops and a client of the routes over two streams that commit to one payload; a query may fail, a client may go, the kernel may restart |
| maintenance | `MCCheckpointerLoops.cfg` | the two loops, with one stream committing to the payload again and for longer: liveness |
| ceremony | `MCOperatorCeremony.cfg` | one operator changes policy, another anything else, while a file is edited, others append, answers are lost and a command is run again |
| conformance | `MCConformance.cfg` | a component with a read and a gated action, one with a read only, and one whose names the baseline policy does not know, each departing from the protocol at up to two requests and answering as late as it likes, over tables of durable objects with one entry, two, or two of one name |
| delivery | `MCGatewayDelivery.cfg` | two pushers over one file, one of which may be killed, two calls competing for a position, answers lost, requests judged late, a resume: what reads as delivered is held and in order, and every row is answered unless its stream is wedged |
| held_back | `MCGatewayDeliveryHeld.cfg` | one pusher and two streams: a refusal closes one row, the rows behind it stay for the resume, and the stream beside it is delivered |
| stranded | `MCGatewayDeliveryResumed.cfg` | **violated**: `ResumedIsDelivered` |

Bounds. `MCKernelStore` has three streams, so that an approval can be carried
by two of them and a resume on a third can name a position of each; a position
contested by three envelopes; a bridge after an envelope and a bridge at the
very start; `MaxRejections` = 2, so that a position can be refused twice with
different bytes. `MCKernelIngest` has two handlers: every property relates at
most two submissions in flight. A third would only repeat one of the two,
because a handler keeps nothing between submissions; handlers are symmetric.
`MaxRejections` is 1 there, because only the latest rejection of a position is
ever read. Instants are 0..3: before, at, within and after a validity window.
`MCGateQueue` has one agent with a cap of one request per window, so that its
second request is the one over the cap; `Calls` = 3 takes up a request, its
retry and an answer, or two requests and an answer, or two answers, in two
handlers; instants 0..2 are before, at and after the first request's expiry and
one window apart; `CoreLimit` = 1 lets the head move once under an answer.
`MCGatewayDelivery` gives two pushers one stream, which is all that
two threads contend for, and one pusher two streams, which is all that one
stream can take from another; the chain is at most three rows, so that there is
a row behind the one behind the refused one. `PushLimit` is 64 as in the code,
more than the rows there are.
`MCKernelStartup` has two processes because every hazard of a start is about
one other start; its configurations are a build of the first schema step and
one of the second, an unmoved and a moved clock; declarations are bounded by
`MaxDeclared`, beyond which a start that would declare waits, and the host's
clock by `LastInstant`. `MCCheckpointer` gives each of its tasks one round at
a time, one call to a route and one fault: two tasks in one round each are what
one checkpoint can spoil for another. `MCOperatorCeremony` has two requests,
three runs of a publishing command, one file edit, one envelope of somebody
else, and `Attempts` = 3 in place of 4, so that a command can lose the head
twice and still end.
`MCConformance` lets a component depart twice (`MaxFaults`; a late answer is
not counted), because two departures can cancel out where one is noticed: a
reply to another request read as this one's, a position skipped and another
left. A ceiling of one call makes two the first count above it.
The deadlock check is switched off for `conformance` alone: the command ends.
Elsewhere an idle handler can always take an envelope up again, a sweep is
always possible, and an idle pusher can start a pass.

The two violations are disagreements between the code and what the
repository says of it; `PROJECT.json` quotes both sides.

* `resubmitted` - of two concurrent submissions of the same policy change both
  pass the idempotency check, one commits, and the other is then refused
  `policy-version-reused` by the version lookup at ingest.rs:1175. The comment
  at ingest.rs:890-899 describes this race for approvals.
* `stranded` - the bridge of a resume is the hash of the refused request body
  (`store.rs`, the rejection row) and the row chained behind the refused one
  names the refused envelope's id, another hash of other bytes. The kernel asks
  of the next row that its `prev-hash` be the bridge, so the chain built
  while the stream was wedged is refused after the resume as it was before.

Other disagreements were met that could each only be stated as a property that
fails, and are checked by none: the budget compared outside the transaction
that charges it; a resumed position that may still be filled by the bytes once
refused there (store.rs:2437); the genesis branch that does not read the
outcome; a full batch of held-back rows; a retry counted against its own cap
(store.rs:1100); a kernel killed between a refused migration and its rewind; a
verifier that calls a resumed stream broken; a root set seeded again once it is
empty (lib.rs:191); two drafts of one policy, of which the second takes back
the first (main.rs:996); a record of calls counted once per submission
(conformance.rs:744); a throwaway kernel to which the component's manifest is
unknown (harness.rs:209), for which `ConformantIsGreen` makes its exception, as
it does for a manifest that declares a gated action twice, whose two samples ask
for one approval.

`HeldBehindRefusal` is checked with one pusher because with two it does not
hold of the code: `mark_pushed` and `record_wedge` are two statements, and a
second thread, or a crash between them, sees a closed row and no wedge, and
closes the next row too. `delivery` keeps both cases and checks what survives
them.

Fairness. Of the kernel one thing is assumed to go on: the decay loop
(`run_decay_interval`), which sweeps on a timer for as long as the process
lives; `ExpiredAreErased` rests on `WF_vars(Sweep)` and on nothing else.
`Checkpointer`, which models that loop step by step, assumes weak fairness of
the steps of the two loops: `serve` spawns both, and the runtime polls them as
long as the process lives. Nothing is assumed of a client, nor that envelopes
arrive; that a loop is not refused for ever follows from the bound on the
envelopes and calls, and would not of a kernel on which others append faster
than a checkpoint is made. A submission ends when its handler does, and no other liveness is claimed. The gateway's liveness rests on
`DeliveryFairness`: weak fairness of a pusher's own steps, because the push
thread of a living process starts a pass every `push_interval` and nothing in a
pass waits; and strong fairness, row by row, of the kernel's answer, because an
answer may be lost any number of times but a row offered for ever is judged in
the end. That second assumption is the environment's: a row the kernel cannot
judge at all ends every pass that reaches it (`GiveUp`), and would hold up
every stream after it. `Operate` is weakly fair so that a resume is
eventually published; `OthersAreDelivered` and `AnsweredOrWedged` do not need
it, `ResumedIsDelivered` fails with it. Nothing is assumed of a `Mortal` pusher.
`Conformance` assumes weak fairness of the harness's own steps, which run in
the foreground of one command, and nothing of the component or of the store:
`RunConcludes` rests on the deadline of `driver.rs`, and fails if only requests
that were read had one.

One more behaviour is worth a reader's attention, though nothing in the
repository speaks against it: of the first policy change ingest does not read
the outcome (ingest.rs:614), so that one which says it was denied is published
under the root's approval all the same. `PrivilegedRowsAreApproved` makes that
exception by name, and the run `ingest` offers such an envelope.

## Proofs

`KernelStoreProofs` proves, for any streams, envelopes, mandates, instants and
bounds, under `StoreAssumption` (types of what an envelope says: sequence
numbers and dates are naturals, a stream kind is present, a request body's
hash is no envelope's id):

* `StoreTyped` - `TypeOK`;
* `Positions`, `Linked` - `OnePerPosition` and `ChainLinked`. Both rest on
  `PastTheHead`: each of the three ways `PositionOk` accepts an envelope puts
  it strictly past everything in its stream. That is also why a bridged
  position stays empty once something stands past it;
* `ApprovalsUsedOnce` - `SingleUse`. It is not inductive: a transaction sees
  only the use row, written by the first spender. The strengthening
  `UsesRecorded` says of every envelope that used an approval that the row
  agrees with it on whether the approval is single-use;
* `BridgesNameRefusals` - `BridgeNamesRefusal`, from the check made in the
  transaction and the rejections being append-only;
* `HeadsCached`, `CheckpointsAreContiguous`, `RetentionKeeps`;
* `SpendIsReplay` - `SpendIsFold`. The table adds one cost at a time and the
  fold takes the costs in an order of its own choosing, so the proof is that a
  sum over a set does not depend on the order: `SumWithout` and `SumWith` say
  that any element may be taken out or put in last. Both go by induction over
  the subsets of a finite set. The library's induction theorems take an
  operator and cannot be used; `SubsetInduction` states the same of a set of
  subsets and follows from the well-foundedness of the subset ordering. That
  the fold's recursive function exists at all (`SumsExist`) is proved the same
  way;
* `StoreImplementsAuditLog` - the refinement, from `UsesRecorded` and
  `BridgeNamesRefusal`: an append is one `Record` at the end of the stream or
  one refused position past it, a rejection one `Refuse`, and anything else a
  stutter.

`KernelIngestProofs` proves, for any handlers,
envelopes, mandates, policies and root sets, every invariant the run `ingest`
checks, under `StoreAssumption` and `IngestAssumption` (what an envelope says
is of the type its schema gives it: only effects have actions, only privileged
ones write the rows of `RootTags`; a flaw is some other refusal than a replay;
instants are naturals below `Never`; equal request bodies are one envelope):

* `IngestTyped` - `IngestTypeOK`, from `Handling`, which types what a handler
  keeps and the versions the store publishes;
* `IngestKeepsStore` - every step of every handler is a step of the store or
  leaves it alone, so that the theorems above hold of the pipeline; with
  `StoreImplementsAuditLog` this gives `IngestImplementsAuditLog`;
* `ReplaysNameAnother` - `ReplayNamesAnother`. `UsesSpent` says that the
  envelope a use row names is held and spent that approval, and `Replaying`
  says of a handler about to refuse a replay that another held envelope spent
  it, which stays true however long it takes to write the refusal;
* `ActsAreMandated` - `ActsUnderMandate`. `Sanctioned` says of a handler past
  the mandate check that the chain it walked is held; mandates are only added,
  so that the chain is still there at the append. Revocations may have been
  added too, which is why the property does not speak of them;
* `RowsAreApproved`, `RegistrationsRanGreen`, `EffectsAreShown` -
  `PrivilegedRowsAreApproved`, `RegisteredRanGreen`, `NoSilentEffect`, from
  one invariant, `Ledger`. Its part about each handler, `Vetted`, says stage
  by stage what is settled: the version read was published, the keys read are
  enrolled, the run the documents name is held, a forbidden or denied effect is
  flagged, a gated one approved. Each stays true under what others write,
  because versions, envelopes and enrolments are never undone. Without
  `ApprovedActs`, which says of every privileged effect held and applied that a
  root approved it, a registration's run would be known to be green but not
  approved.

`GatewayDeliveryProofs` proves, for any pushers, streams, rows, batch size and
refusals, under `DeliveryAssumption` (the gateway's streams are finitely many,
none of them the kernel's own) and `StoreAssumption`, and without any fairness:

* `DeliveryTyped` - `DeliveryTypeOK`, from `Filed`, which adds that a row of a
  chain stands at its own stream and position (`ChainPlaced`);
* `DeliveryKeepsStore` - every step of the composition is a step of the store
  or leaves it alone, so that all theorems above hold of it; with
  `StoreImplementsAuditLog` this gives `DeliveryImplementsAuditLog`;
* `DeliveredIsHeld` - `AcceptedIsHeld`. The invariant needs `AnswersTrue`: a
  pusher that has been told *accepted* is at a row the kernel holds, and stays
  right because the log only grows, however long it takes to mark the row;
* `HeldInChainOrder` - `HeldIsPrefix`. `NoGap` goes through the three ways
  `PositionOk` accepts a row: in each the row goes in behind the last one held,
  or behind one position past it that a root resumed;
* `RefusalHoldsBack` - `HeldBehindRefusal`, on the condition `Alone`: one
  pusher, and not one that is killed. `ClosedInOrder` says that what is closed,
  and what a pass has taken up beside it, is with every row also every row
  ahead of it in its stream; it rests on `FirstInOrder`, that a batch cut off by
  `LIMIT` leaves out no row ahead of one it takes, whatever the limit. `Wedged`
  says that a stream has at most one row closed by a refusal past what the
  kernel holds, and then a wedge, or a pusher about to record it; `Informed`,
  that what the pusher read of the wedge when it offered its row is still so
  when it closes it. It is `Informed` that a second pusher falsifies, and
  `Wedged` that a death between `mark_pushed` and `record_wedge` does.

`GateQueueProofs` proves, for any handlers, requests, answers, policies, caps
and bounds, under `QueueAssumption` (finitely many requests; dates are
integers; flaws are not success codes):

* `QueueTyped`, `CapHolds`, `PingsOnce`, `AnsweredByAnotherHolds`,
  `RepliesHold`, `QueueImplements`, all from one inductive invariant,
  `QueueInv`. Its parts about the tables: `Belongs`, `DueIsUnpinged` (a running
  ping is for a request nobody was pinged for) and `AnswersFit`; its part about
  each handler, `CallOk`, says what the reads so far still guarantee: a request
  seen queued stays queued, a judged answer stays fitting, a clock reading is
  never ahead. `CapHolds` argues about the last instant of a window: the row
  put in there was counted with all others in the same transaction.

`KernelStartupProofs` proves, for any processes, configurations, roots and
bounds, under `StartupAssumption` (versions, advances and instants are
naturals):

* `StartupTyped` - `StartupTypeOK`;
* `StampTrue` - `StampIsTrue`. The strengthening says of every process that
  has read a stamp to go back to that the file has had the steps it claims;
* `AdvanceDeclaredHolds` - `AdvanceDeclared`, from declarations being only
  appended and a process keeping the instant it checked;
* `ClockRatchetsHolds` - `ClockRatchets`. The strengthening says that, without
  an overlap, a process between its check and its declaration is alone, and
  ahead of every declaration.

`CheckpointerProofs` proves, for any streams, envelopes, payloads, tasks and
duties, under `CheckpointerAssumption` (finitely many streams, in some order;
an envelope retains its payload until some natural instant):

* `CheckpointerTyped` - `CheckpointerTypeOK`;
* `ErasureFollowsAttestation` - `DecayedWasAttested`, an action property.
  `Owed(now)` is what still has to be attested before a run as of `now` may
  erase what it carries. `Covers`, a part of the invariant `Sound` of each
  task, says that all of it is in streams the run has yet to do, and in the
  stream in hand not past the head it read. It holds from the listing on,
  because what an affected stream is follows from the same instant as what the
  sweep erases, and survives whatever others attest, append or erase: an
  envelope that arrives later with its retention over is in `late`, and an
  erased payload may come back only with such an envelope or one that retains
  it. `ListedIsSet`, that the listing has the streams it should, is an
  induction over the order of the streams (`NaturalInduction`, again a
  statement about a set).

`OperatorCeremonyProofs` proves, for any operators, duties, versions, attempts
and bounds, from one inductive invariant, `CeremonyInv`:

* `CeremonyTyped` - `CeremonyTypeOK`;
* `RecordsAreAsApproved` - `RecordedAsApproved`. `SentIsApproved` says that
  whatever is on the wire, or in the hands of a command past its decision, was
  answered *approve*, and stays so because an answer is not taken back; a
  request is never edited once it is parked, so that what is judged late is
  still what was approved;
* `LosesOnlyRaces` - `OvertakenEachTime`. `AttemptsAccounted` counts: the head
  an attempt is made on lies at least as many envelopes past the one the
  command began with as the command has lost attempts.

`ConformanceProofs` proves, for any manifests, policies, tables of durable
objects and number of departures, under `ConformanceAssumption` (a manifest is
a sequence of actions, read or consequential, with a sample size; a table's
entries have signers; no state, group or approval is `None`; and the policy is
the baseline profile in so far as it knows `get` as a read):

* `RunsAreEarned` - `GreenIsEarned`. Nothing can be said of a run that has
  failed a group: from a timeout on, every answer may be that of an earlier
  request. So the invariant, `ConformanceInv`, has a part that holds whatever
  happens and one for a run that is `Clean`. The first says what the component
  can at all answer (`Answers`: whatever it departs in, a sample is signed when
  it was asked for, and no approval comes with what was not applied), what the
  kernel took (`Authorized`), that a group that failed has no step ahead
  (`Judged`), and that the script asks for no sample once the clock has moved
  (`InOrder`), all of which `ScriptIs` shows of the script itself, part after
  part, for a manifest of any length. The second says that exactly one line is
  in the pipe while an answer is awaited and none otherwise (`InStep`), and
  that a step that is no longer ahead has left behind what it was there for
  (`LeftBehind`). That a table tried in one state decides every state is
  `PassedTableDecides`. That `OfClass` lists the actions of a class is an
  induction over the manifest, again over a set of naturals.

* `ConformantPasses` - `ConformantIsGreen`. Here the component departs in
  nothing (`Faithful`), and the invariant, `OnCourse`, says on top of
  `ConformanceInv` where it and the kernel stand. Of the submissions in hand
  some are to land and at most one is to be refused (`Landing`); those to land
  do so one by one on the log as it is (`Lands`: positions, links, classes,
  approvals unused), and the component stands behind the last of them
  (`Stands`), which is what it must get right over seven refusals
  (`Lockstep`). `Presented` says what is in hand in each case, and that the
  one to be refused is refused for the reason its case names (`Refusable`);
  `Gathering` and `Prepared`, what the steps behind have left for those ahead:
  a sample of every action gathered, the approval of the replay unused until
  the replay, the first refused envelope kept for the last case. The samples
  need a gated action declared no more than once, the attempts one to try
  (`Conformed`), and the classes must be those of the throwaway kernel's own
  policy (`AsThePolicySays`). `AggregateLands`, `QueueLands`, `ReplayIsRefused`
  and their like say of each request what answers it; `VerdictSound` and
  `VerdictRefused`, what ingest makes of the two kinds.

Model-checked only: the liveness properties `ExpiredAreErased`,
`AnsweredOrWedged`, `OthersAreDelivered`, `EveryoneIsAttested`,
`ExpiredIsErased` and `RunConcludes`, which rest on fairness and are out of the
prover's reach. Every invariant and every action property of a passing run is
proved.

## Not modelled

Byte-level encodings, signatures and schema checks (one `flaw` per envelope);
several budget dimensions (one sum); rule matching in policies (a table from
actions to decisions); delegation depth and scope patterns (a set of actions
per mandate); the contents of payloads. Commitment transitions, triggers and
aggregate windows are not among the envelopes offered to `KernelIngest`; the
aggregates of `Conformance` carry a count and the size of their sample. Two
conformance runs are not compared: what a component signs is determined by its
position in the model, so that nothing could differ.

## Plan

1. `GatewayDelivery`, continued: read aggregation, whose window is one row of
   the chain; the grace period.
2. `GatewayEffects`: write-ahead intents, effects, crashes, recovery by another
   process, consumption of approvals; one envelope per effect.
3. `Commitment`: transitions judged on a stale fold, in stream order.
4. Operators checked against references: `MandateWalk` (narrowing, scope,
   depth, revocation propagation), `GateSteps`, `PolicyRules`, `Decimal`,
   `VerifyChain` against `KernelStore`'s log.
5. Revocation and root retirement against effects in flight.

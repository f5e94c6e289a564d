# Worklode in TLA+

Specifications, model-checking configurations and machine-checked proofs of the
parts of Worklode (`src/`) whose correctness depends on the order in which
concurrent transactions, replicas and webhooks act. Paths below are relative to
`src/`.

Worklode is a work tracker for people and coding agents. Everything it knows is
in Postgres; the server keeps no authoritative state in memory and may run as
several replicas. A mutation is one transaction, at READ COMMITTED, that records
an event and applies the change (`store.RecordEvent`). What can go wrong is
therefore what several transactions, each correct alone, do to one another; how
the event log keeps its order for readers; and what a replica that stops between
two transactions leaves behind. The models are about that.

## 1. The system

| Part | State it keeps | Operations | Interacts with | What makes it correct |
|---|---|---|---|---|
| Event log, `internal/store/events.go`, `internal/eventbus/loop.go` | `events`, `event_subscribers`, an advisory lock per subscriber | RecordEvent, RecordEventWithID, RecordEventThenApply; Run: lock, reset, read, handle, ack, rewind; seek | called by every mutation; handlers call the store | an external id is applied once; a reader misses no event; events are acknowledged only when handled; the stream never wedges |
| Tasks and leases, `leases.go`, `tasks.go`, `assign.go`, `softdelete.go`, `agent_sessions.go`, `sweeper.go`, `api/lifecycle.go`, `api/tasks.go` | `tasks`, `leases`, `agent_sessions`, task tokens | claim, renew, rebind, release, the sweep, session heartbeats; done, complete, abandon, reopen, PATCH, start, stop, assign, delete, undelete | webhooks and delivery move tasks; the sweeper closes leases | one lease per task; legal moves only; no session or hidden row under a closed lease; quiet leases end |
| Hierarchy, `hierarchy.go`, `hierarchy_resolve.go` | `task_edges` of type childOf, parents' states | AddEdge, RemoveEdge, Decompose; the roll-up every transition calls | claims, delivery, deletion | childOf is a shallow forest; a parent's state follows its children; drafts are not published by accident |
| Delivery, `delivery.go`, `delivery_resolve.go`, `localmerge.go` | commits of the default branch, cherry-picks, attribution, pull requests, deploy and release watermarks | ResolveDelivery, RecordLocalMerge | ingest, tasks | a task's state is the one its facts support, and goes forward only |
| Ingest, `hooks/*.go`, `store/reconcile.go`, `reconcile/poll.go`, `api/reconcile.go` | `events.applied_at` | apply a delivery, replay the unapplied, poll GitHub | tasks, delivery, approvals | an applied event has left its facts; every delivery is applied in the end; what GitHub never sent is found |
| Projector, `projector/projector.go`, `store/projection.go` | a watermark over transaction ids, quarantined projects | RunOnce | reads `state_log`, writes the graph server | no committed change is passed over; a project that fails holds up no other |
| Specs and rules, `rules.go`, `versions.go`, `rulestandalone.go`, `rulearrange.go`, `docs.go`, `docrevisions.go` | `rules`, `rule_versions`, `doc_rules`, `docs`, `doc_versions`, candidate revisions | save a draft, edit a rule, arrange, accept a spec or a rule, revise, land or discard a candidate | the specs that share a rule | what was accepted stays readable; an accepted rule reaches every spec; no spec goes back |
| Plans and grooming, `planlifecycle.go`, `docgroom.go`, `watcher/*.go` | plan status | withdraw, settle, groom | event subscribers, sweeper tick | a finished plan settles once |
| Approvals, `approvals.go`, `approval_rules.go` | one row per entity, revision and lane | request, file by hand, decide, reopen, designate a revision | webhooks, web pages, the API, document acceptance | a decision binds what was seen and stays; one open row for what webhooks ask; no document is accepted without its reviewers |
| Reviews, `reviews.go`, `reviewrounds.go`, `reviewthreads.go` | reviews, rounds, threads | open, submit a round, open and resolve a thread, close | approvals, tasks (in_review), documents | a round and its lane agree; what is closed stays closed |
| Body locks, `bodylocks.go` | lock sessions | take, check in, release, unlock, sweep, check a save | document and task writes | one holder; a save needs a live session and an unchanged body; no lock outlives its sessions |
| Crew and tokens, `participants.go`, `actors.go` | participants, tokens | add, remove, mint, revoke | assignment, leases | no open work for a removed member |
| The rest | derived rows, files, identities | references, search index, blobs, statistics, sign-in, secrets, skills, MCP, the `lode` command and its agent hooks, web pages | the API | no protocol of their own: pure functions, pure I/O, or one transaction |

`PROJECT.json` lists every part with its status and its reason, and under
`hazards` the places where a test hardly reaches what can go wrong.

Behaviours that make the system hard, and where they are modelled:

- a position in the log is drawn before the event is visible, and ids and
  transaction ids are drawn separately (EventLog);
- duplicate deliveries of one event, in doubt until the first commits (EventLog);
- a subscriber's replica dies, stands by, loses its lock, or is sought to
  another position while it works (EventLog);
- a state is read without a lock and written later (TaskLease, Hierarchy);
- a lease's row and a task's row are locked in opposite orders, and Postgres
  aborts one of the two (TaskLease);
- sweeps race with releases, renewals, finishes and each other (TaskLease);
- sibling tasks move at once, and each transaction sees the other's old state
  (Hierarchy);
- webhooks come late, twice, out of order or not at all, and a process stops
  between recording one and applying it (Ingest);
- transactions commit out of the order of their ids, and a graph server fails for
  one project for ever (Projector);
- a subquery sees what had committed and its DELETE waits and goes on (BodyLocks);
- one text is shared by several documents, each of which may be written or
  accepted while the others are moved (RuleText);
- an approval row is read by a webhook and written by its id, beside people who
  decide it from a page they loaded earlier, and others who file a second one
  (PullApproval);
- a text is guarded by one row's lock and rendered from rows that others write
  (BodyLocks);
- a document is accepted under its own lock while its lanes are decided under theirs
  and its review under a third (DocReview).

## 2. Modules

| Module | Models | Lines of |
|---|---|---|
| `EventLog` | writers, the commit horizon, the durable subscription loop | `events.go`, `loop.go`, and the writer of `planlifecycle.go` that locks before it records |
| `TaskLease` | tasks without children, their leases and sessions, the sweeper | `leases.go`, `tasks.go`, `assign.go`, `softdelete.go`, `agent_sessions.go`, `reviews.go`, `delivery_resolve.go`, `api/lifecycle.go`, `hooks/github.go` |
| `Hierarchy` | childOf edges, the roll-up, and transitions of tasks with parents | `hierarchy.go`, `hierarchy_resolve.go`, `tasks.go` |
| `LeaseService` | abstract: offers, grants and their ends; TaskLease implements it | |
| `Delivery` | the delivery facts as a record that only grows, and ResolveDelivery as an operator on it | `delivery.go`, `delivery_resolve.go` |
| `Ingest` | extends Delivery: webhooks, replay, poll and people acting on the facts and the tasks of one repository | `hooks/*.go`, `events.go`, `store/reconcile.go`, `reconcile/poll.go`, `api/reconcile.go`, `localmerge.go` |
| `Projector` | the writers of `state_log`, DirtyProjects, RunOnce, the quarantine | `projection.go`, `projector.go`, `graphserver/client.go`, `serverapp.go` |
| `BodyLocks` | one body, its editor's tabs, the servers and the sweep that end sessions, the saves | `bodylocks.go`, `api/bodylocks.go`, `api/locksweep.go`, and `rules.go` as the other writer of the text |
| `RuleText` | specs, the rules they share, candidate revisions, acceptance | `rules.go`, `versions.go`, `rulestandalone.go`, `rulearrange.go`, `docs.go`, `docrevisions.go` |
| `PullApproval` | the approval rows of one pull request: webhooks, GitHub reviews, decisions made here, requirements filed by hand | `hooks/github.go`, `approvals.go`, `approval_rules.go`, `changes.go`, `api/web.go`, `api/approvals.go` |
| `DocReview` | a document's roster, lanes, review and patched marks, from its draft to its amendments | `docs.go`, `docpatch.go`, `docrevisions.go`, `approvals.go`, `reviews.go`, `reviewrounds.go`, `reviewthreads.go`, `review/rules.go`, `api/docs.go`, `api/docwatch.go`, `api/approvals.go` |
| `EventLogProofs`, `TaskLeaseProofs`, `HierarchyProofs`, `ProjectorProofs`, `PullApprovalProofs`, `DocReviewProofs`, `IngestProofs` | theorems about the module of that name | |
| `BodyProofs` | theorems about RuleText and BodyLocks, whose names are apart | |
| `MCEventLog`, `MCTaskLease`, `MCHierarchy`, `MCIngest`, `MCProjector`, `MCBodyLocks`, `MCRuleText`, `MCPullApproval`, `MCDocReview` | scenarios and symmetry sets for TLC | |

TaskLease and Hierarchy contain the move that delivery makes as one action each
(a task under its row's lock goes where ResolveDelivery sends it); Ingest says
where it is sent. Projector restates EventLog's horizon for transactions in
place of events: the predicate is the same line of SQL.

Names are the source's where TLA+ allows it: `ReadEventBatch`, `AckEvents`,
`ExpireLeases`, `closeLease`, `containerTarget`, `checkHierarchy`. A definition
whose name extends another's and precedes it (`DropLookOwn` before `DropLook`,
`BehindAccepted` before `Behind`) is what the code would be with a
plausible mistake; no action uses it, and `PROJECT.json` lists which property
finds it.

### Postgres, as the modules see it

A statement is atomic. A plain SELECT sees what has committed, and nothing
stops the row from changing afterwards. UPDATE and FOR UPDATE wait for the row's
holder and hold it to the end of the transaction. An INSERT under a unique index
waits for an uncommitted row with its key. A foreign key's check waits for FOR
UPDATE on the row it names, not for an ordinary UPDATE. A deadlock aborts one
transaction of the cycle. A sequence never hands out a number twice, and a
transaction has an xid from its first write on. These are the definitions the
map marks external, and the enabling conditions built from them.

### EventLog

`tx[w]` is a writer's transaction: which of its id (events_id_seq) and xid it
has drawn, the key it inserts, and, as history, the ids that had committed when
it began. The constant `Paths` says in which order a writer may draw: `idFirst`
is RecordEventWithID, whose nextval is a statement of its own, and RecordEvent,
whose defaults are evaluated in that order; `xidFirst` is a transaction that has
written before it records, like SettleFinishedPlans; `together` is the INSERT
whose nextval writes WAL and so takes the xid while it holds the sequence.
`Insert` waits for a key in doubt; `Commit` commits the row and its effects,
`Abort` burns the id.

`pc[c]` is where replica `c` of the loop stands: `acquire`, `reset`, `healthy`,
`read`, `handle`, `ack`, `rewind`, in Run's order. `Stop` is every way a round is
abandoned with its lock (a store error, a cancelled context, a crash): the loop
starts again at `acquire`. `LoseSession` takes the lock away without the loop's
knowledge, if `SessionLoss` allows it. `done`, `owed` and `floor` are history:
what was handled, what a batch returned, where the last seek went.

### TaskLease

A client's or a sweeper's transaction is a sequence of statements, and `tx[p]`
says which it has reached and which row that has locked. An unlocked read
followed by a write is two steps (`finishTask`, `applyPullRequest`, `Renew`,
`closeLease` for the task); a transaction that locks the task first and needs no
second row is one step (`updateTask`, `ResolveDelivery`, `StartTask`,
`AssignTask`); `Claim` and `DeleteTask` lock first and finish in a second step.
`Lapse` lets a lease's `expires_at` pass, `ExpireLeases` reads the candidates,
`Recheck` is the per-lease transaction up to its unlocked check. `Rollback` is any
failure, at any step; for a sweeper it ends the sweep.

Abstracted: `deployed_dev`, `deployed_prod` and `released` stand behind `merged`
(they have its successors here); the fields a PATCH writes; the checks of kinds,
blockers, crews and pull requests, which only refuse; the rows reviews,
approvals and plans keep. Task tokens are revoked by every close and read by
nothing the module contains. The sweeper's advisory lock is left out: the code
says it is an optimisation only, and the properties are checked without it.

### Hierarchy

A transaction collects the states it writes in `ov`, the transitions it has yet
to make in `stack` (a roll-up may need two, by way of ready, and each rolls the
next parent up in turn), and the tasks it creates in `kids`; `Commit` publishes
them. `Write` is one Transition and the roll-up it calls. The reads of a roll-up
(parent and children) are one step with the write that calls it, and so is
Transition's re-read of a from-state: the lost update that this re-read does not
prevent is TaskLease's subject, and the refusal it sometimes gives is left out,
which is a rollback. DeleteTask's second call of the resolver is not repeated,
and an edge's INSERT is one step with its commit: the index and the foreign keys
are what it can wait for.

Whether a child counts as closed depends on the repositories its work landed in
(`taskClosed`, `tasks.go:1428-1476`): a merged or partly deployed one is open as long
as a repository whose done_state lies further holds a landed commit of it. `gated` is
the set of tasks that have such a commit. A delivery may put its task there
(`ResolveDelivery`), a reopening takes it out, and `FactsChange` is a commit that is
recorded, or a done_state that is set anew, without a transition, which rolls nothing
up. `released` stands for the last state of either branch of delivery, deployed_prod
or released, and a done_state is that or merged.

`leased` is the set of tasks that hold a lease. `alone` (no other transaction was
open with this one) and `raced` (an edge was added by overlapping transactions)
are history: they mark what Forest and RolledUpAlone do not claim.

### LeaseService

What the tables promise whoever hands out work: `Grant` takes an offered task and
a grant never used before, `End` ends it for good, and only a step about a task
changes its offer. TaskLease maps `offered` to the live ready tasks, `held` to
the active rows of `leases`, `spent` to the closed ones. The writes that name a
lease by its id alone (Renew, RebindLeaseWorktree, closeLease) are stutters or ends
under this map although the lease may have closed since it was read; that is what
the refinement is about.

### Delivery and Ingest

`Delivery` has the facts of one repository as a record: the id of each sha on
`main_commits`, the cherry-picks, the attribution, the pull requests, the two
signals per environment and the release watermark. Rows are inserted once and
watermarks move by `greatest()`, so a transaction's contribution is a record of
the same shape and `Join` adds it. ResolveDelivery is an operator on facts, a
task's state and the repository's done_state.

In `Ingest` a process (a webhook handler, or the reconcile command with its replay
and its poll) applies a delivery in two steps: it writes facts, under the ids the
sequence gives it, and chooses the tasks they concern; then it resolves those
tasks and commits. Between the two it holds the rows it wrote (`RowsFree`) and
nobody sees them. A GitHub delivery has been recorded in a transaction before
that, and only one whose event is marked applied is skipped when it comes again.
`Abort` is a crash, a refusal or a deadlock, at any point. The scenarios of
`MCIngest` say which deliveries a behaviour may have, of which GitHub sends any, in
any order, any number of times, once the commit they are about is there (`Land`).

Abstracted: a push carries one commit; resolving several tasks is one step with
the commit; the poll asks GitHub and writes in one go per repository; done_state
does not change; the approvals, reviews and payload patches that a pull request
also writes are left out.

### Projector

`tx[w]` is a writer's transaction with the projects whose `state_log` rows it
commits. `Start` is the three reads of RunOnce, of which DirtyProjects is one
statement: the batch of the first `Limit` transactions above the watermark, the
projects they touched, and the end of the prefix below the horizon. Then each
target is rendered and put, once as the project's own graph and once as its
documents' graphs; `doc` is the set of changes a rendering shows. `PutFails` is a
rejection, no answer, or an answer that got lost. `row` is the quarantine:
`waits` while `next_attempt_at` is ahead, `due` when it has passed (`Elapse`).
`Crash` loses the run; `Rewind` is the operator's UPDATE of the watermark.

Abstracted: the reads of one rendering are one step; back-off is waiting for an
arbitrary time; a PUT that timed out is not applied later than the next request;
one projector runs at a time, as the deployment has it outside of a rollout.

### BodyLocks

One body, its lock row and its sessions. Every transaction is its statements:
TakeLock's upsert and its session's INSERT; for a release, an unlock and the sweep
the UPDATE that ends sessions, the NOT EXISTS of the DELETE, and the DELETE with the
commit; for a save the locking read, the check of session and hash, the write. A
tab's answer may be lost; a transaction may abort at any statement. `doomed` are the
enders whose subquery has found the row without live sessions, and `raced` is
history: a session was committed between such a look and its DELETE.

The body of a spec or an ADR is rendered from the rules it arranges, and changes with
them (`RuleWrites`): EditRule rewrites a draft rule, and an acceptance moves draft specs
to a rule's new version, without the document's row. `Rendered` says whether the body
is of that kind. `slipped` is history: the tabs with a save open during which that has
happened. What their write then leaves is any text (`SavedText`): syncRules compares
each rule it finds with the save's text, rewrites those that differ, and leaves those
it compared before they moved.

### RuleText

A spec's text is `shows[d]`, the version at which it arranges each rule. A save of a
draft (`OpenSave`) and the landing of a candidate (`OpenLand`) name the text they
want, `says`; the rules whose text differs are read, without a lock, in the same
step, and written in `Write`, which waits for the rows another transaction has
written. Accepting a spec or a rule accepts drafts (`Accepting`), reads which specs
are behind, and moves them one by one: an accepted one under its row's lock with a
new version (`MoveBumped`), a draft by an UPDATE of its rows (`MoveDraft`), which
waits for an open save and then finds nothing left to update. Everything takes
effect in `Commit`; `Abort` is any failure. Arranging and unarranging a rule is a
save whose text names it or leaves it out.

Abstracted: a rule is one text; sections without a rule, anchors, depth, the
freeze of published anchors, reviewers' gates, withdrawal, supersession, references
and threads are left out; EditRule holds its rule's row from its first statement and
is one step. `crossed` and `met` are history: rules written on a reading that no
longer held, and specs that a save and an acceptance had open at once.

### PullApproval

`rows` are the approval rows of one task-correlated pull request in lane '', by id;
a row binds one head (`rev`). GitHub pushes, asks for reviews and gets reviews
(`gh`), and sends one delivery for each (`wire`), which may be applied in any order. A
pull_request delivery takes the pull request's row in UpsertPR
and reads the open approval (`BeginDelivery`); then `ApplyOpened`, `ApplyRequested`,
or the two statements of DesignateRevision (`ReadHistory`, `ApplySynchronize`). A
review delivery takes no lock: it reads the open row (`BeginReview`) and resolves it
by id (`CommitReview`). A decider opens the row's page and later posts a decision,
which is one transaction on the locked row. `RequireApproval` is POST /api/v1/approvals,
which locks nothing: it inserts a row of any revision, the empty one included, unless
there is one; `filed` says so of a row. A delivery may be taken back by a failed
statement or a crash, and delivered again (`DeliveryAborts`); a rebinding that would
meet the unique key (`KeyTaken`) has no other way out. Two fields are history: a row is `crossed`
once it has been written by id after it was decided, and the pull request is `late`
once a delivery older than the stored one has been applied to it.

Abstracted: pull requests without a task; who is asked and who may decide; the other
lanes in which a requirement may be filed, which nothing here reads; redeliveries of
what was applied, which EventLog answers; the state moves that the same deliveries
make, which are TaskLease's and Ingest's. Impact reviews are left out: nothing
but tests inserts the references they fan out over.

### DocReview

One spec or ADR. `lane[l][v]` is the state of the approval row of lane `l` at version
`v`. A transaction that can be overtaken between its reads and its commit is a Begin
and a Commit and keeps what it read: an acceptance (the gate has been asked), a patch
(`priorSections` has been read), a decision (the rows of the version have been
counted), a reviewer's or an author's round. `docTx` and `revTx` hold the document's
and the review's row, `dec` one approval's row each. A request that reads the version
before its transaction (asking for approval, the watcher's answer to a submission)
names any version the document has had; so does a requirement that is filed by hand
(`RequireApproval`), in any lane. `marks` are the versions at which the
sections still marked patched were last amended.

A decision or a round that finds every other row of its version approved clears marks,
by an UPDATE of the sections it sees: `found` is what it sees, and it holds those rows
to its commit, so that a patch waits for it before it deletes the sections
(`SectionsFree`). When the patch has deleted them first (`rebuilt`), it is the decision
that waits (`SectionsStored`), and when the patch commits it finds the rows it waited for
no more: the sections the patch has written are others (`Lose`). `raced` is history: the versions at
which two decisions were under way at once, or that were settled while a patch had
the marks in hand.

Abstracted: the body, except for the versions of its marked sections; the rounds of
a reviewer, of which review.State reads the newest at the base; threads that a round
opens, which are an OpenThread before the round; who may decide whose lane, role
lanes, task reviews, withdrawal, and the version that the acceptance of a rule gives
a spec (RuleText has it).

## 3. Runs

| Run | Instance | Checks | Shows |
|---|---|---|---|
| `EventLogSafety` | 2 writers, 2 replicas, 3 keys, ids to 3, xids to 4, seeks to 2, 2 disturbances, batches of 2; all three Paths | AppliedOnce, AckedHandled, HiddenByInversion | safety of log and loop, and what the horizon lets pass (2.1 million states) |
| `EventLogOrder` | the same with ids and xids drawn together, a lost session possible, 1 disturbance; fair | EveryEventHandled | no event is left behind where ids and xids agree (477 thousand) |
| `TaskLeaseSafety` | 1 task, 2 actors, 2 clients, 2 sweepers, 2 leases | SweptOnce, SessionsUnderLease, EndedUnleased, ClaimedFromReady | safety of claims that race, closes and sweeps (2.7 million) |
| `TaskLeaseSweep` | 2 tasks, 2 work trees, 1 client, 1 sweeper; fair | QuietLeasesEnd, ImplementsService | that quiet leases end, and the refinement (187 thousand) |
| `HierarchyRun` | 2 tasks and 1 unborn, 2 clients, in four scenes: claims, releases, pull requests, edges and decompositions that overlap; claims, edges, deliveries and new facts that overlap; manual moves, PATCH, edges, decompose, delete and undelete in turn; manual moves, reopenings, edges, decompose, deliveries and new facts in turn | OneParent, Forest, HeldNotSplit, DraftsStayDraft, RolledUpAlone | what must hold while transactions overlap, and the roll-up of those that do not (527 thousand) |
| `IngestRun` | 1 task, 3 commits, 1 handler and the reconciler; 8 scenarios; 1 crash, 1 reopening, batches of 2; fair | TypeOK, Backed, AppliedIsWhole, DeployedIsTrue, ForwardOnly, EventuallyDrained, EventuallySettled | what a state rests on, whatever order the facts came in, and that replay and poll repair what webhooks left undone (321 thousand) |
| `ProjectorRun` | 2 projects, one rejected for ever, 2 writers, xids to 3, batches of 1, 2 disturbances; fair | NothingForgotten, OthersProjected | watermark and quarantine (1.2 million) |
| `BodyLocksRun` | 3 tabs of 2 people, 1 server and the sweep, 2 sessions, 2 faults; fair | HeldByOne, NoSilentOverwrite, LockFreed | lock, sweep and saves of a text that is rendered from rules (292 thousand) |
| `RuleTextRun` | 1 rule in 2 specs, 2 clients, 3 versions of the rule, 2 of a spec | TypeOK, PublishedStands, AcceptanceReaches, NeverBack | edits and acceptance at once (2.1 million) |
| `PullApprovalRun` | 2 heads, 2 pushes, 1 request, 1 GitHub review, 1 decider, 1 requirement filed by hand; any order | KeyFreeToRebind, OneIngestedOpen, HeadBound, NoDecisionReopened, DecisionKept | webhooks, a review, decisions and a filed requirement on the same rows (4.2 million) |
| `DocReviewRun` | 3 versions, 1 review, 1 change of the roster, 2 decisions at once, both intents of threads; see below | RoundsHoldLanes, SettledClears, AcceptedIsApproved, ClosedStays | acceptance, patches and marks beside rounds and decisions (2.3 million) |
| `DocReviewMarks` | 2 reviewers, 2 versions, no review | MarksComeOff, violated | section 4 |

A module's TypeOK is a property of its run where no theorem proves it; where one does
(section 5), the run spends its time on the rest.

Why the bounds suffice. The hazards are of two actors at one row. EventLog needs
a writer that overtakes another (two writers), a third event to be read past the
gap (three ids, with a fourth xid for the writer that draws one and aborts), a
duplicate delivery (two transactions for one key), a
failover (two replicas) and a batch that breaks in its middle (batches of two).
Two disturbances cover a handler's failure followed by a crash or a seek. In
TaskLease two leases are a lease and its successor; two clients and two sweepers
are every pair the row locks tell apart, since each step contends for one task or
one lease; two tasks and two work trees appear where the indexes are at stake.
Hierarchy's cap is two edges, so three tasks are a chain at the cap, a cycle, or
two siblings and their parent. In Ingest a process that applies and one that has not yet committed are a
handler and the reconciler, whose replay applies what a second handler would; the scenarios are the pairs and triples of
deliveries that touch one row or one task, and the third commit is a cherry-pick
of the first. In Projector the rejected project's change must be in a batch
before, with or after the other's, and a third transaction must still be open
when both have been read: two writers, three xids, batches of one. BodyLocks has
the two tabs of one person that share a row, and the third that is kept out; two
sessions are one that ends and one that is taken meanwhile, and runs with three
sessions pass as well. RuleText needs a spec that is accepted and another that is
moved; the third version of the rule is the one that a candidate opened at the
first has missed twice. PullApproval needs a row that is
rebound, one that is decided and the candidate after it, and one that somebody files for
the head a push is about: two heads and two pushes, of which the second goes back. DocReview needs the version a review was opened at
and a later one, the two reviewers whose approvals settle a version, and a roster
that changes after its lanes were asked for. What the bounds cannot show, more actors and longer
histories, is what the theorems are for.

`MCHierarchy` has four scenes, instances of the module with different `Ops`. In
"together" and "landing" two clients overlap, on edges and leases and on deliveries. In
"by hand" and "reopened" a client begins only when the other is idle: RolledUpAlone
speaks only of transactions that did not overlap, and the operations that people make
by hand are many. A behaviour stays in its scene.

`MCDocReview` bounds the run by a constraint, `Bounded`, which is three instances in
one: two reviewers who may decide at once, over two versions without a review or one
with it; one reviewer and the unlaned row, in turn, with a review over two versions;
and the same over three versions without a review, nothing being asked of the first.
The third is there because a patch that amends a section has the marks of an earlier
patch in hand only at the third version. The reviewers are interchangeable.

### Fairness

EventLog: a writer that has begun goes on to its end, and each replica's loop
keeps taking steps; both are ordinary progress of a live server. Disturbances
are bounded by `MaxFaults`, which is the assumption that they cease. Nothing is
assumed of clients, handlers' errors or operators.

TaskLease: transactions go on to their end, the sweeper's ticker fires, time
passes and Postgres breaks deadlocks (weak fairness). A sweep's two locks and the
commit of a finish are strongly fair: Postgres grants row locks first come,
first served, so a waiter is not passed over for ever. QuietLeasesEnd further
assumes that transactions that close leases fail finitely often, deadlocks
aside (`FaultsCease`): ExpireLeases returns at its first error, and a lease that
fails for ever would starve those behind it.

Ingest: a process that has begun goes on to its end, a commit that GitHub has
stays, and the reconcile command is run again and again (the README of the program
asks for it to be scheduled); people, GitHub and its deliveries are not assumed to
do anything, nor is a redelivery. Crashes are bounded by `MaxFaults`.

Projector: RunOnce is called in a loop for as long as the server runs, a writer's
transaction ends, time passes for a row that waits. Failures other than those of
the rejected project are bounded.

BodyLocks: the sweep's ticker fires, transactions end, and a session that no tab
works under is left unchecked long enough to be due. Of people nothing is assumed.

IngestRun, RuleTextRun, PullApprovalRun and DocReviewRun do not check for
deadlock: a repository whose deliveries have all been handled, documents at the bound
of their versions and a pull request that was decided have nothing left to do. The
last three have no liveness: what happens there next is up to people.

## 4. Findings and known disagreements

**Patched marks outlive the last approval** (`DocReviewMarks`). Two reviewers who
approve at once each count the other's lane as open (`approvals.go:685`), and nobody
clears the marks; a patch that has read the marks before they are cleared writes
them back (`docpatch.go:125`); and a clearing that waits for a patch, which has deleted
the sections (`docs.go:939`), finds none of its rows when the patch has committed. They
stay until a later version is settled. The comment
at `approvals.go:659-662`: the marks "come off a document once its reviewers have
settled the version that carries them". SettledClears is the same property for the
versions at which none of this has happened, and holds.

The properties above carry provisos (`Paths = {"together"}` for EveryEventHandled,
`SessionLoss = FALSE`, `raced`, `slipped`, `crossed`, `filed`, `late`, `met`, `alone`,
`InGitOrder`). Each stands for a behaviour of
the code that TLC shows when the proviso is dropped, and that a comment or a
requirement says does not happen:

- `events.go:13-17`, "an id can never appear behind a position a subscriber has
  already passed": writer 1 draws id 1; writer 2 draws id 2 and xid 1 and commits;
  writer 1 has no xid yet, so the horizon lets id 2 be read; writer 1 draws xid 2
  and commits behind the read offset, unread until someone seeks. HiddenByInversion
  says that nothing else is hidden.
- `loop.go:163-164`, the health check "buys the at-least-once guarantee": a session
  lost after the check leaves the loop in its round while a standby starts its own,
  and between them they acknowledge an event whose handler failed.
- `tasks.go:322-323`, `api/lifecycle.go:257-258`, `hooks/github.go:420-421`, moves
  are legal: Transition's guard is not under a lock, and a webhook that has read
  `in_progress` writes `in_review` over a task that was abandoned in between.
- `leases.go:516-517` and `:584`, sweeps "never double-apply": a release that
  commits after the sweep's re-check is applied a second time, and the task is moved
  from under a new holder. (No lease comes back by it: ImplementsService.)
- `hierarchy_resolve.go:4-5`, "every state change rolls its parent up": siblings that
  close in overlapping transactions each see the other open, and their parent stays.
  Nor does a parent follow when a commit is recorded, or a done_state set anew, and
  a child's closedness changes with it and without a transition; that the comment at
  `hierarchy_resolve.go:135-140` says too.
- `hierarchy_resolve.go:110-111`, the parent is left where it is "rather than fail
  the child's transition": AddEdge accepts a child for a task in review; the
  roll-up's Transition of it is then refused, and with it the child's.
- `delivery_resolve.go:51-52`, "in any fact-arrival order": ids of `main_commits`
  follow the order in which pushes are applied, so a deployment of a commit whose
  push came late covers commits that come after it in git.
- `store/delivery.go:64-68`, new work must land again after a reopening: the poll
  finds the reopened task's old merged pull request, attributes its commits again
  and lands the task (`reconcile/poll.go:430`).
- `hooks/github.go:872-873`, a release "covers main's head as of this webhook's
  arrival": a replayed release takes the newest commit of the time of the replay.
- `projection.go:127-130`, a long transaction does not stall projection: with as many
  committed transactions above a held horizon as a batch holds, projects dirtied
  later are not rendered. And `README.md:485-486`, the operator's rewind: a run that
  is under way overwrites it with its own checkpoint.
- `mdblocks/testdata/corpus/WL-REQ-1868.md`, "a lock that one person holds at a
  time": the NOT EXISTS of a drop and its DELETE are not one moment; a session of
  the same person that commits between them loses its row, and another person may
  take the lock beside it. A save needs a live session and the hash all the same.
- The same requirement, a save "never overwrites silently": CheckBodySave locks the row of
  the document (`bodylocks.go:380`), and the body it hashes is rendered from rows that
  EditRule (`rules.go:359`) and moveSpecsToAcceptedRules (`versions.go:121-129`) write
  without it. A rule that moves between the hash and syncRules' reading of it is put back
  to the save's text; one that moves later stays, in a body its editor has not seen
  (`slipped`).
- `hooks/github.go:419-423`, the effects of a delivery older than the stored one "are
  order-safe on their own": two pushes whose deliveries change places leave the open
  row at the first head and no row at the second (`late`).
- `approval_rules.go:129-135`, a rebound requirement "was never decided", "the decided
  rows keep their exact revisions": DesignateRevision reads the open row and updates it
  by id (`approvals.go:1418`); a review that commits in between has decided it, and its
  verdict moves to a head nobody reviewed.
- `hooks/github.go:606-608`, a pull request with an open row "gets no second one", and
  `approvals.go:462-463`, "the key keeps at most one open row per lane in practice":
  requireApproval (`api/approvals.go:88`) inserts a row at any revision of any pull
  request, in the ingest's lane '' if asked to, beside the open one. Filed for a head
  whose push is being applied, between DesignateRevision's SELECT (`approvals.go:1405`)
  and its UPDATE (`:1418`), it makes the UPDATE fail on the unique key and the delivery
  with it (`filed`).
- `approvals.go:541-543`, the second of two decisions "sees the resolved state rather
  than overwriting it": the webhook of a GitHub review reads the open row, without a
  lock, and resolves it by id (`hooks/github.go:699`). DecisionKept names this as the
  one writer that may; if it writes changes_requested beside a candidate, two rows are
  open, of which OpenApprovalForLane sees one (`crossed`).
- `versions.go:73-80`, an acceptance moves the specs that arrange the rule: a draft
  spec that is being saved at that moment is passed over.

Four more concern what no property here speaks of:

- A spec accepts a draft it does not show. A rule is accepted at version 1 and edited,
  so that version 2 is a draft; a draft spec that arranges it at version 1 is accepted.
  `acceptDocRules` (`rules.go:399-416`) accepts version 2 and moves every spec but the
  accepted one (`docID` is the `except` of `moveSpecsToAcceptedRules`).
  `mdblocks/testdata/corpus/WL-REQ-1298.md`: "A spec shows each arranged rule at its
  newest accepted version".
- `approval_rules.go:130-131`, "the decision must bind what the reviewer will see": the
  form carries no revision (`api/webform.go:363`), and a push between the page and the
  decision rebinds the row.
- `api/docs.go:1008-1012`, "The pre-read decides nothing": the event of an acceptance is
  built from it (`api/docs.go:974`), and an edit in between is accepted under the old
  version's number.
- `approvals.go:264`, reviewers from whom the "current version still owes an approval":
  DocReviewersAwaiting (`approvals.go:271`) lists a lane left open at an earlier one.

## 5. Proofs

TLAPS checks every theorem below, for every value of the constants that
satisfies the assumptions named in the modules (`PathsAssumption`,
`LossAssumption`, `BoundAssumption`, `OpsAssumption`, `ProcsAssumption`,
`FreshAssumption`, `TasksAssumption`, `NoneAssumption`, `PullApprovalAssumption`,
`DocReviewAssumption`, `BoundsAssumption`, `TakesAssumption`,
`PeopleAssumption`, `RenderedAssumption`, and in Ingest one for each constant): any number of writers,
replicas, tasks, clients, sweepers, leases, commits and deliveries. `TasksAssumption`
says that the tasks are finitely many, without which the depth of a task is no number.
TLC evaluates the assumptions in every run.

**EventLogProofs.** The safety of log and loop rests on four invariants.
`CausalInv` says that ids and xids drawn are below the counters, that no two
transactions share an id, and that what a transaction saw commit has a smaller id
and xid; from it follow `CausallyOrdered` (CausalOrder) and the lemma
`StaysReadable`: what the horizon shows it never hides again. `OnceInv` says that a
key an open transaction has stored is neither committed nor stored by another, hence `RecordedOnce` (AppliedOnce).
`DeliveryInv` is the inductive form of AckedHandled: between the ack offset and
the read offset, what a batch returned and nobody handled is in the hands of the
lock's holder, and the replicas without the lock have nothing. It needs
`SessionLoss = FALSE`, and `NothingAckedUnhandled` says so; section 4 is why.
`HorizonInv` is about the ids that a reader has passed while their transactions were
open: such a transaction has no xid yet, or one that is larger than that of a later event
which was returned (`PassedOpen`); and the next id lies before every reader
(`NextIdAhead`). It is inductive for all `Paths` and gives `HorizonLimits`
(HiddenByInversion): with ids and xids in the same order nothing is hidden, and section 4
is what happens without. `Typing` is TypeOK.

**TaskLeaseProofs.** `IInv` is inductive: the rows satisfy the safety properties
(`RowInv`), every open transaction refers to rows that exist, no row has two
holders (`Locks`), and a transaction that holds a row knows what it read under
that lock (`Knows`: a claim's task is still ready and live, a close will end the
session it saw). The safety properties alone are not inductive: a claim between
its check and its INSERT has to carry the check along. It gives `Typing`,
`Exclusive` (OneLease), `SessionsEndWithLease`, `EndedTasksUnleased` (from
`TombstonesUnleased` and `FinishedTasksUnleased`), and, as action properties,
`ClaimsReadyTasks` (ClaimedFromReady) and `LeasesRefine`: every step of the tables is a step of
LeaseService or leaves `offered`, `held` and `spent` alone. `SweepInv`, on
its own, gives `SweepsOnce`: it does not use the advisory lock.

**HierarchyProofs.** `IInv` says that no two transactions hold one row, that what a
transaction will write it may write (`Grounded`: the children it creates do not
exist yet, no transition it has stacked is to draft), and OneParent. It
gives `Typing`, `SingleParent` (OneParent) and `DraftsArePublishedByName`. `HeldInv`
carries the checks of Claim and Decompose to their commits and gives `HeldOrSplit`
(HeldNotSplit) for Ops without delete: UndeleteTask locks the child only, and can
slip it under a task that is being claimed.
`Reach` and `Depth` are recursive functions, so Forest and checkHierarchy's answer are
first brought to a form without recursion: on edges that pass the check, a walk up
ends after two steps and a depth is 0, 1 or 2. The lemma `Inductive` says induction
over Nat of a set, which the provers can use where they cannot use the library's theorem
about an operator. `ForestInv` says of a transaction that nobody overlaps (`alone`)
that no other is open (`Solitude`) and that the edges it is about to write leave a
forest (`Plants`); it gives `HierarchyIsForest` (Forest). `RollInv` is what such a transaction has
done of its roll-up: a parent whose child it has changed is as the table says, with no
move of it left on the stack, or the last move of it on the stack takes it there
(`Settled`), where what counts as closed is read with the commits that the transaction
itself brings in or clears; and the stack goes up (`Upward`), so that no move is undone behind the
one that settles it. When the stack is empty this is RolledUpAlone (`RollUpReachesTable`).

**IngestProofs.** `IngestInv`: an id of main_commits is given once, to a commit of the
default branch, and is at most what the sequence has given, the ids that open
transactions have drawn included (`IdsOnce`); an alias is the id of the commit its sha
was picked from and a watermark is of a deployment that was reported (`AllReported`); a
delivery being applied is in the log, unless its transaction records it as well
(`LoggedFirst`); the facts of a delivery that is marked applied are there, and those of
one about to commit are there once its delta joins them (`Effective`); and Backed. Backed is
inductive only with IdsOnce: a delta that is joined to facts that have grown since must
take no id away and move none. The assumptions on `Source` and on deliveries say that
a commit of the default branch is its own origin, and that a push to that branch and a
clone's report name a commit of it. It gives `TypeCorrect`, `StatesBacked` (Backed),
`MarkerTellsTheTruth` (AppliedIsWhole), `DeploymentsReported` (DeployedIsTrue) and, as
an action property, `DeliveryGoesForward` (ForwardOnly).

**ProjectorProofs.** NothingForgotten is inductive once it says what a run in flight
owes: a committed change that is not shown is above `through`, or its project is
still to be attempted, or is being attempted, or has a row, or has failed without
one (`written` is false). `Typing`, `NothingIsForgotten` and `GraphsOnlyGrow` follow;
the last needs that a rendering holds at least what the graph shows, which is where
"replaced whole, from what is committed now" is used.

**BodyProofs, RuleText.** `RuleInv` is what the docs rows' locks and the readings are
worth. Arrangements are at versions that exist, those of accepted specs at versions that
nobody rewrites in place (`Fixed`, `InRange`); a transaction on a spec holds its row and
has its status right (`DocHeld`); what it has read is no older than what its spec shows,
and so is what it writes (`Opened`, `Read`, `Written`); the rules a publication does not
accept were accepted already (`Published`); and nobody moves a spec that is being
rewritten (`Undisturbed`). NeverBack needs all of it: a candidate may be older than what
its spec shows, and only the newest accepted version, which is at least Fixed, brings it
forward. It gives `SpecsNeverGoBack` (NeverBack). `HoldInv` is what the rules rows' locks
and the list of specs to move are worth: a rule that is written or accepted is the
transaction's until it ends and, outside `crossed`, still as it was read (`RulesHeld`);
the specs whose version will rise are below the bound and held (`CanRise`); outside
`met`, a spec that follows without a bump is still a draft (`FollowersDraft`), and a spec
that is not on the list is not behind (`NoneMissed`). `LeavesHeld` says what a step of one
transaction must leave to another's, and each action is shown to leave that. It gives
`RuleTextTypes` (TypeOK) and, as action properties, `AcceptedTextStands`
(PublishedStands) and `AcceptanceReachesSpecs` (AcceptanceReaches). Both invariants were
checked by TLC on RuleTextRun's instance before they were proved. The exceptions in the
properties, `met` and `crossed`, are the ones the code needs: section 4.

**BodyProofs, BodyLocks.** `LockInv`: a row being taken is free or its
taker's (`RowOfTaker`), an ender whose look found no live session has ended them all
unless a session was committed since (`DoomedEmpty`), and a tab that saves holds the
subject's row and has read the stored text, unless a rule of it has moved since, and once
checked the text it loaded (`SaveReads`). It gives `LockTyping`,
`OnePersonHolds` (HeldByOne) and, as an action property, `SavesOverwriteWhatWasRead`.

**PullApprovalProofs.** `PullInv` is TypeOK and `LockHeld`: at most one
pull_request delivery is under way, and while it is about to rebind, whatever row binds
its head was filed by hand, since reviews and decisions change no row's revision and add
none. It gives `TypeCorrect`, `OnlyFilingTakesKey` (KeyFreeToRebind) and, as action properties,
`DecisionsNotReopened` (NoDecisionReopened) and `DecisionsKept` (DecisionKept).
`OpenInv` speaks of the rows that nobody filed: the delivery under way, if it found no
row open, still has none of them open behind it, and one about to insert a candidate
found none: every write but a
review's over a decision opens no row again (`NoneReopened`), so only that delivery can
add one of them. It gives `DeliveriesOpenOne` (OneIngestedOpen). `HeadInv` follows the pushes:
stamps are unique (`Stamped`), the opening is the first delivery applied in order
(`Unopened`), every delivery that is no push is at the head the pushes before it lead
to (`HeadsFollow`), and a push about to do nothing has found its head bound
(`Designated`); with `HeadHeld` it gives `HeadsBound` (HeadBound).

**DocReviewProofs.** `DocInv` says that the document and the review have one
transaction each and an approval row one decider (`LockHeld`, `RowHeld`), that what a
transaction found still holds when it commits (`Found`: the lanes behind the gate are
approved, the rows being decided are open, an approval that a round found there and
need not decide is there), and RoundsHoldLanes. The step that carries it is `ApprovalsStep`: no step takes an approval
back, so a gate once passed stays passed although its lanes are not locked. It gives
`TypeCorrect`, `RoundsHold` (RoundsHoldLanes), `AcceptanceGated` (AcceptedIsApproved)
and `ClosedForGood` (ClosedStays). `MarksInv` adds what the patched marks need: rows,
rounds and patches are of versions the document has reached (`VersionsReached`); a
version outside `raced` has one decision under way at most (`OneDecides`), and one that
found its version unsettled leaves another row of it that is not approved
(`OthersOpen`); one that found its version settled has every mark up to it among the rows
it has found and holds, and no patch has such a mark in hand (`FoundAll`), which no other
clearing, patch or revision changes (`FoundLost`, `FoundStep`); so a version becomes
settled only in a step that clears its marks (`SettlingWrite`), and the marks that remain
are later (`MarksLater`). It gives
`MarksCleared` (SettledClears).

Model-checked only: the liveness properties (EveryEventHandled, QuietLeasesEnd,
EventuallyDrained, EventuallySettled, OthersProjected, LockFreed), which are out of
the prover's reach. Every safety property that a passing run checks is proved. Proved and not
run, since a run would only repeat them: TypeOK of EventLog, TaskLease, Hierarchy,
Projector and BodyLocks, CausalOrder of EventLog, GraphsMoveForward of Projector, OneLease of TaskLease.

## 6. What is not modelled

`PROJECT.json` gives the reason for each part. In the parts that are modelled:
MergeEventPayload and the listings of the event log; the emission and payload of
events; ClaimNext's choice; the data fields, kinds, projects and blockers of tasks;
dependsOn edges; deliveries that carry no delivery fact (issues, checks, catalog
and skill pushes); withdrawal and supersession
of rules and specs, of which two known effects are worth a note: reviseRule makes a
withdrawn rule a draft again when a section still matches it by heading or anchor,
and a draft spec that an acceptance has moved keeps its version, so that
`--if-version` (`docs.go:550-560`) lets a stale body put the rule back; what
happens when the clock runs backwards (a lease may become due at any time, and due
again after a renewal).

Of reviews and approvals: the ad-hoc requirements of `api/approvals.go` are modelled where
they add a row to a pull request in the ingest's lane or to a document at a version it
has reached; those for a version it has not reached, or for a revision that is none, and
those for tasks and deliverables are not, nor are a task's review rows, role lanes, approval flows, notes,
impact reviews, and gateDocRuleVersions, by which the acceptance of a rule asks the
reviewers of the specs it moves. reviews.state is computed by rounds only, so a thread
or a change of the roster leaves it as it was; AcceptDoc and a round that opens a
thread lock document and review in opposite orders, and Postgres aborts one.

Plans, handoffs and the inbox are record keeping in single
transactions over the same task row; their protocol, where they have one, is the
one TaskLease and EventLog have. Search, blobs, rendering, sign-in, the command
line and the web pages are pure functions or input and output around single
transactions; most of the program's lines are theirs.

## 7. Plan

1. Reviews of tasks: their rows and rounds, composed with TaskLease's openTaskReview.
2. `PlanSettle`: withdrawal, settling and grooming as handlers of EventLog's loop.
3. `Subscription`, the abstract specification of a subscriber (an ordered stream,
   delivered at least once), implemented by EventLog as far as HiddenByInversion lets it.
4. Withdrawal and gates in RuleText; crews beside assignment in TaskLease;
   dependsOn edges in Hierarchy.
5. Proofs: Delivery's operators as lemmas of their own; the abstract subscriber of 3,
   once it is written.

------------------------------- MODULE Ingest -------------------------------
(***************************************************************************)
(* How delivery facts arrive: webhooks, their replay and the reconcile     *)
(* poll (internal/hooks, internal/store/events.go, reconcile.go,           *)
(* localmerge.go, internal/reconcile/poll.go).                             *)
(*                                                                         *)
(* GitHub may send a delivery late, twice, out of order or never.  A       *)
(* GitHub delivery is recorded in one transaction and applied in a second  *)
(* one (RecordEventThenApply); a Flux event and a local merge are recorded *)
(* and applied in one (RecordEvent).  Applying is two steps: the           *)
(* statements that write facts and pick the tasks they concern, then the   *)
(* resolution of those tasks with the commit.  In between the transaction  *)
(* holds its rows and others do not see them.                              *)
(***************************************************************************)
EXTENDS Delivery, Sequences, FiniteSets

CONSTANTS
  Main,       \* commits of the default branch: 1, 2, ... in git order
  Source,     \* the commit a sha is, or was cherry-picked from
  Scenarios,  \* [sends: deliveries [kind, tasks, sha, env, named], doneState, mapped]
  Foreign,    \* deliveries of a repository that no project maps
  PR,         \* the sha a task's pull request is merged as
  Hooks,      \* webhook handlers
  Reconciler, \* lode task reconcile: the replay, then the poll
  Ops,        \* what people do: claim, abandon, reopen
  Batch,      \* candidates one replay reads (defaultReplayBatch)
  MaxReopens, \* bound: reopenings of each task
  MaxFaults,  \* bound: crashes and aborted transactions
  None

Procs == Hooks \union {Reconciler}

githubKinds == {"branch", "main", "lastdeploy", "opened", "merged", "deploy",
                "release"}
Kinds       == githubKinds \union {"flux", "local"}

Deliveries == UNION {sc.sends : sc \in Scenarios}

ASSUME MainAssumption    == Main \subseteq Shas /\ Shas \subseteq Nat \ {0}
                            /\ IsFiniteSet(Shas)
ASSUME SourceAssumption  == Source \in [Shas -> Main] /\ \A s \in Main : Source[s] = s
ASSUME PRAssumption      == PR \in [Tasks -> Main]
ASSUME KindsAssumption   ==
  \A d \in Deliveries : d.kind \in Kinds /\ d.tasks \subseteq Tasks
                        /\ d.sha \in Shas /\ d.env \in Envs /\ d.named \in BOOLEAN
                        /\ (d.kind \in {"main", "local"} => d.sha \in Main)
ASSUME ForeignAssumption == \A d \in Foreign : d.kind \in githubKinds
ASSUME ProcsAssumption   == Reconciler \notin Hooks
ASSUME ScenarioAssumption ==
  \A sc \in Scenarios :
    /\ sc.doneState \in {"merged", "deployed_dev", "deployed_prod", "released"}
    /\ sc.mapped \in BOOLEAN
ASSUME NoneAssumption    == None \notin Deliveries
ASSUME BoundsAssumption  == Batch \in Nat \ {0} /\ MaxReopens \in Nat /\ MaxFaults \in Nat

VARIABLES
  facts,     \* the committed delivery facts
  seq,       \* main_commits_id_seq
  state,     \* tasks.state
  doneState, \* the repository's done_state
  sends,     \* the deliveries GitHub, Flux and clones may make
  mapped,    \* a project maps the repository
  log,       \* events in the order of their ids
  applied,   \* events with applied_at set
  phase,     \* of the reconciler: rest, or replay
  batch,     \* candidates it has read and not reached
  tx,        \* what each process is doing
  head,      \* the newest commit on GitHub's default branch
  reopened,  \* how often each task was reopened
  faults

storeVars == <<facts, state, log, applied>>
envVars   == <<doneState, sends, mapped, head, reopened>>
runVars   == <<phase, batch>>
vars      == <<storeVars, envVars, seq, runVars, tx, faults>>

Logged == {log[i] : i \in DOMAIN log}

-----------------------------------------------------------------------------
(* Transactions *)

\* pairs, shas: what the poll has gathered.  delta: facts written and not
\* committed.  todo: tasks to resolve.
NoTx == [at |-> "idle", d |-> None, pairs |-> {}, shas |-> {}, todo |-> {},
         delta |-> NoFacts]

Idle(p)    == tx[p].at = "idle"
Step(p, r) == tx' = [tx EXCEPT ![p] = r]
End(p)     == Step(p, NoTx)

\* Two transactions insert or update one row: the second waits for the first.
Overlap(f, g) ==
  \/ \E s \in Shas : f.main[s] # 0 /\ g.main[s] # 0
  \/ \E s \in Shas : f.alias[s] # 0 /\ g.alias[s] # 0
  \/ f.attr \intersect g.attr # {}
  \/ f.prs \intersect g.prs # {}
  \/ \E e \in Envs : (f.gh[e] # 0 \/ f.flux[e] # 0) /\ (g.gh[e] # 0 \/ g.flux[e] # 0)

RowsFree(p, w) == \A q \in Procs \ {p} : ~Overlap(tx[q].delta, w)

\* GitHub has the commit a delivery is about.
OnGitHub(s) == Source[s] <= head

-----------------------------------------------------------------------------
(* What applying writes.  An insert of a row that is there adds nothing. *)

\* NewMain had the id been the newest plus one and not the sequence's.
NewMainByMax(s) ==
  [NoFacts EXCEPT !.main[s] = IF facts.main[s] = 0 THEN LatestMainID(facts) + 1 ELSE 0]

NewMain(s) ==
  [NoFacts EXCEPT !.main[s] = IF facts.main[s] = 0 THEN seq + 1 ELSE 0]

NewAttr(pairs) == [NoFacts EXCEPT !.attr = pairs \ facts.attr]

applyMainPush(d) == Join(NewMain(d.sha), NewAttr(d.tasks \X {d.sha}))

\* applyPush of a last-deploy/ branch: the trailer names a main commit.
mapDeploySHA(d) ==
  [NoFacts EXCEPT !.alias[d.sha] =
     IF facts.alias[d.sha] = 0 THEN MainIDForSHA(facts, Source[d.sha]) ELSE 0]

\* applyPullRequest: the row, and once merged the commits it brings.
applyPullRequest(d) ==
  [NoFacts EXCEPT !.prs = d.tasks,
                  !.attr = IF d.kind = "merged"
                           THEN (d.tasks \X {d.sha}) \ facts.attr ELSE {}]

\* An unknown sha is dropped: its id is 0 and nothing is written.
\* applyDeploymentStatus had it fallen back as applyRelease does.
applyDeploymentStatusLatest(d) ==
  [NoFacts EXCEPT !.gh[d.env] = IF MainIDForSHA(facts, d.sha) = 0 THEN LatestMainID(facts)
                                ELSE MainIDForSHA(facts, d.sha)]

applyDeploymentStatus(d) == [NoFacts EXCEPT !.gh[d.env] = MainIDForSHA(facts, d.sha)]
confirmFluxDelivery(d)   == [NoFacts EXCEPT !.flux[d.env] = MainIDForSHA(facts, d.sha)]

\* A release of a branch, or of an unknown commit, covers the newest commit.
applyRelease(d) ==
  [NoFacts EXCEPT !.release =
     IF d.named /\ MainIDForSHA(facts, d.sha) # 0
     THEN MainIDForSHA(facts, d.sha) ELSE LatestMainID(facts)]

Writes(d) ==
  CASE d.kind = "branch"              -> NewAttr(d.tasks \X {d.sha})
    [] d.kind \in {"main", "local"}   -> applyMainPush(d)
    [] d.kind = "lastdeploy"          -> mapDeploySHA(d)
    [] d.kind \in {"opened", "merged"} -> applyPullRequest(d)
    [] d.kind = "deploy"              -> applyDeploymentStatus(d)
    [] d.kind = "flux"                -> confirmFluxDelivery(d)
    [] d.kind = "release"             -> applyRelease(d)

\* The tasks an apply goes on to resolve, from the facts it sees.
Affected(d, f) ==
  CASE d.kind = "main"   -> d.tasks \union TaskIDsForSHA(f, d.sha)
    [] d.kind \in {"local", "merged"} -> d.tasks
    [] d.kind \in {"deploy", "flux"} ->
         IF MainIDForSHA(facts, d.sha) = 0 THEN {}
         ELSE TasksBelowFrontier(f, ConfirmedFrontier(f, d.env), state)
    [] d.kind = "release" -> TasksBelowFrontier(f, applyRelease(d).release, state)
    [] OTHER -> {}

\* The statements of an apply, once its rows are free: r is left to resolve.
Written(p, r, w) ==
  /\ RowsFree(p, w)
  /\ seq' = seq + Cardinality({s \in Shas : w.main[s] # 0})
  /\ Step(p, [r EXCEPT !.at = "resolve", !.delta = w])

Apply(p, d) ==
  Written(p, [NoTx EXCEPT !.d = d, !.todo = Affected(d, Join(facts, Writes(d)))],
          Writes(d))

-----------------------------------------------------------------------------
(* Resolving and committing *)

\* opened or ready_for_review: work in progress goes to review.
Moved(p, f, t) ==
  LET d == tx[p].d IN
  IF d # None /\ d.kind = "opened" /\ t \in d.tasks /\ state[t] = "in_progress"
  THEN "in_review"
  ELSE IF t \in tx[p].todo THEN ResolveDelivery(f, t, state[t], doneState)
  ELSE state[t]

\* markApplied, in the transaction of the effects; Flux records its event here.
MarkEventApplied(p) ==
  LET d == tx[p].d IN
  /\ applied' = IF d # None /\ d.kind \in githubKinds THEN applied \union {d} ELSE applied
  /\ log' = IF d # None /\ d.kind = "flux" THEN Append(log, d) ELSE log

Finish(p) ==
  LET f == Join(facts, tx[p].delta) IN
  /\ tx[p].at = "resolve"
  /\ facts' = f
  /\ state' = [t \in Tasks |-> Moved(p, f, t)]
  /\ MarkEventApplied(p)
  /\ End(p)
  /\ UNCHANGED <<envVars, seq, runVars, faults>>

\* The process dies, or its transaction is refused or chosen as a deadlock
\* victim; what it has recorded before stays.
Abort(p) ==
  /\ ~Idle(p) /\ faults < MaxFaults
  /\ faults' = faults + 1
  /\ End(p)
  /\ UNCHANGED <<storeVars, envVars, seq, runVars>>

-----------------------------------------------------------------------------
(* Webhooks *)

Routed(d) == mapped /\ d \notin Foreign

\* RecordEventThenApply: only an event marked applied skips its apply.
NeedsApply(d) == Routed(d) /\ d \notin applied

\* ReceiveGitHub had the marker been set with the record.
ReceiveGitHubMarked(h, d) ==
  /\ Idle(h) /\ d.kind \in githubKinds
  /\ d.kind \in {"branch", "opened"} \/ OnGitHub(d.sha)
  /\ d \notin Logged \/ NeedsApply(d)
  /\ log' = IF d \in Logged THEN log ELSE Append(log, d)
  /\ IF NeedsApply(d)
     THEN Step(h, [NoTx EXCEPT !.at = "apply", !.d = d]) /\ applied' = applied \union {d}
     ELSE UNCHANGED <<tx, applied>>
  /\ UNCHANGED <<facts, state, envVars, seq, runVars, faults>>

ReceiveGitHub(h, d) ==
  /\ Idle(h) /\ d.kind \in githubKinds
  /\ d.kind \in {"branch", "opened"} \/ OnGitHub(d.sha)
  /\ d \notin Logged \/ NeedsApply(d)
  /\ log' = IF d \in Logged THEN log ELSE Append(log, d)
  /\ IF NeedsApply(d) THEN Step(h, [NoTx EXCEPT !.at = "apply", !.d = d]) ELSE UNCHANGED tx
  /\ UNCHANGED <<facts, state, applied, envVars, seq, runVars, faults>>

\* ... in a transaction of its own.
ApplyGitHub(h) ==
  /\ tx[h].at = "apply" /\ Apply(h, tx[h].d)
  /\ UNCHANGED <<storeVars, envVars, runVars, faults>>

\* RecordEvent: a second delivery waits on the key of the first.
ReceiveFlux(h, d) ==
  /\ Idle(h) /\ d.kind = "flux" /\ OnGitHub(d.sha)
  /\ d \notin Logged /\ \A q \in Procs : tx[q].d # d
  /\ Apply(h, d)
  /\ UNCHANGED <<storeVars, envVars, runVars, faults>>

\* A clone reports a merge it observed, as a fresh event each time.
RecordLocalMerge(h, d) ==
  /\ Idle(h) /\ d.kind = "local" /\ OnGitHub(d.sha) /\ mapped
  /\ Apply(h, d)
  /\ UNCHANGED <<storeVars, envVars, runVars, faults>>

-----------------------------------------------------------------------------
(* Reconcile: replay of unapplied events *)

Unapplied == {i \in DOMAIN log : log[i].kind \in githubKinds /\ log[i] \notin applied}

\* ORDER BY id LIMIT Batch (ButOne: one less)
OldestButOne(S) == {i \in S : Cardinality({j \in S : j < i}) + 1 < Batch}
Oldest(S) == {i \in S : Cardinality({j \in S : j < i}) < Batch}

StartReplay ==
  /\ phase = "rest" /\ Idle(Reconciler)
  /\ phase' = "replay"
  /\ batch' = Oldest(Unapplied)
  /\ UNCHANGED <<storeVars, envVars, seq, tx, faults>>

\* In order, each in its own transaction; no second look at applied_at.
ReplayNext ==
  /\ phase = "replay" /\ Idle(Reconciler)
  /\ \E i \in batch :
       /\ \A j \in batch : i <= j
       /\ batch' = batch \ {i}
       /\ IF Routed(log[i]) THEN Apply(Reconciler, log[i]) ELSE UNCHANGED <<seq, tx>>
  /\ UNCHANGED <<storeVars, envVars, phase, faults>>

-----------------------------------------------------------------------------
(* Reconcile: the poll *)

\* Candidates had a pull request been asked of them.
CandidatesWithPR == {t \in Tasks : state[t] \in advanceable /\ t \in facts.prs}

Candidates ==
  {t \in Tasks : state[t] \in advanceable
                 /\ (t \in facts.prs \/ \E s \in Shas : <<t, s>> \in facts.attr)}

\* Asks GitHub for the candidates' pull requests and for the commits that the
\* facts do not have on the default branch.
GatherRepo ==
  LET merged == {<<t, PR[t]>> : t \in {u \in Candidates \intersect facts.prs : OnGitHub(PR[u])}}
      asked  == {pr[2] : pr \in {q \in facts.attr : q[1] \in Candidates} \union merged}
      landed == {s \in asked \intersect Main : OnGitHub(s) /\ facts.main[s] = 0}
  IN
  /\ phase = "replay" /\ Idle(Reconciler) /\ batch = {}
  /\ phase' = "rest"
  /\ IF Candidates = {} THEN UNCHANGED tx
     ELSE Step(Reconciler, [NoTx EXCEPT !.at = "apply", !.pairs = merged, !.shas = landed,
                                        !.todo = Candidates])
  /\ UNCHANGED <<storeVars, envVars, seq, batch, faults>>

\* applyFacts: commits in git order, then the releases whose commit is known.
ApplyFacts ==
  LET r     == tx[Reconciler]
      fresh == {s \in r.shas : MainIDForSHA(facts, s) = 0}
      place(s) == Cardinality({c \in fresh : c <= s})
      w     == [NewAttr(r.pairs) EXCEPT
                 !.prs  = r.todo \intersect facts.prs,
                 !.main = [s \in Shas |-> IF s \in fresh THEN seq + place(s) ELSE 0]]
      rels  == {MainIDForSHA(Join(facts, w), d.sha) :
                  d \in {e \in sends \ Foreign : e.kind = "release" /\ e.named /\ OnGitHub(e.sha)}}
               \union {0}
  IN
  /\ r.at = "apply" /\ r.d = None
  /\ Written(Reconciler, r, [w EXCEPT !.release = CHOOSE i \in rels : \A j \in rels : j <= i])
  /\ UNCHANGED <<storeVars, envVars, runVars, faults>>

-----------------------------------------------------------------------------
(* People and GitHub *)

Claim(t) ==
  /\ "claim" \in Ops /\ state[t] = "ready"
  /\ state' = [state EXCEPT ![t] = "in_progress"]
  /\ UNCHANGED <<facts, log, applied, envVars, seq, runVars, tx, faults>>

Abandon(t) ==
  /\ "abandon" \in Ops /\ state[t] \in openStates
  /\ state' = [state EXCEPT ![t] = "abandoned"]
  /\ UNCHANGED <<facts, log, applied, envVars, seq, runVars, tx, faults>>

\* The transition and ClearTaskCommits in one transaction (Keep: the former alone).
reopenTaskKeep(t) ==
  /\ "reopen" \in Ops /\ state[t] \in deliveredStates \union {"abandoned"}
  /\ reopened[t] < MaxReopens
  /\ state' = [state EXCEPT ![t] = "ready"]
  /\ reopened' = [reopened EXCEPT ![t] = @ + 1]
  /\ UNCHANGED <<facts, log, applied, doneState, sends, mapped, head, seq, runVars, tx, faults>>

reopenTask(t) ==
  /\ "reopen" \in Ops /\ state[t] \in deliveredStates \union {"abandoned"}
  /\ reopened[t] < MaxReopens
  /\ state' = [state EXCEPT ![t] = "ready"]
  /\ facts' = [facts EXCEPT !.attr = {pr \in @ : pr[1] # t}]
  /\ reopened' = [reopened EXCEPT ![t] = @ + 1]
  /\ UNCHANGED <<log, applied, doneState, sends, mapped, head, seq, runVars, tx, faults>>

MapRepo ==
  /\ ~mapped /\ mapped' = TRUE
  /\ UNCHANGED <<storeVars, doneState, sends, head, reopened, seq, runVars, tx, faults>>

\* The next commit reaches the default branch.
Land ==
  /\ head + 1 \in Main
  /\ head' = head + 1
  /\ UNCHANGED <<storeVars, doneState, sends, mapped, reopened, seq, runVars, tx, faults>>

-----------------------------------------------------------------------------
Init ==
  /\ facts = NoFacts /\ seq = 0
  /\ state = [t \in Tasks |-> "ready"]
  /\ \E sc \in Scenarios :
       sends = sc.sends /\ doneState = sc.doneState /\ mapped = sc.mapped
  /\ log = <<>> /\ applied = {} /\ phase = "rest" /\ batch = {}
  /\ tx = [p \in Procs |-> NoTx]
  /\ head = 0 /\ reopened = [t \in Tasks |-> 0] /\ faults = 0

Receive(h) == \E d \in sends :
  ReceiveGitHub(h, d) \/ ReceiveFlux(h, d) \/ RecordLocalMerge(h, d)

Reconcile == StartReplay \/ ReplayNext \/ GatherRepo
Work(p) == (p \in Hooks /\ ApplyGitHub(p)) \/ (p = Reconciler /\ ApplyFacts) \/ Finish(p)
User(t) == Claim(t) \/ Abandon(t) \/ reopenTask(t)

Next ==
  \/ \E h \in Hooks : Receive(h)
  \/ \E p \in Procs : Work(p) \/ Abort(p)
  \/ Reconcile
  \/ \E t \in Tasks : User(t)
  \/ MapRepo \/ Land

Spec == Init /\ [][Next]_vars

\* What is under way goes on, and the scheduled reconcile runs again and again.
\* GitHub, Flux and people owe nothing.
Fairness ==
  /\ \A p \in Procs : WF_vars(Work(p))
  /\ WF_vars(Reconcile)

FairSpec == Spec /\ Fairness

-----------------------------------------------------------------------------
(* Properties *)

FactsOk(f) ==
  /\ f.main \in [Shas -> Nat] /\ f.alias \in [Shas -> Nat]
  /\ f.attr \subseteq Tasks \X Shas /\ f.prs \subseteq Tasks
  /\ f.gh \in [Envs -> Nat] /\ f.flux \in [Envs -> Nat] /\ f.release \in Nat

TxOk(r) ==
  /\ r.at \in {"idle", "apply", "resolve"} /\ r.d \in Deliveries \union {None}
  /\ r.pairs \subseteq Tasks \X Shas /\ r.shas \subseteq Main
  /\ r.todo \subseteq Tasks /\ FactsOk(r.delta)
  /\ r.at # "resolve" => r.delta = NoFacts

\* Types, with main ids unique and drawn from the sequence, committed or not
\* (AppendMainCommit).
TypeOK ==
  /\ FactsOk(facts) /\ seq \in Nat
  /\ \A s \in Shas : facts.main[s] <= seq
  /\ \A s, r \in Shas : facts.main[s] = facts.main[r] => s = r \/ facts.main[s] = 0
  /\ state \in [Tasks -> States]
  /\ sends \subseteq Deliveries /\ doneState \in States /\ mapped \in BOOLEAN
  /\ log \in Seq(Deliveries) /\ \A i, j \in DOMAIN log : log[i] = log[j] => i = j
  /\ applied \subseteq Logged /\ phase \in {"rest", "replay"} /\ batch \subseteq DOMAIN log
  /\ tx \in [Procs -> [at : {"idle", "apply", "resolve"}, d : Deliveries \union {None},
                       pairs : SUBSET (Tasks \X Shas), shas : SUBSET Main,
                       todo : SUBSET Tasks, delta : {tx[p].delta : p \in Procs}]]
  /\ \A p \in Procs : TxOk(tx[p])
  /\ head \in Nat /\ reopened \in [Tasks -> Nat] /\ faults \in Nat

\* A delivery state rests on facts that are still on record: a commit of the
\* task on the default branch, and a watermark at or above it.  Reopening takes
\* the commits and the state away together, whoever is resolving meanwhile.
Backed ==
  \A t \in Tasks : state[t] \in deliveredStates =>
    \E i \in LandedIds(facts, t) :
      /\ state[t] = "deployed_dev"  => i <= facts.gh["dev"]
      /\ state[t] = "deployed_prod" => i <= facts.gh["prod"]
      /\ state[t] = "released"      => i <= facts.release

\* An event marked applied has had its effect (markApplied: the marker commits
\* with what it describes), so that skipping a redelivery of it loses nothing.
AppliedIsWhole ==
  \A d \in applied :
    /\ d.kind = "main" => facts.main[d.sha] # 0
    /\ d.kind \in {"opened", "merged"} => d.tasks \subseteq facts.prs
    /\ d.kind \in {"branch", "main", "merged"} =>
         \A t \in d.tasks : reopened[t] = 0 => <<t, d.sha>> \in facts.attr

\* Delivery goes forward, however deliveries are ordered, repeated or replayed;
\* only a reopening takes it back, and with it the commits that would restore it.
rank(s) == CASE s = "merged" -> 1 [] s = "deployed_dev" -> 2
             [] s \in {"deployed_prod", "released"} -> 3 [] OTHER -> 0

ForwardOnly ==
  [][\A t \in Tasks : rank(state'[t]) < rank(state[t]) =>
       state'[t] = "ready" /\ LandedIds(facts', t) = {}]_vars

\* Main ids are in git order.
InGitOrder ==
  \A s, r \in Main : s < r /\ facts.main[s] # 0 /\ facts.main[r] # 0
                     => facts.main[s] < facts.main[r]

\* Where the ids are in git order a task is deployed only if a commit of it was:
\* a deployment of that commit or a later one was reported.
ReallyDeployed(t, env) ==
  \E d \in Logged, s \in Main :
    d.kind = "deploy" /\ d.env = env /\ <<t, s>> \in facts.attr /\ s <= Source[d.sha]

DeployedIsTrue ==
  InGitOrder => \A t \in Tasks :
    /\ state[t] = "deployed_dev"  => ReallyDeployed(t, "dev")
    /\ state[t] = "deployed_prod" => ReallyDeployed(t, "prod")

\* A recorded delivery of a mapped repository is applied in the end, whatever
\* crashed and whoever never sends it again (the replay drains the backlog).
Drained == \A d \in Logged \ Foreign : mapped /\ d.kind \in githubKinds => d \in applied

EventuallyDrained == <>[]Drained

\* In the end every task is where the facts have it, although transactions that
\* overlapped did not see each other's facts, and an attributed commit that has
\* reached the default branch lands its task although no push ever says so.
Settled ==
  \A t \in Tasks :
    /\ state[t] = ResolveDelivery(facts, t, state[t], doneState)
    /\ state[t] \in openStates =>
         ~\E s \in Main : <<t, s>> \in facts.attr /\ OnGitHub(s)

EventuallySettled == <>[]Settled
=============================================================================

----------------------------- MODULE Projector -----------------------------
(***************************************************************************)
(* The graph projector: internal/projector/projector.go over               *)
(* internal/store/projection.go.                                           *)
(*                                                                         *)
(* Writers are transactions that change tasks and documents and append     *)
(* state_log rows carrying their txid.  ONE projector polls: it reads a    *)
(* bounded batch of transactions above its watermark, re-renders every     *)
(* project they touch, replaces the project's graphs on graph-server,      *)
(* quarantines the projects that fail and moves the watermark as far as    *)
(* the commit horizon lets it.  Every statement and every request is a     *)
(* step; writers commit between any two of them.                           *)
(***************************************************************************)
EXTENDS Naturals, FiniteSets

CONSTANTS
  Projects,
  Poison,    \* projects whose graph the server rejects whatever they hold
  Writers,   \* transactions open at once
  Limit,     \* the batch of projector.New
  MaxXid,    \* bound: transactions that take an xid
  MaxFaults, \* bound: failed reads, requests and writes, crashes, rewinds
  None       \* no project

ASSUME ProjectsAssumption == None \notin Projects /\ Poison \subseteq Projects
ASSUME BoundsAssumption   == Limit \in Nat \ {0} /\ MaxXid \in Nat /\ MaxFaults \in Nat

VARIABLES
  nextXid,   \* the cluster's transaction counter
  tx,        \* tx[w]: the transaction of writer w; its xid is 0 when there is none
  log,       \* committed transactions in state_log
  watermark, \* graph_projection.last_txid
  row,       \* row[p]: p's row of graph_projection_failures
  graph,     \* graph[g][p]: the transactions graph-server's copy of p shows
  pc,        \* the projector's next step
  cp,        \* the watermark this run began at
  through,   \* the watermark this run may write
  todo,      \* targets not attempted yet
  prior,     \* projects that had a row when the run began
  cur,       \* the project being projected
  part,      \* which of its graphs
  doc,       \* what the rendering in flight shows
  written,   \* quarantineWritten
  faults     \* disturbances so far

writerVars == <<nextXid, tx, log>>
runVars    == <<cp, through, todo, prior, written>>
oneVars    == <<cur, part, doc>>
vars       == <<writerVars, watermark, row, graph, pc, runVars, oneVars, faults>>

\* projectOne replaces the project's own graph, then its documents' graphs.
Graphs == {"tasks", "docs"}

\* No row; a row whose next_attempt_at has passed; one that is backing off.
Rows == {"none", "due", "waits"}

-----------------------------------------------------------------------------
(* Writers *)

NoTx    == [xid |-> 0, projects |-> {}]
Open(w) == tx[w].xid # 0

\* A transaction takes its xid at its first write.  One that touches no
\* project is any other transaction of the instance.
Begin(w, ps) ==
  /\ ~Open(w) /\ nextXid <= MaxXid
  /\ tx' = [tx EXCEPT ![w] = [xid |-> nextXid, projects |-> ps]]
  /\ nextXid' = nextXid + 1
  /\ UNCHANGED <<log, watermark, row, graph, pc, runVars, oneVars, faults>>

\* LogChange's rows commit with the change they describe.
Commit(w) ==
  /\ Open(w)
  /\ log' = IF tx[w].projects = {} THEN log ELSE log \union {tx[w]}
  /\ tx' = [tx EXCEPT ![w] = NoTx]
  /\ UNCHANGED <<nextXid, watermark, row, graph, pc, runVars, oneVars, faults>>

Abort(w) ==
  /\ Open(w)
  /\ tx' = [tx EXCEPT ![w] = NoTx]
  /\ UNCHANGED <<nextXid, log, watermark, row, graph, pc, runVars, oneVars, faults>>

-----------------------------------------------------------------------------
(* DirtyProjects, one statement *)

XidsOf(p) == {e.xid : e \in {f \in log : p \in f.projects}}
Above     == {x \in {e.xid : e \in log} : x > watermark}

\* Every visible transaction taken as settled.
SettledAlways(x) == TRUE

\* stateLogHorizon: txid < pg_snapshot_xmin(pg_current_snapshot()).
Settled(x) == \A w \in Writers : Open(w) => x < tx[w].xid

\* limit counts transactions, read whole and in order.
Batch == {x \in Above : Cardinality({y \in Above : y < x}) < Limit}
Dirty == UNION {e.projects : e \in {f \in log : f.xid \in Batch}}

\* The last transaction of the batch's settled prefix.
IsThrough(t) ==
  LET prefix == {x \in Batch : Settled(x)} IN
  \/ prefix = {} /\ t = watermark
  \/ t \in prefix /\ \A x \in prefix : x <= t

-----------------------------------------------------------------------------
(* RunOnce *)

Fault == faults < MaxFaults /\ faults' = faults + 1

AtRest ==
  /\ pc' = "idle"
  /\ cp' = 0 /\ through' = 0 /\ todo' = {} /\ prior' = {} /\ written' = TRUE
  /\ cur' = None /\ part' = "tasks" /\ doc' = {}

\* A retry that waits for the project to be dirty again.
DueNone == {}

Due == {p \in Projects : row[p] = "due"}

\* The three reads: checkpoint, batch, quarantine.  A quarantined project is a
\* target when it is dirty or due.
Start ==
  /\ pc = "idle"
  /\ \E t \in {watermark} \union Batch : IsThrough(t) /\ through' = t
  /\ cp' = watermark
  /\ todo' = Dirty \union Due
  /\ prior' = {p \in Projects : row[p] # "none"}
  /\ written' = TRUE
  /\ pc' = "next"
  /\ UNCHANGED <<writerVars, watermark, row, graph, oneVars, faults>>

Pick(p) ==
  /\ pc = "next" /\ p \in todo
  /\ cur' = p /\ part' = "tasks" /\ todo' = todo \ {p}
  /\ pc' = "render"
  /\ UNCHANGED <<writerVars, watermark, row, graph, cp, through, prior, written, doc, faults>>

\* The whole graph, from what is committed now.
Render ==
  /\ pc = "render"
  /\ doc' = XidsOf(cur)
  /\ pc' = "put"
  /\ UNCHANGED <<writerVars, watermark, row, graph, runVars, cur, part, faults>>

RenderFails ==
  /\ pc = "render" /\ Fault
  /\ pc' = "failed"
  /\ UNCHANGED <<writerVars, watermark, row, graph, runVars, oneVars>>

Replace == graph' = [graph EXCEPT ![part][cur] = doc]

\* Tombstoned documents lose their graph in the second part; ErrNotFound is
\* the answer that part expects.
Put ==
  /\ pc = "put" /\ cur \notin Poison
  /\ Replace
  /\ part' = "docs"
  /\ pc' = CASE part = "tasks" -> "render"
             [] part = "docs"  -> IF cur \in prior THEN "clear" ELSE "next"
  /\ UNCHANGED <<writerVars, watermark, row, runVars, cur, doc, faults>>

\* Rejected, never answered, or done with the answer lost.
PutFails ==
  /\ pc = "put"
  /\ \/ cur \in Poison /\ UNCHANGED <<graph, faults>>
     \/ cur \notin Poison /\ Fault /\ (Replace \/ UNCHANGED graph)
  /\ pc' = "failed"
  /\ UNCHANGED <<writerVars, watermark, row, runVars, oneVars>>

\* ClearProjectionFailure; when it fails the stale row stays.
Clear ==
  /\ pc = "clear"
  /\ \/ row' = [row EXCEPT ![cur] = "none"] /\ UNCHANGED faults
     \/ Fault /\ UNCHANGED row
  /\ pc' = "next"
  /\ UNCHANGED <<writerVars, watermark, graph, runVars, oneVars>>

\* RecordProjectionFailure.  The first failure is retried by the next run, a
\* repeated one backs off.
Quarantine ==
  /\ pc = "failed"
  /\ row' = [row EXCEPT ![cur] = IF cur \in prior THEN "waits" ELSE "due"]
  /\ pc' = "next"
  /\ UNCHANGED <<writerVars, watermark, graph, runVars, oneVars, faults>>

\* A first failure without a row holds the checkpoint back.
QuarantineFails ==
  /\ pc = "failed" /\ Fault
  /\ written' = (written /\ cur \in prior)
  /\ pc' = "next"
  /\ UNCHANGED <<writerVars, watermark, row, graph, cp, through, todo, prior, oneVars>>

Finish ==
  /\ pc = "next" /\ todo = {}
  /\ \/ watermark' = (IF through # cp /\ written THEN through ELSE watermark) /\ UNCHANGED faults
     \/ Fault /\ UNCHANGED watermark
  /\ AtRest
  /\ UNCHANGED <<writerVars, row, graph>>

Crash ==
  /\ pc # "idle" /\ Fault
  /\ AtRest
  /\ UNCHANGED <<writerVars, watermark, row, graph>>

-----------------------------------------------------------------------------
(* The clock and the operator *)

\* next_attempt_at passes.
Elapse(p) ==
  /\ row[p] = "waits"
  /\ row' = [row EXCEPT ![p] = "due"]
  /\ UNCHANGED <<writerVars, watermark, graph, pc, runVars, oneVars, faults>>

\* UPDATE graph_projection SET last_txid = 0.
Rewind ==
  /\ watermark # 0 /\ Fault
  /\ watermark' = 0
  /\ UNCHANGED <<writerVars, row, graph, pc, runVars, oneVars>>

-----------------------------------------------------------------------------
Init ==
  /\ nextXid = 1 /\ log = {} /\ watermark = 0 /\ faults = 0
  /\ tx = [w \in Writers |-> NoTx]
  /\ row = [p \in Projects |-> "none"]
  /\ graph = [g \in Graphs |-> [p \in Projects |-> {}]]
  /\ pc = "idle" /\ cp = 0 /\ through = 0 /\ todo = {} /\ prior = {} /\ written = TRUE
  /\ cur = None /\ part = "tasks" /\ doc = {}

Ends(w) == Commit(w) \/ Abort(w)

RunOnce ==
  \/ Start \/ Render \/ RenderFails \/ Put \/ PutFails \/ Clear
  \/ Quarantine \/ QuarantineFails \/ Finish
  \/ \E p \in Projects : Pick(p)

Next ==
  \/ \E w \in Writers : Ends(w) \/ \E ps \in SUBSET Projects : Begin(w, ps)
  \/ RunOnce
  \/ Crash \/ Rewind
  \/ \E p \in Projects : Elapse(p)

Spec == Init /\ [][Next]_vars

\* The loop polls for as long as the server runs, time passes, and a
\* transaction ends.
FairSpec ==
  /\ Spec
  /\ WF_vars(RunOnce)
  /\ \A p \in Projects : WF_vars(Elapse(p))
  /\ \A w \in Writers : WF_vars(Ends(w))

-----------------------------------------------------------------------------
(* Properties *)

TypeOK ==
  /\ nextXid \in 1..(MaxXid + 1)
  /\ tx \in [Writers -> [xid : 0..MaxXid, projects : SUBSET Projects]]
  /\ log \subseteq [xid : 1..MaxXid, projects : SUBSET Projects]
  /\ watermark \in 0..MaxXid /\ cp \in 0..MaxXid /\ through \in 0..MaxXid
  /\ row \in [Projects -> Rows]
  /\ graph \in [Graphs -> [Projects -> SUBSET (1..MaxXid)]]
  /\ pc \in {"idle", "next", "render", "put", "clear", "failed"}
  /\ todo \subseteq Projects /\ prior \subseteq Projects
  /\ cur \in Projects \union {None} /\ part \in Graphs
  /\ doc \subseteq 1..MaxXid
  /\ written \in BOOLEAN /\ faults \in 0..MaxFaults

Shown(e, p) == \A g \in Graphs : e.xid \in graph[g][p]

\* A committed change that a project's graphs do not show yet is above the
\* watermark, so that a later batch reads it, or its project is quarantined,
\* so that a later run retries it: out-of-order commits, a failed request, a
\* failed quarantine write, a crash or a rewind forgets none (projection.go:
\* "scanned on a later run", RunOnce: "without that row the project would be
\* forgotten").
NothingForgotten ==
  \A e \in log : \A p \in e.projects :
    Shown(e, p) \/ e.xid > watermark \/ row[p] # "none"

\* Re-rendering may repeat itself but never takes back what a graph showed
\* ("re-running after a crash or a duplicated batch is idempotent").
GraphsMoveForward ==
  [][\A g \in Graphs, p \in Projects : graph[g][p] \subseteq graph'[g][p]]_vars

\* A project the server keeps rejecting holds up nobody else: every committed
\* change of the others is shown in the end, whatever fails on the way.
OthersProjected ==
  <>[](\A e \in log : \A p \in e.projects \ Poison : Shown(e, p))
=============================================================================

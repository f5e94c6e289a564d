----------------------------- MODULE Hierarchy -----------------------------
(***************************************************************************)
(* The task hierarchy of internal/store/hierarchy.go and the roll-up of    *)
(* hierarchy_resolve.go: childOf edges, their cap, and the transitions     *)
(* with which a task that has children follows them.                       *)
(*                                                                         *)
(* Transactions run at READ COMMITTED.  One moves a task, then the task's  *)
(* parent, then the parent's; each of these writes takes the row's lock    *)
(* first and waits for it.  What a roll-up reads (the parent, its          *)
(* children) it reads in one step with the write that calls it: a lock     *)
(* that is taken later is no weaker.  Leases are here only as the set of   *)
(* tasks that have one; TaskLease models them.                             *)
(***************************************************************************)
EXTENDS Naturals, Sequences, FiniteSets

CONSTANTS
  Tasks,    \* tasks of one project, of kinds that may have children
  Fresh,    \* tasks whose id has not been allocated yet
  Clients,  \* connections that serve requests and webhooks
  Ops,      \* the operations clients use
  None

AllOps == {"manual", "pr", "patch", "claim", "release", "land", "facts", "edge",
           "unlink", "decompose", "delete"}

ASSUME OpsAssumption   == Ops \subseteq AllOps
ASSUME FreshAssumption == Fresh \subseteq Tasks
ASSUME TasksAssumption == IsFiniteSet(Tasks)

VARIABLES
  state,    \* tasks.state, "none" before the row exists
  deleted,  \* tasks.deleted_at IS NOT NULL
  gated,    \* tasks with a landed commit in a repository that has its
            \* done_state past merged
  up,       \* task_edges of type childOf: <<child, parent>>
  leased,   \* tasks with an active lease
  tx,       \* open transactions
  raced     \* history: an edge was added by overlapping transactions

rows == <<state, deleted, gated, up, leased, raced>>
vars == <<rows, tx>>

-----------------------------------------------------------------------------
(* The task state machine.  released stands for the last state of either     *)
(* branch of delivery, deployed_prod or released; done_state is it or merged.*)

States == {"draft", "ready", "in_progress", "in_review", "merged", "deployed_dev",
           "released", "abandoned", "completed"}
openStates       == {"ready", "in_progress", "in_review"}
reopenableStates == {"merged", "deployed_dev", "released", "abandoned", "completed"}

ASSUME NoneAssumption == None \notin Tasks \union States

legalTransitions ==
  {<<"draft", "ready">>, <<"ready", "in_progress">>, <<"ready", "in_review">>,
   <<"in_progress", "in_review">>, <<"in_progress", "ready">>,
   <<"in_review", "in_progress">>, <<"draft", "abandoned">>,
   <<"merged", "deployed_dev">>, <<"merged", "released">>, <<"deployed_dev", "released">>}
  \union (openStates \X {"merged", "abandoned", "completed"})
  \union (reopenableStates \X {"ready"})

containerForbiddenStates == {"in_review", "deployed_dev", "released"}

-----------------------------------------------------------------------------
(* Transactions.  ov holds the states a transaction has written, stack the  *)
(* transitions it has still to make, kids the tasks it puts under t, land    *)
(* what it does to the commits of t.                                        *)

NoTx == [at |-> "idle", t |-> None, hard |-> FALSE, flip |-> FALSE,
         lease |-> "keep", land |-> "keep", kids |-> {}, ov |-> [t \in Tasks |-> None],
         stack |-> <<>>, alone |-> FALSE]

Transactions ==
  [at : {"idle", "open", "edge", "refused"}, t : Tasks \union {None},
   hard : BOOLEAN, flip : BOOLEAN, lease : {"keep", "take", "end"},
   land : {"keep", "gate", "clear"}, kids : SUBSET Tasks, ov : [Tasks -> States \union {None}],
   stack : Seq(Tasks \X States), alone : BOOLEAN]

Idle(p) == tx[p].at = "idle"

\* Opening a transaction ends the solitude of every other.
Open(p, r) ==
  tx' = [q \in Clients |->
           IF q = p THEN [r EXCEPT !.alone = \A o \in Clients \ {p} : Idle(o)]
           ELSE [tx[q] EXCEPT !.alone = FALSE]]

Goto(p, r) == tx' = [tx EXCEPT ![p] = r]

Holds(p, t) ==
  tx[p].at = "open" /\ (tx[p].ov[t] # None \/ (tx[p].t = t /\ tx[p].hard))
RowFree(p, t) == \A q \in Clients \ {p} : ~Holds(q, t)

\* FOR UPDATE on an endpoint keeps a foreign key from being checked.
KeyFree(p, t) == \A q \in Clients \ {p} : ~(tx[q].at = "open" /\ tx[q].t = t /\ tx[q].hard)

\* What the transaction r sees: committed rows and its own.
StateIn(r, t) == IF r.ov[t] # None THEN r.ov[t] ELSE state[t]
GoneIn(r, t)  == deleted[t] # (r.flip /\ r.t = t)
EdgesIn(r)    == IF r.at = "open" THEN up \union (r.kids \X {r.t}) ELSE up

\* childStates and hasChildren count live children only.
Children(r, t)    == {c \in Tasks : <<c, t>> \in EdgesIn(r) /\ ~GoneIn(r, c)}
hasChildren(t)    == Children(NoTx, t) # {}
parentOf(r, t)    == {q \in Tasks : <<t, q>> \in EdgesIn(r)}

GatedIn(r) == CASE r.land = "gate"  -> gated \union {r.t}
                [] r.land = "clear" -> gated \ {r.t}
                [] OTHER            -> gated

\* A delivered task is closed at the done_state of every repository it landed
\* in; one with children, or with no commit, at merged.
taskClosed(r, t) ==
  \/ StateIn(r, t) \in {"abandoned", "completed", "released"}
  \/ /\ StateIn(r, t) \in {"merged", "deployed_dev"}
     /\ t \in GatedIn(r) => Children(r, t) # {}

-----------------------------------------------------------------------------
(* The roll-up *)

\* Closed by its state, whatever its repositories wait for.
containerTargetByState(r, q) ==
  LET C == {StateIn(r, c) : c \in Children(r, q)} IN
  IF C \subseteq {"abandoned"} THEN "abandoned"
  ELSE IF C \subseteq {"abandoned", "completed"} THEN "completed"
  ELSE IF C \subseteq reopenableStates THEN "merged"
  ELSE IF C \subseteq {"draft", "ready"} THEN "ready" ELSE "in_progress"

containerTarget(r, q) ==
  LET K == Children(r, q)  C == {StateIn(r, c) : c \in K} IN
  IF C \subseteq {"abandoned"} THEN "abandoned"
  ELSE IF C \subseteq {"abandoned", "completed"} THEN "completed"
  ELSE IF \A c \in K : taskClosed(r, c) THEN "merged"
  ELSE IF C \subseteq {"draft", "ready"} THEN "ready" ELSE "in_progress"

\* A roll-up that publishes drafts.
ResolveHierarchyDrafts(r, q) ==
  LET s == StateIn(r, q)  target == containerTarget(r, q) IN
  IF GoneIn(r, q) \/ Children(r, q) = {} \/ target = s THEN <<>>
  ELSE IF <<s, target>> \in legalTransitions \/ s = "draft" THEN <<<<q, target>>>>
  ELSE IF <<s, "ready">> \in legalTransitions THEN <<<<q, "ready">>, <<q, target>>>>
  ELSE <<>>

\* The transitions q needs to follow its children, by way of ready if need be.
ResolveHierarchy(r, q) ==
  LET s == StateIn(r, q)  target == containerTarget(r, q) IN
  IF GoneIn(r, q) \/ s = "draft" \/ Children(r, q) = {} \/ target = s THEN <<>>
  ELSE IF <<s, target>> \in legalTransitions THEN <<<<q, target>>>>
  ELSE IF <<s, "ready">> \in legalTransitions THEN <<<<q, "ready">>, <<q, target>>>>
  ELSE <<>>

\* Transition refuses to take a task with children out of a forbidden state,
\* and the refusal is the whole transaction's.
Follow(r, q) ==
  LET moves == ResolveHierarchy(r, q) IN
  IF moves # <<>> /\ StateIn(r, q) \in containerForbiddenStates
  THEN [r EXCEPT !.at = "refused"]
  ELSE [r EXCEPT !.stack = moves \o @]

resolveParent(r, t) ==
  IF parentOf(r, t) = {} THEN r ELSE Follow(r, CHOOSE q \in parentOf(r, t) : TRUE)

-----------------------------------------------------------------------------
(* Transitions that begin with a read *)

\* legalTransitions and the bar on containers, as the committed row has it.
MayMove(t, to) ==
  /\ <<state[t], to>> \in legalTransitions
  /\ {state[t], to} \intersect containerForbiddenStates # {} => ~hasChildren(t)

BeginMove(p, t, to, lease, land) ==
  /\ Idle(p)
  /\ Open(p, [NoTx EXCEPT !.at = "open", !.t = t, !.lease = lease, !.land = land,
                          !.stack = <<<<t, to>>>>])
  /\ UNCHANGED rows

\* A state set by hand, complete, abandon, reopen.  A task with children is not
\* set to merged or completed by hand; reopening clears the task's commits.
finishTask(p, t, to) ==
  /\ "manual" \in Ops /\ MayMove(t, to)
  /\ to \in reopenableStates \/ (to = "ready" /\ state[t] \in reopenableStates)
  /\ to \in {"merged", "completed"} => ~hasChildren(t)
  /\ BeginMove(p, t, to, "end", IF to = "ready" THEN "clear" ELSE "keep")

applyPullRequest(p, t) ==
  /\ "pr" \in Ops /\ state[t] = "in_progress" /\ MayMove(t, "in_review")
  /\ BeginMove(p, t, "in_review", "keep", "keep")

\* Release and the sweep.  A task that has left in_progress keeps its state.
closeLease(p, t) ==
  /\ "release" \in Ops /\ t \in leased /\ Idle(p)
  /\ IF state[t] = "in_progress" THEN BeginMove(p, t, "ready", "end", "keep")
     ELSE leased' = leased \ {t} /\ UNCHANGED <<state, deleted, gated, up, raced, tx>>

\* Transition's UPDATE, and the roll-up it calls.
Write(p) ==
  LET m == Head(tx[p].stack)
      r == [tx[p] EXCEPT !.ov[m[1]] = m[2], !.stack = Tail(@)] IN
  /\ tx[p].at = "open" /\ tx[p].stack # <<>> /\ RowFree(p, m[1])
  /\ Goto(p, resolveParent(r, m[1]))
  /\ UNCHANGED rows

-----------------------------------------------------------------------------
(* Transitions that begin with the row's lock *)

Lock(p, t, to, hard, lease, flip) ==
  LET r == [NoTx EXCEPT !.at = "open", !.t = t, !.hard = hard, !.lease = lease,
                        !.flip = flip, !.ov[t] = to] IN
  /\ Idle(p) /\ state[t] # "none" /\ RowFree(p, t)
  /\ Open(p, resolveParent(r, t))
  /\ UNCHANGED rows

\* PATCH: publish, submit for review, rework.
updateTask(p, t, to) ==
  /\ "patch" \in Ops /\ MayMove(t, to)
  /\ <<state[t], to>> \in {<<"draft", "ready">>, <<"in_review", "in_progress">>,
                           <<"in_progress", "in_review">>}
  /\ Lock(p, t, to, FALSE, "keep", FALSE)

\* Claim had its SELECT not said FOR UPDATE, and its UPDATE come last.
ClaimUnlocked(p, t) ==
  /\ "claim" \in Ops /\ state[t] = "ready" /\ ~deleted[t] /\ ~hasChildren(t)
  /\ t \notin leased
  /\ BeginMove(p, t, "in_progress", "take", "keep")

Claim(p, t) ==
  /\ "claim" \in Ops /\ state[t] = "ready" /\ ~deleted[t] /\ ~hasChildren(t)
  /\ t \notin leased
  /\ Lock(p, t, "in_progress", TRUE, "take", FALSE)

\* What the facts support past merged, which each of its states rolls up.
Deliveries(t) ==
  {d \in {<<"merged">>, <<"merged", "deployed_dev">>, <<"merged", "released">>,
         <<"merged", "deployed_dev", "released">>, <<"deployed_dev">>, <<"released">>,
         <<"deployed_dev", "released">>} :
     CASE state[t] \in openStates    -> d[1] = "merged"
       [] state[t] = "merged"        -> d[1] # "merged"
       [] state[t] = "deployed_dev"  -> d = <<"released">>
       [] OTHER                      -> FALSE}

\* The commit it brings in is one of a repository that waits for more, or not.
ResolveDelivery(p, t, d, land) ==
  LET r == [NoTx EXCEPT !.at = "open", !.t = t, !.hard = TRUE, !.ov[t] = d[1],
                        !.land = land,
                        !.stack = [i \in 1..Len(d) - 1 |-> <<t, d[i + 1]>>]] IN
  /\ "land" \in Ops /\ Idle(p) /\ RowFree(p, t) /\ ~deleted[t] /\ ~hasChildren(t)
  /\ Open(p, resolveParent(r, t))
  /\ UNCHANGED rows

\* A commit recorded of a task that does not move, a done_state set anew: no
\* transition, and so no roll-up.
FactsChange(p, t) ==
  /\ "facts" \in Ops /\ Idle(p) /\ state[t] # "none" /\ Open(p, NoTx)
  /\ gated' \in {gated \union {t}, gated \ {t}}
  /\ UNCHANGED <<state, deleted, up, leased, raced>>

\* An in_progress task goes back to ready; either way the parent loses a child.
DeleteTask(p, t) ==
  /\ "delete" \in Ops /\ ~deleted[t]
  /\ Lock(p, t, IF state[t] = "in_progress" THEN "ready" ELSE state[t], TRUE, "end",
          TRUE)

UndeleteTask(p, t) ==
  /\ "delete" \in Ops /\ deleted[t]
  /\ Lock(p, t, state[t], TRUE, "keep", TRUE)

-----------------------------------------------------------------------------
(* Edges *)

maxHierarchyDepth == 2

\* What n steps along E reach from t, t included.
Reach(E, t) ==
  LET f[n \in 0..Cardinality(Tasks)] ==
        IF n = 0 THEN {t} ELSE f[n - 1] \union {b \in Tasks : \E a \in f[n - 1] : <<a, b>> \in E}
  IN f

reaches(E, t) == Reach(E, t)[Cardinality(Tasks)]
Depth(E, t)   == Cardinality({n \in 1..Cardinality(Tasks) : Reach(E, t)[n] # Reach(E, t)[n - 1]})

ancestorHops(t)    == Depth(up, t)
descendantDepth(t) == Depth({<<e[2], e[1]>> : e \in up}, t)

\* No walk up from the parent: a child may be given its own descendants.
checkHierarchyLocal(c, q) ==
  /\ parentOf(NoTx, c) = {}
  /\ descendantDepth(c) < maxHierarchyDepth

checkHierarchy(c, q) ==
  /\ parentOf(NoTx, c) = {}
  /\ c \notin reaches(up, q)
  /\ ancestorHops(q) + 1 + descendantDepth(c) <= maxHierarchyDepth

AddEdge(p, c, q) ==
  /\ "edge" \in Ops /\ Idle(p) /\ c # q /\ "none" \notin {state[c], state[q]}
  /\ checkHierarchy(c, q)
  /\ Open(p, [NoTx EXCEPT !.at = "edge", !.t = q, !.kids = {c}])
  /\ UNCHANGED rows

\* No index to stop a second parent.
EdgeCommitUnindexed(p) ==
  /\ tx[p].at = "edge" /\ \A t \in tx[p].kids \union {tx[p].t} : KeyFree(p, t)
  /\ Goto(p, NoTx)
  /\ up' = up \union (tx[p].kids \X {tx[p].t})
  /\ raced' = (raced \/ ~tx[p].alone)
  /\ UNCHANGED <<state, deleted, gated, leased>>

\* The INSERT: its foreign keys wait for rows locked FOR UPDATE, and the index
\* task_edges_single_parent stops a second parent.
EdgeCommit(p) ==
  /\ tx[p].at = "edge" /\ \A t \in tx[p].kids \union {tx[p].t} : KeyFree(p, t)
  /\ Goto(p, NoTx)
  /\ IF \E c \in tx[p].kids : parentOf(NoTx, c) # {} THEN UNCHANGED <<up, raced>>
     ELSE /\ up' = up \union (tx[p].kids \X {tx[p].t})
          /\ raced' = (raced \/ ~tx[p].alone)
  /\ UNCHANGED <<state, deleted, gated, leased>>

RemoveEdge(p, e) ==
  /\ "unlink" \in Ops /\ Idle(p) /\ Open(p, NoTx)
  /\ up' = up \ {e}
  /\ UNCHANGED <<state, deleted, gated, leased, raced>>

\* The project's counter lets one transaction at a time create tasks.
Unallocated == {f \in Fresh : state[f] = "none"}
CounterFree(p) == \A q \in Clients \ {p} : ~(tx[q].at = "open" /\ tx[q].kids # {})

Decompose(p, t, K) ==
  LET r == [NoTx EXCEPT !.at = "open", !.t = t, !.hard = TRUE, !.kids = K,
                        !.ov = [c \in Tasks |-> IF c \in K THEN "draft" ELSE None]] IN
  /\ "decompose" \in Ops /\ Idle(p) /\ RowFree(p, t) /\ CounterFree(p)
  /\ K # {} /\ state[t] \notin containerForbiddenStates \union {"none"}
  /\ ~hasChildren(t) /\ t \notin leased
  /\ ancestorHops(t) + 1 <= maxHierarchyDepth
  /\ Open(p, Follow(r, t))
  /\ UNCHANGED rows

-----------------------------------------------------------------------------
(* Ends of transactions *)

Commit(p) ==
  LET r == tx[p] IN
  /\ r.at = "open" /\ r.stack = <<>>
  /\ Goto(p, NoTx)
  /\ state' = [t \in Tasks |-> StateIn(r, t)]
  /\ deleted' = [t \in Tasks |-> GoneIn(r, t)]
  /\ gated' = GatedIn(r)
  /\ up' = EdgesIn(r)
  /\ leased' = CASE r.lease = "take" -> leased \union {r.t}
                 [] r.lease = "end"  -> leased \ {r.t}
                 [] OTHER            -> leased
  /\ raced' = (raced \/ (r.kids # {} /\ ~r.alone))

\* A lost connection, a deadlock's victim, a refusal.
Rollback(p) == ~Idle(p) /\ Goto(p, NoTx) /\ UNCHANGED rows

Init ==
  /\ state \in {s \in [Tasks -> {"none", "draft", "ready"}] :
                  \A t \in Tasks : s[t] = "none" <=> t \in Fresh}
  /\ deleted = [t \in Tasks |-> FALSE]
  /\ gated = {} /\ up = {} /\ leased = {} /\ raced = FALSE
  /\ tx = [p \in Clients |-> NoTx]

Step(p) == Write(p) \/ EdgeCommit(p) \/ Commit(p) \/ Rollback(p)

Request(p) ==
  \/ \E t \in Tasks : \/ applyPullRequest(p, t) \/ closeLease(p, t) \/ Claim(p, t)
                      \/ FactsChange(p, t) \/ DeleteTask(p, t) \/ UndeleteTask(p, t)
  \/ \E t \in Tasks : \E d \in Deliveries(t), land \in {"keep", "gate"} :
       ResolveDelivery(p, t, d, land)
  \/ \E t \in Tasks, to \in States : finishTask(p, t, to) \/ updateTask(p, t, to)
  \/ \E c, q \in Tasks : AddEdge(p, c, q)
  \/ \E e \in up : RemoveEdge(p, e)
  \/ \E t \in Tasks, K \in SUBSET Unallocated : Decompose(p, t, K)

Next == \E p \in Clients : Step(p) \/ Request(p)

Spec == Init /\ [][Next]_vars

-----------------------------------------------------------------------------
(* Properties *)

\* Every variable keeps its shape, and edges and leases are of tasks that exist.
TypeOK ==
  /\ state \in [Tasks -> States \union {"none"}]
  /\ deleted \in [Tasks -> BOOLEAN]
  /\ LET T == {t \in Tasks : state[t] # "none"} IN up \subseteq T \X T /\ leased \subseteq T /\ gated \subseteq T
  /\ raced \in BOOLEAN
  /\ tx \in [Clients -> Transactions]

\* A task has one parent, whichever way transactions that give it one overlap:
\* the walk of parentOf, ancestorHops and the roll-up rest on it.
OneParent == \A t \in Tasks : \A q1, q2 \in parentOf(NoTx, t) : q1 = q2

\* While no edge was added by overlapping transactions, childOf is a forest at
\* most maxHierarchyDepth deep, as AddEdge and Decompose check by walking it
\* both ways.
Forest ==
  ~raced => \A t \in Tasks : /\ ancestorHops(t) <= maxHierarchyDepth
                             /\ \A q \in parentOf(NoTx, t) : t \notin reaches(up, q)

\* Of a claim and a decomposition of one task that overlap one is refused: both
\* lock the row before they look for children or for a lease.  (UndeleteTask
\* locks only the child, and can slip it under a claim: for Ops without delete.)
HeldNotSplit ==
  [][\A p \in Clients : Commit(p) =>
       /\ tx[p].kids # {} => tx[p].t \notin leased
       /\ tx[p].lease = "take" => ~hasChildren(tx[p].t)]_vars

\* The roll-up table, said of stored rows: what a parent's live children say of
\* it, closed as their repositories have it.  Drafts, tombstones and a parent in
\* review do not follow.
TableSays(q) ==
  LET K == Children(NoTx, q) IN
  \/ K = {} \/ deleted[q] \/ state[q] \in {"draft", "in_review"}
  \/ /\ state[q] = "abandoned" <=> \A c \in K : state[c] = "abandoned"
     /\ state[q] = "completed" <=> /\ \E c \in K : state[c] = "completed"
                                  /\ \A c \in K : state[c] \in {"abandoned", "completed"}
     /\ state[q] = "merged"    <=> /\ \E c \in K : state[c] \notin {"abandoned", "completed"}
                                  /\ \A c \in K : taskClosed(NoTx, c)
     /\ state[q] = "ready"     <=> \A c \in K : state[c] \in {"draft", "ready"}

Moved(p) == {t \in Tasks : tx[p].ov[t] # None \/ (tx[p].flip /\ tx[p].t = t)}

\* A transaction that no other overlaps leaves the parent of every task it
\* moves, deletes or restores, and that parent's parent, as the table has it:
\* also across a reopen by way of ready and the creation of children.
RolledUpAlone ==
  [][\A p \in Clients : \A t \in Tasks :
       Commit(p) /\ tx[p].alone /\ ~raced /\ t \in Moved(p)
         => \A q \in Tasks : <<t, q>> \in up' => TableSays(q)']_vars

\* However transactions overlap, the roll-up publishes no draft: only the task
\* a request names leaves that state.
DraftsStayDraft ==
  [][\A p \in Clients : \A t \in Tasks :
       Commit(p) /\ state[t] = "draft" /\ state'[t] # "draft" => t = tx[p].t]_vars
=============================================================================

----------------------------- MODULE TaskLease -----------------------------
(***************************************************************************)
(* Task state, leases and agent sessions (internal/store/leases.go,        *)
(* tasks.go, assign.go, softdelete.go, agent_sessions.go and the handlers  *)
(* that drive them) as READ COMMITTED transactions.                        *)
(*                                                                         *)
(* A transaction is a sequence of statements.  A read sees what has        *)
(* committed; a write locks its row until the transaction ends; tx[p] says *)
(* which statement p has reached and so which row it holds.  Statements    *)
(* that cannot wait or be overtaken any more are one step, and the last    *)
(* write of a transaction is one step with its commit.  A transaction that *)
(* locks the task's row in its first statement is a single step, unless it *)
(* waits for a second row.                                                 *)
(***************************************************************************)
EXTENDS Naturals, FiniteSets

CONSTANTS
  Tasks,      \* leaf tasks of a claimable kind, none of them blocked
  Actors, Worktrees,
  Clients,    \* connections that serve requests and webhooks
  Sweepers,   \* replicas of the lease sweeper
  Ops,        \* the operations clients use
  MaxLease,   \* bound: leases ever inserted
  None

Procs == Clients \union Sweepers
Ids   == 1 .. MaxLease

AllOps == {"claim", "renew", "rebind", "release", "session", "manual", "pr",
           "land", "patch", "review", "start", "assign", "delete"}

ASSUME OpsAssumption   == Ops \subseteq AllOps
ASSUME BoundAssumption == MaxLease \in Nat
ASSUME ProcsAssumption == Clients \intersect Sweepers = {}
ASSUME NoneAssumption  == None \notin Tasks \union Actors \union Worktrees

VARIABLES
  state,    \* tasks.state
  owner,    \* tasks.assignee
  deleted,  \* tasks.deleted_at IS NOT NULL
  made,     \* leases inserted so far
  lease,    \* rows of leases; due: expires_at < now
  session,  \* the agent session of each lease
  expired,  \* leases with a committed lease-expired-<id> event
  todo,     \* candidates a sweeper has read
  tx        \* open transactions

taskVars  == <<state, owner, deleted>>
leaseVars == <<made, lease, session, expired>>
vars      == <<taskVars, leaseVars, todo, tx>>

-----------------------------------------------------------------------------
(* The task state machine.  deployed_dev, deployed_prod and released stand  *)
(* behind merged and behave like it here.                                   *)

States == {"draft", "ready", "in_progress", "in_review", "merged", "abandoned",
           "completed"}
openStates == {"ready", "in_progress", "in_review"}
reopenable == {"merged", "abandoned", "completed"}

legalTransitions ==
  {<<"draft", "ready">>, <<"ready", "in_progress">>, <<"ready", "in_review">>,
   <<"in_progress", "in_review">>, <<"in_progress", "ready">>,
   <<"in_review", "in_progress">>, <<"draft", "abandoned">>}
  \union (openStates \X reopenable) \union (reopenable \X {"ready"})

\* What done, complete, abandon and reopen may do: reopen alone targets ready.
ManualMove(from, to) ==
  /\ <<from, to>> \in legalTransitions
  /\ to \in reopenable \/ (to = "ready" /\ from \in reopenable)

-----------------------------------------------------------------------------
(* Rows and their locks *)

NoLease == [task |-> None, actor |-> None, wt |-> None, active |-> FALSE,
            due |-> FALSE]
NoTx == [at |-> "idle", task |-> None, lease |-> 0, actor |-> None, wt |-> None,
         to |-> None, ends |-> FALSE]

Active(l)     == lease[l].active
ActiveOn(t)   == {l \in Ids : Active(l) /\ lease[l].task = t}
heldLease(a, t) == {l \in ActiveOn(t) : lease[l].actor = a}

\* HoldsTask had Claim read the task without FOR UPDATE.
HoldsTaskNotClaim(p, t) == tx[p].at \in {"moved", "removed"} /\ tx[p].task = t

HoldsTask(p, t)  == tx[p].at \in {"claimed", "moved", "removed"} /\ tx[p].task = t
HoldsLease(p, l) == tx[p].at = "closing" /\ tx[p].lease = l
TaskFree(t)  == \A p \in Procs : ~HoldsTask(p, t)
LeaseFree(l) == \A p \in Procs : ~HoldsLease(p, l)

Idle(p)     == tx[p].at = "idle"
Step(p, r)  == tx' = [tx EXCEPT ![p] = r]
End(p)      == Step(p, NoTx)

\* leases_active and leases_active_worktree, the partial unique indexes.
IndexTaken(l, t, a, w) ==
  \E k \in Ids \ {l} :
    Active(k) /\ (lease[k].task = t \/ (lease[k].actor = a /\ lease[k].wt = w))

\* What every close does to the lease and its sessions.
Close(l, ends) ==
  /\ lease' = [lease EXCEPT ![l].active = FALSE]
  /\ session' = [session EXCEPT ![l] = IF ends THEN "ended" ELSE @]

-----------------------------------------------------------------------------
(* Claim: the task's row is locked from the first statement on. *)

Claim(p, a, t, w) ==
  /\ "claim" \in Ops /\ made < MaxLease /\ Idle(p) /\ TaskFree(t)
  /\ ~deleted[t] /\ ActiveOn(t) = {} /\ state[t] = "ready"
  /\ Step(p, [NoTx EXCEPT !.at = "claimed", !.task = t, !.actor = a, !.wt = w])
  /\ UNCHANGED <<taskVars, leaseVars, todo>>

\* The INSERT, or ErrLeased when an index refuses it (or the bound does).
ClaimInsert(p) ==
  LET r == tx[p]  l == made + 1 IN
  /\ r.at = "claimed"
  /\ IF made = MaxLease \/ IndexTaken(l, r.task, r.actor, r.wt)
     THEN UNCHANGED <<taskVars, leaseVars>>
     ELSE /\ made' = l
          /\ lease' = [lease EXCEPT ![l] =
               [task |-> r.task, actor |-> r.actor, wt |-> r.wt, active |-> TRUE,
                due |-> FALSE]]
          /\ state' = [state EXCEPT ![r.task] = "in_progress"]
          /\ UNCHANGED <<owner, deleted, session, expired>>
  /\ End(p)
  /\ UNCHANGED todo

-----------------------------------------------------------------------------
(* The holder's calls read the lease without a lock and write it by id. *)

ReadLease(p, a, t, op, at) ==
  /\ op \in Ops /\ Idle(p)
  /\ \E l \in heldLease(a, t) :
       Step(p, [NoTx EXCEPT !.at = at, !.task = t, !.lease = l])
  /\ UNCHANGED <<taskVars, leaseVars, todo>>

\* Renew had it written back the row it read.
RenewWholeRow(p) ==
  LET l == tx[p].lease IN
  /\ tx[p].at = "renewing" /\ LeaseFree(l)
  /\ lease' = [lease EXCEPT ![l].due = FALSE, ![l].active = TRUE]
  /\ End(p)
  /\ UNCHANGED <<taskVars, made, session, expired, todo>>

Renew(p) ==
  LET l == tx[p].lease IN
  /\ tx[p].at = "renewing" /\ LeaseFree(l)
  /\ lease' = [lease EXCEPT ![l].due = FALSE]
  /\ End(p)
  /\ UNCHANGED <<taskVars, made, session, expired, todo>>

RebindLeaseWorktree(p, w) ==
  LET l == tx[p].lease IN
  /\ tx[p].at = "rebinding" /\ LeaseFree(l)
  /\ lease' = IF Active(l) /\ IndexTaken(l, None, lease[l].actor, w)
              THEN lease ELSE [lease EXCEPT ![l].wt = w]
  /\ End(p)
  /\ UNCHANGED <<taskVars, made, session, expired, todo>>

\* TouchAgentSession had its read not said FOR SHARE.
TouchAgentSessionUnlocked(p) ==
  LET l == tx[p].lease IN
  /\ tx[p].at = "touching"
  /\ session' = [session EXCEPT ![l] = IF Active(l) THEN "open" ELSE @]
  /\ End(p)
  /\ UNCHANGED <<taskVars, made, lease, expired, todo>>

\* Insert or bump: both read the lease FOR SHARE and write in the same breath.
TouchAgentSession(p) ==
  LET l == tx[p].lease IN
  /\ tx[p].at = "touching" /\ LeaseFree(l)
  /\ session' = [session EXCEPT ![l] = IF Active(l) THEN "open" ELSE @]
  /\ End(p)
  /\ UNCHANGED <<taskVars, made, lease, expired, todo>>

EndAgentSession(p) ==
  LET l == tx[p].lease IN
  /\ tx[p].at = "ending"
  /\ session' = [session EXCEPT ![l] = IF @ = "open" THEN "ended" ELSE @]
  /\ End(p)
  /\ UNCHANGED <<taskVars, made, lease, expired, todo>>

-----------------------------------------------------------------------------
(* closeLease, for Release and for the sweeper *)

Recorded(p) == IF p \in Sweepers THEN expired \union {tx[p].lease} ELSE expired

\* UPDATE leases by id, end its sessions, revoke the task's tokens, read the
\* task's state.  Unless that is in_progress there is nothing left to wait for.
closeLease(p) ==
  LET l == tx[p].lease IN
  /\ tx[p].at \in {"releasing", "expiring"} /\ LeaseFree(l)
  /\ IF state[lease[l].task] = "in_progress"
     THEN /\ Step(p, [tx[p] EXCEPT !.at = "closing", !.ends = session[l] = "open"])
          /\ UNCHANGED <<lease, session, expired>>
     ELSE Close(l, session[l] = "open") /\ expired' = Recorded(p) /\ End(p)
  /\ UNCHANGED <<taskVars, made, todo>>

\* Transition's UPDATE names the task's id alone.
CloseCommit(p) ==
  LET l == tx[p].lease IN
  /\ tx[p].at = "closing" /\ TaskFree(lease[l].task)
  /\ Close(l, tx[p].ends)
  /\ state' = [state EXCEPT ![lease[l].task] = "ready"]
  /\ expired' = Recorded(p)
  /\ End(p)
  /\ UNCHANGED <<owner, deleted, made, todo>>

ExpireLeases(s) ==
  /\ Idle(s) /\ todo[s] = {}
  /\ todo' = [todo EXCEPT ![s] = {l \in Ids : Active(l) /\ lease[l].due}]
  /\ todo'[s] # {}
  /\ UNCHANGED <<taskVars, leaseVars, tx>>

\* Recheck had it not waited for an event still in doubt.
RecheckInDoubt(s, l) ==
  /\ Idle(s) /\ l \in todo[s] /\ \A k \in todo[s] : l <= k
  /\ todo' = [todo EXCEPT ![s] = @ \ {l}]
  /\ IF l \in expired THEN UNCHANGED <<expired, tx>>
     ELSE IF Active(l)
       THEN Step(s, [NoTx EXCEPT !.at = "expiring", !.lease = l]) /\ UNCHANGED expired
       ELSE expired' = expired \union {l} /\ UNCHANGED tx
  /\ UNCHANGED <<taskVars, made, lease, session>>

\* Recheck had the event been named after the task and not the lease.
RecheckPerTask(s, l) ==
  /\ Idle(s) /\ l \in todo[s] /\ \A k \in todo[s] : l <= k
  /\ todo' = [todo EXCEPT ![s] = @ \ {l}]
  /\ IF \E k \in expired : lease[k].task = lease[l].task
     THEN UNCHANGED <<expired, tx>>
     ELSE IF Active(l)
       THEN Step(s, [NoTx EXCEPT !.at = "expiring", !.lease = l]) /\ UNCHANGED expired
       ELSE expired' = expired \union {l} /\ UNCHANGED tx
  /\ UNCHANGED <<taskVars, made, lease, session>>

\* One candidate: its event's external id admits one transaction, which then
\* looks whether the lease is still unreleased.
Recheck(s, l) ==
  /\ Idle(s) /\ l \in todo[s] /\ \A k \in todo[s] : l <= k
  /\ \A q \in Sweepers : tx[q].at # "idle" => tx[q].lease # l
  /\ todo' = [todo EXCEPT ![s] = @ \ {l}]
  /\ IF l \in expired THEN UNCHANGED <<expired, tx>>
     ELSE IF Active(l)
       THEN Step(s, [NoTx EXCEPT !.at = "expiring", !.lease = l]) /\ UNCHANGED expired
       ELSE expired' = expired \union {l} /\ UNCHANGED tx
  /\ UNCHANGED <<taskVars, made, lease, session>>

-----------------------------------------------------------------------------
(* finishTask (done, complete, abandon, reopen) and DeleteTask: the task's  *)
(* row first, then CloseActiveLease.                                        *)

\* TaskState and Transition read the state without a lock.
finishTask(p, t, to) ==
  /\ "manual" \in Ops /\ Idle(p) /\ ManualMove(state[t], to)
  /\ Step(p, [NoTx EXCEPT !.at = "moving", !.task = t, !.to = to])
  /\ UNCHANGED <<taskVars, leaseVars, todo>>

\* Transition's UPDATE: the state it writes is the one decided above.
MoveWrite(p) ==
  /\ tx[p].at = "moving" /\ TaskFree(tx[p].task)
  /\ Step(p, [tx[p] EXCEPT !.at = "moved"])
  /\ UNCHANGED <<taskVars, leaseVars, todo>>

\* DeleteTask locks before it reads; an in_progress task goes back to ready.
DeleteTask(p, t) ==
  /\ "delete" \in Ops /\ Idle(p) /\ TaskFree(t) /\ ~deleted[t]
  /\ Step(p, [NoTx EXCEPT !.at = "removed", !.task = t,
                !.to = IF state[t] = "in_progress" THEN "ready" ELSE state[t]])
  /\ UNCHANGED <<taskVars, leaseVars, todo>>

\* CloseActiveLease had it passed over a row another transaction has locked.
CloseActiveLeaseSkipLocked(t) ==
  LET free == {l \in ActiveOn(t) : LeaseFree(l)} IN
  IF free = {} THEN UNCHANGED <<lease, session>>
  ELSE \E l \in free : Close(l, session[l] = "open")

CloseActiveLease(t) ==
  IF ActiveOn(t) = {} THEN UNCHANGED <<lease, session>>
  ELSE \E l \in ActiveOn(t) : LeaseFree(l) /\ Close(l, session[l] = "open")

MoveCommit(p) ==
  LET t == tx[p].task IN
  /\ tx[p].at \in {"moved", "removed"}
  /\ CloseActiveLease(t)
  /\ state' = [state EXCEPT ![t] = tx[p].to]
  /\ deleted' = [deleted EXCEPT ![t] = @ \/ tx[p].at = "removed"]
  /\ End(p)
  /\ UNCHANGED <<owner, made, expired, todo>>

-----------------------------------------------------------------------------
(* The pull-request webhook: opened or ready_for_review. *)

applyPullRequest(p, t) ==
  /\ "pr" \in Ops /\ Idle(p) /\ state[t] = "in_progress"
  /\ Step(p, [NoTx EXCEPT !.at = "reviewing", !.task = t])
  /\ UNCHANGED <<taskVars, leaseVars, todo>>

ReviewCommit(p) ==
  LET t == tx[p].task IN
  /\ tx[p].at = "reviewing" /\ TaskFree(t)
  /\ state' = [state EXCEPT ![t] = "in_review"]
  /\ End(p)
  /\ UNCHANGED <<owner, deleted, leaseVars, todo>>

-----------------------------------------------------------------------------
(* Transactions that lock the task's row and need nothing else *)

MoveLocked(t, to) ==
  /\ TaskFree(t)
  /\ state' = [state EXCEPT ![t] = to]
  /\ UNCHANGED <<deleted, leaseVars, todo, tx>>

ResolveDelivery(t) ==
  /\ "land" \in Ops /\ ~deleted[t] /\ state[t] \in openStates
  /\ MoveLocked(t, "merged") /\ UNCHANGED owner

\* PATCH: publish a draft, submit for review, rework.
updateTask(t, to) ==
  /\ "patch" \in Ops
  /\ <<state[t], to>> \in {<<"draft", "ready">>, <<"in_review", "in_progress">>,
                           <<"in_progress", "in_review">>}
  /\ MoveLocked(t, to) /\ UNCHANGED owner

openTaskReview(t) ==
  /\ "review" \in Ops /\ ~deleted[t] /\ state[t] \in {"ready", "in_progress"}
  /\ MoveLocked(t, "in_review") /\ UNCHANGED owner

StartTask(t, a) ==
  /\ "start" \in Ops /\ state[t] = "ready" /\ owner[t] \in {None, a}
  /\ MoveLocked(t, "in_progress")
  /\ owner' = [owner EXCEPT ![t] = a]

StopTask(t, a) ==
  /\ "start" \in Ops /\ state[t] = "in_progress" /\ owner[t] = a
  /\ ActiveOn(t) = {}
  /\ MoveLocked(t, "ready") /\ UNCHANGED owner

\* AssignTask, and UnassignTask with None.
AssignTask(t, a) ==
  /\ "assign" \in Ops /\ TaskFree(t) /\ state[t] \notin reopenable
  /\ owner' = [owner EXCEPT ![t] = a]
  /\ UNCHANGED <<state, deleted, leaseVars, todo, tx>>

UndeleteTask(t) ==
  /\ "delete" \in Ops /\ TaskFree(t) /\ deleted[t]
  /\ deleted' = [deleted EXCEPT ![t] = FALSE]
  /\ UNCHANGED <<state, owner, leaseVars, todo, tx>>

-----------------------------------------------------------------------------
(* Time and faults *)

\* expires_at passes.
Lapse(l) ==
  /\ Active(l) /\ ~lease[l].due
  /\ lease' = [lease EXCEPT ![l].due = TRUE]
  /\ UNCHANGED <<taskVars, made, session, expired, todo, tx>>

\* A cancelled request, a refused statement, a lost connection or a crash
\* rolls the transaction back; a sweep ends at its first error.
Rollback(p) ==
  /\ ~Idle(p) /\ End(p)
  /\ todo' = IF p \in Sweepers THEN [todo EXCEPT ![p] = {}] ELSE todo
  /\ UNCHANGED <<taskVars, leaseVars>>

\* closeLease holds the lease's row and wants the task's, finishTask and
\* DeleteTask the other way round: Postgres picks a victim.
Deadlocked(p, q) ==
  /\ tx[p].at = "closing" /\ tx[q].at \in {"moved", "removed"}
  /\ tx[p].lease \in ActiveOn(tx[q].task)

DeadlockVictim(p, q) == Deadlocked(p, q) /\ (Rollback(p) \/ Rollback(q))

-----------------------------------------------------------------------------

Init ==
  /\ state \in [Tasks -> {"draft", "ready"}]
  /\ owner = [t \in Tasks |-> None]
  /\ deleted = [t \in Tasks |-> FALSE]
  /\ made = 0
  /\ lease = [l \in Ids |-> NoLease]
  /\ session = [l \in Ids |-> "none"]
  /\ expired = {}
  /\ todo = [s \in Sweepers |-> {}]
  /\ tx = [p \in Procs |-> NoTx]

\* A client's next statement, once its transaction is open.
Serve(p) ==
  \/ ClaimInsert(p) \/ Renew(p) \/ (\E w \in Worktrees : RebindLeaseWorktree(p, w))
  \/ TouchAgentSession(p) \/ EndAgentSession(p)
  \/ closeLease(p) \/ CloseCommit(p) \/ MoveWrite(p) \/ MoveCommit(p)
  \/ ReviewCommit(p)

Request(p) ==
  \E t \in Tasks :
    \/ \E a \in Actors :
         \/ \E w \in Worktrees : Claim(p, a, t, w)
         \/ ReadLease(p, a, t, "renew", "renewing")
         \/ ReadLease(p, a, t, "rebind", "rebinding")
         \/ ReadLease(p, a, t, "release", "releasing")
         \/ ReadLease(p, a, t, "session", "touching")
         \/ ReadLease(p, a, t, "session", "ending")
    \/ \E to \in States : finishTask(p, t, to)
    \/ DeleteTask(p, t) \/ applyPullRequest(p, t)

Sweep(s) == ExpireLeases(s) \/ \E l \in Ids : Recheck(s, l)

Locked(t) ==
  \/ ResolveDelivery(t) \/ openTaskReview(t) \/ UndeleteTask(t)
  \/ \E to \in States : updateTask(t, to)
  \/ \E a \in Actors : StartTask(t, a) \/ StopTask(t, a)
  \/ \E a \in Actors \union {None} : AssignTask(t, a)

Next ==
  \/ \E p \in Clients : Request(p)
  \/ \E p \in Procs : Serve(p) \/ Rollback(p)
  \/ \E s \in Sweepers : Sweep(s)
  \/ \E t \in Tasks : Locked(t)
  \/ \E l \in Ids : Lapse(l)

Spec == Init /\ [][Next]_vars

\* A transaction runs to its end, the sweeper keeps ticking, a deadlock is
\* broken and the clock runs.  Row locks are granted first come, first served:
\* a sweep that keeps being a deadlock's victim, or keeps finding the row
\* locked, gets its turn, and so does the finish it fights.  Nothing obliges a client to call.
Fairness ==
  /\ \A p \in Clients : WF_vars(Serve(p)) /\ SF_vars(MoveCommit(p))
  /\ \A s \in Sweepers :
       WF_vars(Sweep(s)) /\ SF_vars(closeLease(s)) /\ SF_vars(CloseCommit(s))
  /\ \A p, q \in Procs : WF_vars(DeadlockVictim(p, q))
  /\ \A l \in Ids : WF_vars(Lapse(l))

FairSpec == Spec /\ Fairness

-----------------------------------------------------------------------------
(* Properties *)

Row == [task : Tasks, actor : Actors, wt : Worktrees, active : BOOLEAN,
        due : BOOLEAN]
Tx == [at : {"idle", "claimed", "renewing", "rebinding", "touching", "ending",
             "releasing", "expiring", "closing", "moving", "moved", "removed",
             "reviewing"},
       task : Tasks \union {None}, lease : Ids \union {0},
       actor : Actors \union {None}, wt : Worktrees \union {None},
       to : States \union {None}, ends : BOOLEAN]

RowsTypeOK ==
  /\ state \in [Tasks -> States] /\ owner \in [Tasks -> Actors \union {None}]
  /\ deleted \in [Tasks -> BOOLEAN]
  /\ made \in 0 .. MaxLease
  /\ lease \in [Ids -> Row \union {NoLease}]
  /\ \A l \in Ids : l <= made <=> lease[l] # NoLease
  /\ session \in [Ids -> {"none", "open", "ended"}]

TxTypeOK ==
  /\ expired \subseteq 1 .. made /\ todo \in [Sweepers -> SUBSET (1 .. made)]
  /\ tx \in [Procs -> Tx]

\* Every variable holds a value of its kind; ids up to made name a row.
TypeOK == RowsTypeOK /\ TxTypeOK

\* A task has at most one active lease, and an actor at most one in a worktree,
\* however claims, rebinds and closes race.
OneLease ==
  \A k, l \in Ids :
    Active(k) /\ Active(l) /\ k # l =>
      /\ lease[k].task # lease[l].task
      /\ lease[k].actor # lease[l].actor \/ lease[k].wt # lease[l].wt

\* No session reads as live on a lease that has ended: a heartbeat that checked
\* the lease before it closed can neither open nor reopen one.
SessionsUnderLease == \A l \in Ids : session[l] = "open" => Active(l)

\* Claim's refusals hold at the moment the lease appears, not just when they
\* were checked, whoever claims, finishes, deletes or moves the task meanwhile:
\* it is live, ready and held by nobody, and goes to in_progress with the lease.
ClaimedFromReady ==
  [][ \A l \in Ids :
        Active(l)' /\ ~Active(l) =>
          LET t == lease'[l].task IN
          /\ state[t] = "ready" /\ ~deleted[t] /\ ActiveOn(t) = {}
          /\ state'[t] = "in_progress"
          /\ \A k \in Ids : Active(k)' /\ lease'[k].task = t => k = l ]_vars

\* A lease is swept at most once, by one replica, without the advisory lock:
\* the event's external id alone keeps concurrent and repeated sweeps apart.
SweptOnce ==
  \A s \in Sweepers : tx[s].at \in {"expiring", "closing"} =>
    /\ tx[s].lease \notin expired
    /\ \A r \in Sweepers \ {s} : ~Idle(r) => tx[r].lease # tx[s].lease

\* A tombstoned task holds no lease.
DeletedUnleased == \A t \in Tasks : deleted[t] => ActiveOn(t) = {}

\* An abandoned or completed task holds no lease.
FinishedUnleased ==
  \A t \in Tasks : state[t] \in {"abandoned", "completed"} => ActiveOn(t) = {}

\* No lease outlives its task's part in the work: the sweeper never tends a
\* hidden row and nobody holds what is abandoned or completed, whoever claims,
\* sweeps or releases while DeleteTask and finishTask are under way.
EndedUnleased == DeletedUnleased /\ FinishedUnleased

\* The tables as LeaseService sees them.
Offered == {t \in Tasks : state[t] = "ready" /\ ~deleted[t]}
Held    == {<<lease[l].task, l>> : l \in {k \in Ids : Active(k)}}
Spent   == {l \in Ids : l <= made /\ ~Active(l)}

Service == INSTANCE LeaseService
  WITH Grants <- Ids, offered <- Offered, held <- Held, spent <- Spent

\* The tables keep the service's promise: one grant at a time, from the offer,
\* and no call that writes a lease by id alone - renew, rebind, a sweep or a
\* release that comes too late - brings an ended one back or moves a task by it
\* to another.
ImplementsService == Service!Spec

\* Transactions that close a lease fail finitely often, deadlocks aside.
Fault(p) ==
  /\ tx[p].at \in {"releasing", "expiring", "closing", "moving", "moved", "removed"}
  /\ Rollback(p)
  /\ \A q \in Procs : ~Deadlocked(p, q) /\ ~Deadlocked(q, p)

FaultsCease == <>[][\A p \in Procs : ~Fault(p)]_vars

\* The sweeper reaches every lease whose holder has gone quiet: it ends, unless
\* it is renewed, however sweeps race with requests or lose a deadlock.
QuietLeasesEnd ==
  FaultsCease =>
    \A l \in Ids : Active(l) /\ lease[l].due ~> ~Active(l) \/ ~lease[l].due
=============================================================================

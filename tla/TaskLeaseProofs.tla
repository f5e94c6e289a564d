-------------------------- MODULE TaskLeaseProofs --------------------------
(* Theorems about TaskLease, for every number of tasks, actors, clients,    *)
(* sweepers and leases.                                                     *)
EXTENDS TaskLease, TLAPS

-----------------------------------------------------------------------------
(* The inductive invariant.  The rows satisfy the safety properties, and the *)
(* open transactions know what the row locks they hold entitle them to know. *)

NamesTask  == {"claimed", "moving", "moved", "removed", "reviewing"}
NamesLease == {"renewing", "rebinding", "touching", "ending", "releasing",
               "expiring", "closing"}

\* The rows a transaction is about exist.
Refers(r) ==
  /\ r.at \in NamesTask => r.task \in Tasks
  /\ r.at \in NamesLease => r.lease \in 1 .. made
  /\ r.at = "claimed" => r.actor \in Actors /\ r.wt \in Worktrees
  /\ r.at \in {"moving", "moved", "removed"} => r.to \in States

\* What a transaction has read under a lock is still so.
Knows(r) ==
  /\ r.at = "claimed" => state[r.task] = "ready" /\ ~deleted[r.task]
  /\ r.at = "closing" => (session[r.lease] = "open" => r.ends)

\* A row has at most one holder.
Locks ==
  /\ \A p, q \in Procs, t \in Tasks : HoldsTask(p, t) /\ HoldsTask(q, t) => p = q
  /\ \A p, q \in Procs, l \in Ids : HoldsLease(p, l) /\ HoldsLease(q, l) => p = q

TxInv ==
  /\ TxTypeOK
  /\ \A p \in Procs : Refers(tx[p]) /\ Knows(tx[p])
  /\ Locks

RowInv ==
  /\ RowsTypeOK
  /\ OneLease /\ SessionsUnderLease /\ DeletedUnleased /\ FinishedUnleased

IInv == RowInv /\ TxInv

-----------------------------------------------------------------------------
(* Transactions *)

\* Step moves one transaction and no other.
LEMMA StepOne ==
  ASSUME tx \in [Procs -> Tx], NEW p \in Procs, NEW r \in Tx, Step(p, r)
  PROVE  /\ tx' \in [Procs -> Tx] /\ tx'[p] = r
         /\ \A q \in Procs : q # p => tx'[q] = tx[q]
BY DEF Step

\* The idle transaction is one, and refers to nothing.
LEMMA NoTxFacts == NoTx \in Tx /\ NoTx.at = "idle"
BY DEF NoTx, Tx

\* A step that leaves the rows alone may take locks nobody holds.
LEMMA GrantKeeps ==
  ASSUME IInv, NEW p \in Procs, NEW r \in Tx, Step(p, r),
         UNCHANGED <<taskVars, made, lease, session>>,
         expired' \subseteq 1 .. made, todo' \in [Sweepers -> SUBSET (1 .. made)],
         Refers(r), Knows(r),
         \A t \in Tasks :
           r.at \in {"claimed", "moved", "removed"} /\ r.task = t =>
             HoldsTask(p, t) \/ TaskFree(t),
         \A l \in Ids : r.at = "closing" /\ r.lease = l =>
             HoldsLease(p, l) \/ LeaseFree(l)
  PROVE  IInv'
<1>1. RowInv'
  BY DEF IInv, RowInv, RowsTypeOK, OneLease, SessionsUnderLease, DeletedUnleased,
         FinishedUnleased, ActiveOn, Active, taskVars
<1>2. /\ tx' \in [Procs -> Tx] /\ tx'[p] = r
      /\ \A q \in Procs : q # p => tx'[q] = tx[q]
  BY StepOne DEF IInv, TxInv, TxTypeOK
<1>3. TxTypeOK'
  BY <1>2 DEF TxTypeOK
<1>4. \A q \in Procs : Refers(tx[q])' /\ Knows(tx[q])'
  BY <1>2 DEF IInv, TxInv, Refers, Knows, taskVars
<1>5. Locks'
  <2>1. ASSUME NEW o \in Procs, NEW q \in Procs, NEW t \in Tasks,
               HoldsTask(o, t)', HoldsTask(q, t)'
        PROVE  o = q
    BY <1>2, <2>1 DEF IInv, TxInv, Locks, HoldsTask, TaskFree
  <2>2. ASSUME NEW o \in Procs, NEW q \in Procs, NEW l \in Ids,
               HoldsLease(o, l)', HoldsLease(q, l)'
        PROVE  o = q
    BY <1>2, <2>2 DEF IInv, TxInv, Locks, HoldsLease, LeaseFree
  <2> QED BY <2>1, <2>2 DEF Locks
<1> QED BY <1>1, <1>3, <1>4, <1>5 DEF IInv, TxInv

\* A transaction that ends gives up its locks; the others keep theirs as long
\* as its writes left alone what they know.
LEMMA EndKeeps ==
  ASSUME TxInv, NEW p \in Procs, End(p), UNCHANGED todo,
         made \in Nat, made' \in Nat, made <= made', expired' \subseteq 1 .. made',
         \A q \in Procs : q # p =>
           /\ tx[q].at = "claimed" =>
                state'[tx[q].task] = "ready" /\ ~deleted'[tx[q].task]
           /\ tx[q].at = "closing" => (session'[tx[q].lease] = "open" => tx[q].ends)
  PROVE  TxInv'
<1>1. /\ tx' \in [Procs -> Tx] /\ tx'[p] = NoTx /\ NoTx.at = "idle"
      /\ \A q \in Procs : q # p => tx'[q] = tx[q]
  BY StepOne, NoTxFacts DEF TxInv, TxTypeOK, End
<1>2. TxTypeOK'
  BY <1>1 DEF TxInv, TxTypeOK
<1>3. ASSUME NEW q \in Procs PROVE Refers(tx[q])' /\ Knows(tx[q])'
  <2>1. CASE q = p
    BY <1>1, <2>1 DEF Refers, Knows, NamesTask, NamesLease
  <2>2. CASE q # p
    BY <1>1, <2>2 DEF TxInv, Refers, Knows
  <2> QED BY <2>1, <2>2
<1>4. Locks'
  BY <1>1 DEF TxInv, Locks, HoldsTask, HoldsLease
<1> QED BY <1>2, <1>3, <1>4 DEF TxInv

\* The same when no transaction moves.
LEMMA StayKeeps ==
  ASSUME TxInv, UNCHANGED <<tx, todo, expired, made>>,
         \A q \in Procs :
           /\ tx[q].at = "claimed" =>
                state'[tx[q].task] = "ready" /\ ~deleted'[tx[q].task]
           /\ tx[q].at = "closing" => (session'[tx[q].lease] = "open" => tx[q].ends)
  PROVE  TxInv'
BY DEF TxInv, TxTypeOK, Refers, Knows, Locks, HoldsTask, HoldsLease

-----------------------------------------------------------------------------
(* Steps that read, lock or give up *)

\* Claim locks the task's row and then reads it.
LEMMA ClaimKeeps ==
  ASSUME IInv, NEW p \in Procs, NEW a \in Actors, NEW t \in Tasks,
         NEW w \in Worktrees, Claim(p, a, t, w)
  PROVE  IInv'
<1> DEFINE r == [NoTx EXCEPT !.at = "claimed", !.task = t, !.actor = a, !.wt = w]
<1>1. r \in Tx /\ r.at = "claimed" /\ r.task = t /\ r.actor = a /\ r.wt = w
  BY DEF NoTx, Tx
<1>2. Step(p, r) /\ TaskFree(t) /\ state[t] = "ready" /\ ~deleted[t]
  BY DEF Claim
<1>3. UNCHANGED <<taskVars, leaseVars, todo>>
  BY DEF Claim
<1>4. Refers(r) /\ Knows(r)
  BY <1>1, <1>2 DEF Refers, Knows, NamesLease
<1> HIDE DEF r
<1> QED BY <1>1, <1>2, <1>3, <1>4, GrantKeeps DEF IInv, TxInv, TxTypeOK, leaseVars

\* A lease that is active has been inserted.
LEMMA ActiveMade ==
  ASSUME RowInv, NEW l \in Ids, Active(l)
  PROVE  l \in 1 .. made /\ lease[l] \in Row
<1>1. lease[l] # NoLease
  BY DEF Active, NoLease
<1> QED BY <1>1, BoundAssumption DEF RowInv, RowsTypeOK, Ids

\* The holder's calls remember the lease they read.
LEMMA ReadKeeps ==
  ASSUME IInv, NEW p \in Procs, NEW a \in Actors, NEW t \in Tasks, NEW op,
         NEW at \in NamesLease \ {"closing"}, ReadLease(p, a, t, op, at)
  PROVE  IInv'
<1>1. PICK l \in heldLease(a, t) :
        Step(p, [NoTx EXCEPT !.at = at, !.task = t, !.lease = l])
  BY DEF ReadLease
<1> DEFINE r == [NoTx EXCEPT !.at = at, !.task = t, !.lease = l]
<1>2. l \in 1 .. made /\ l \in Ids
  BY ActiveMade DEF heldLease, ActiveOn, IInv
<1>3. r \in Tx /\ r.at = at /\ r.lease = l
  BY <1>2 DEF NoTx, Tx, NamesLease
<1>4. Refers(r) /\ Knows(r) /\ r.at \notin {"claimed", "moved", "removed", "closing"}
  BY <1>2, <1>3 DEF Refers, Knows, NamesLease, NamesTask
<1>5. Step(p, r) /\ UNCHANGED <<taskVars, leaseVars, todo>>
  BY <1>1 DEF ReadLease
<1> HIDE DEF r
<1> QED BY <1>3, <1>4, <1>5, GrantKeeps DEF IInv, TxInv, TxTypeOK, leaseVars

\* finishTask reads and locks nothing.
LEMMA FinishKeeps ==
  ASSUME IInv, NEW p \in Procs, NEW t \in Tasks, NEW to \in States,
         finishTask(p, t, to)
  PROVE  IInv'
<1> DEFINE r == [NoTx EXCEPT !.at = "moving", !.task = t, !.to = to]
<1>1. r \in Tx /\ r.at = "moving" /\ r.task = t /\ r.to = to
  BY DEF NoTx, Tx
<1>2. Refers(r) /\ Knows(r)
  BY <1>1 DEF Refers, Knows, NamesLease
<1>3. Step(p, r) /\ UNCHANGED <<taskVars, leaseVars, todo>>
  BY DEF finishTask
<1> HIDE DEF r
<1> QED BY <1>1, <1>2, <1>3, GrantKeeps DEF IInv, TxInv, TxTypeOK, leaseVars

\* Transition's UPDATE locks the row it waited for.
LEMMA MoveWriteKeeps ==
  ASSUME IInv, NEW p \in Procs, MoveWrite(p)
  PROVE  IInv'
<1> DEFINE r == [tx[p] EXCEPT !.at = "moved"]
<1>1. tx[p] \in Tx /\ Refers(tx[p]) /\ tx[p].at = "moving"
  BY DEF IInv, TxInv, TxTypeOK, MoveWrite
<1>2. r \in Tx /\ r.at = "moved" /\ r.task = tx[p].task /\ r.to = tx[p].to
  BY <1>1 DEF Tx
<1>3. Refers(r) /\ Knows(r)
  BY <1>1, <1>2 DEF Refers, Knows, NamesLease, NamesTask
<1>4. Step(p, r) /\ TaskFree(r.task) /\ UNCHANGED <<taskVars, leaseVars, todo>>
  BY <1>2 DEF MoveWrite
<1> HIDE DEF r
<1> QED BY <1>2, <1>3, <1>4, GrantKeeps DEF IInv, TxInv, TxTypeOK, leaseVars

\* DeleteTask locks before it reads.
LEMMA DeleteKeeps ==
  ASSUME IInv, NEW p \in Procs, NEW t \in Tasks, DeleteTask(p, t)
  PROVE  IInv'
<1> DEFINE to == IF state[t] = "in_progress" THEN "ready" ELSE state[t]
           r  == [NoTx EXCEPT !.at = "removed", !.task = t, !.to = to]
<1>1. to \in States
  BY DEF IInv, RowInv, RowsTypeOK, States
<1>2. Step(p, r) /\ TaskFree(t) /\ UNCHANGED <<taskVars, leaseVars, todo>>
  BY DEF DeleteTask
<1> HIDE DEF to
<1>3. r \in Tx /\ r.at = "removed" /\ r.task = t /\ r.to = to
  BY <1>1 DEF NoTx, Tx
<1>4. Refers(r) /\ Knows(r)
  BY <1>1, <1>3 DEF Refers, Knows, NamesLease
<1> HIDE DEF r
<1> QED BY <1>2, <1>3, <1>4, GrantKeeps DEF IInv, TxInv, TxTypeOK, leaseVars

\* The webhook reads and locks nothing.
LEMMA PullRequestKeeps ==
  ASSUME IInv, NEW p \in Procs, NEW t \in Tasks, applyPullRequest(p, t)
  PROVE  IInv'
<1> DEFINE r == [NoTx EXCEPT !.at = "reviewing", !.task = t]
<1>1. r \in Tx /\ r.at = "reviewing" /\ r.task = t
  BY DEF NoTx, Tx
<1>2. Refers(r) /\ Knows(r)
  BY <1>1 DEF Refers, Knows, NamesLease
<1>3. Step(p, r) /\ UNCHANGED <<taskVars, leaseVars, todo>>
  BY DEF applyPullRequest
<1> HIDE DEF r
<1> QED BY <1>1, <1>2, <1>3, GrantKeeps DEF IInv, TxInv, TxTypeOK, leaseVars

\* A rollback gives up the locks and nothing else.
LEMMA RollbackKeeps ==
  ASSUME IInv, NEW p \in Procs, Rollback(p)
  PROVE  IInv'
<1>1. Refers(NoTx) /\ Knows(NoTx) /\ NoTx \in Tx /\ NoTx.at = "idle"
  BY NoTxFacts DEF Refers, Knows, NamesLease, NamesTask
<1>2. todo' \in [Sweepers -> SUBSET (1 .. made)]
  BY DEF Rollback, IInv, TxInv, TxTypeOK
<1>3. Step(p, NoTx) /\ UNCHANGED <<taskVars, leaseVars>>
  BY DEF Rollback, End
<1> QED BY <1>1, <1>2, <1>3, GrantKeeps DEF IInv, TxInv, TxTypeOK, leaseVars

\* A sweep begins by reading its candidates.
LEMMA ExpireKeeps ==
  ASSUME IInv, NEW s \in Sweepers, ExpireLeases(s)
  PROVE  IInv'
<1>1. {l \in Ids : Active(l) /\ lease[l].due} \subseteq 1 .. made
  BY ActiveMade DEF IInv
<1>2. todo' \in [Sweepers -> SUBSET (1 .. made)]
  BY <1>1 DEF ExpireLeases, IInv, TxInv, TxTypeOK
<1>3. UNCHANGED <<taskVars, leaseVars, tx>>
  BY DEF ExpireLeases
<1> QED BY <1>2, <1>3 DEF IInv, RowInv, TxInv, RowsTypeOK, TxTypeOK, OneLease,
       SessionsUnderLease, DeletedUnleased, FinishedUnleased, ActiveOn, Active,
       Refers, Knows, Locks, HoldsTask, HoldsLease, taskVars, leaseVars

\* A candidate is dropped or begins to be closed.
LEMMA RecheckKeeps ==
  ASSUME IInv, NEW s \in Sweepers, NEW l \in Ids, Recheck(s, l)
  PROVE  IInv'
<1>1. s \in Procs /\ l \in 1 .. made
  BY DEF Recheck, IInv, TxInv, TxTypeOK, Procs
<1>2. todo' \in [Sweepers -> SUBSET (1 .. made)] /\ expired' \subseteq 1 .. made
  BY <1>1 DEF Recheck, IInv, TxInv, TxTypeOK
<1>3. UNCHANGED <<taskVars, made, lease, session>>
  BY DEF Recheck
<1>4. CASE UNCHANGED tx
  BY <1>2, <1>3, <1>4 DEF IInv, RowInv, TxInv, RowsTypeOK, TxTypeOK, OneLease,
     SessionsUnderLease, DeletedUnleased, FinishedUnleased, ActiveOn, Active,
     Refers, Knows, Locks, HoldsTask, HoldsLease, taskVars
<1>5. CASE Step(s, [NoTx EXCEPT !.at = "expiring", !.lease = l])
  <2> DEFINE r == [NoTx EXCEPT !.at = "expiring", !.lease = l]
  <2>1. r \in Tx /\ r.at = "expiring" /\ r.lease = l
    BY DEF NoTx, Tx
  <2>2. Refers(r) /\ Knows(r)
    BY <1>1, <2>1 DEF Refers, Knows, NamesTask
  <2>3. Step(s, r)
    BY <1>5
  <2> HIDE DEF r
  <2> QED BY <1>1, <1>2, <1>3, <2>1, <2>2, <2>3, GrantKeeps
<1> QED BY <1>4, <1>5 DEF Recheck

-----------------------------------------------------------------------------
(* Closing a lease *)

\* A close takes one lease away and leaves no session open on it.
LEMMA CloseRows ==
  ASSUME RowInv, NEW l \in 1 .. made, NEW ends \in BOOLEAN,
         session[l] = "open" => ends, Close(l, ends), UNCHANGED made
  PROVE  /\ lease' \in [Ids -> Row \union {NoLease}]
         /\ \A k \in Ids : k <= made' <=> lease'[k] # NoLease
         /\ session' \in [Ids -> {"none", "open", "ended"}]
         /\ OneLease' /\ SessionsUnderLease'
         /\ \A t \in Tasks : ActiveOn(t)' = ActiveOn(t) \ {l}
         /\ \A k \in Ids : session'[k] = "open" => session[k] = "open"
<1>1. l \in Ids /\ lease \in [Ids -> Row \union {NoLease}]
      /\ session \in [Ids -> {"none", "open", "ended"}]
      /\ \A k \in Ids : k <= made <=> lease[k] # NoLease
  BY BoundAssumption DEF RowInv, RowsTypeOK, Ids
<1>2. lease[l] \in Row
  BY <1>1
<1>3. /\ lease' = [lease EXCEPT ![l] = [lease[l] EXCEPT !.active = FALSE]]
      /\ session' = [session EXCEPT ![l] = IF ends THEN "ended" ELSE session[l]]
  BY DEF Close
<1> DEFINE r == [lease[l] EXCEPT !.active = FALSE]
<1>4. /\ r \in Row /\ r # NoLease /\ ~r.active
      /\ r.task = lease[l].task /\ r.actor = lease[l].actor /\ r.wt = lease[l].wt
  BY <1>2, NoneAssumption DEF Row, NoLease
<1>5. lease' = [lease EXCEPT ![l] = r]
  BY <1>3
<1> HIDE DEF r
<1>6. /\ lease'[l] = r /\ \A k \in Ids : k # l => lease'[k] = lease[k]
      /\ lease' \in [Ids -> Row \union {NoLease}]
  BY <1>1, <1>4, <1>5
<1>7. \A k \in Ids : k <= made' <=> lease'[k] # NoLease
  BY <1>1, <1>4, <1>6
<1>8. /\ session' \in [Ids -> {"none", "open", "ended"}]
      /\ session'[l] # "open" /\ \A k \in Ids : k # l => session'[k] = session[k]
  BY <1>1, <1>3
<1>9. OneLease'
  BY <1>4, <1>6 DEF RowInv, OneLease, Active
<1>10. SessionsUnderLease'
  BY <1>6, <1>8 DEF RowInv, SessionsUnderLease, Active
<1>11. \A t \in Tasks : ActiveOn(t)' = ActiveOn(t) \ {l}
  BY <1>4, <1>6 DEF ActiveOn, Active
<1> QED BY <1>6, <1>7, <1>8, <1>9, <1>10, <1>11

\* The first half of a close, or all of it.
LEMMA CloseLeaseKeeps ==
  ASSUME IInv, NEW p \in Procs, closeLease(p)
  PROVE  IInv'
<1> DEFINE l == tx[p].lease
<1>1. /\ tx[p] \in Tx /\ Refers(tx[p]) /\ tx[p].at \in {"releasing", "expiring"}
      /\ LeaseFree(l) /\ UNCHANGED <<taskVars, made, todo>>
  BY DEF closeLease, IInv, TxInv, TxTypeOK
<1>2. l \in 1 .. made
  BY <1>1 DEF Refers, NamesLease
<1>3. CASE state[lease[l].task] = "in_progress"
  <2> DEFINE r == [tx[p] EXCEPT !.at = "closing", !.ends = session[l] = "open"]
  <2>1. Step(p, r) /\ UNCHANGED <<lease, session, expired>>
    BY <1>3 DEF closeLease
  <2>2. r \in Tx /\ r.at = "closing" /\ r.lease = l /\ r.ends = (session[l] = "open")
    BY <1>1 DEF Tx
  <2>3. Refers(r) /\ Knows(r)
    BY <1>2, <2>2 DEF Refers, Knows, NamesTask
  <2> HIDE DEF r
  <2>4. \A k \in Ids : r.lease = k => LeaseFree(k)
    BY <1>1, <2>2
  <2>5. expired' \subseteq 1 .. made /\ todo' \in [Sweepers -> SUBSET (1 .. made)]
    BY <1>1, <2>1 DEF IInv, TxInv, TxTypeOK
  <2> QED BY <1>1, <2>1, <2>2, <2>3, <2>4, <2>5, GrantKeeps
<1>4. CASE state[lease[l].task] # "in_progress"
  <2>1. Close(l, session[l] = "open") /\ expired' = Recorded(p) /\ End(p)
    BY <1>4 DEF closeLease
  <2> HIDE DEF l
  <2>2. RowInv /\ UNCHANGED <<taskVars, made>>
    BY <1>1 DEF IInv
  <2>3. /\ lease' \in [Ids -> Row \union {NoLease}]
        /\ \A k \in Ids : k <= made' <=> lease'[k] # NoLease
        /\ session' \in [Ids -> {"none", "open", "ended"}]
        /\ OneLease' /\ SessionsUnderLease'
        /\ \A t \in Tasks : ActiveOn(t)' = ActiveOn(t) \ {l}
        /\ \A k \in Ids : session'[k] = "open" => session[k] = "open"
    BY <1>2, <2>1, <2>2, CloseRows
  <2>4. RowInv'
    BY <2>2, <2>3 DEF RowInv, RowsTypeOK, taskVars, DeletedUnleased, FinishedUnleased
  <2>5. expired' \subseteq 1 .. made'
    BY <1>2, <2>1, <2>2 DEF l, Recorded, IInv, TxInv, TxTypeOK
  <2>6. ASSUME NEW q \in Procs, q # p
        PROVE  /\ tx[q].at = "claimed" =>
                    state'[tx[q].task] = "ready" /\ ~deleted'[tx[q].task]
               /\ tx[q].at = "closing" =>
                    (session'[tx[q].lease] = "open" => tx[q].ends)
    <3>1. tx[q].at = "closing" => tx[q].lease \in Ids
      BY BoundAssumption DEF IInv, TxInv, Refers, NamesLease, Ids, RowInv, RowsTypeOK
    <3> QED BY <2>2, <2>3, <3>1 DEF IInv, TxInv, Knows, taskVars
  <2>7. made \in Nat /\ made' \in Nat /\ made <= made'
    BY <2>2 DEF RowInv, RowsTypeOK
  <2> QED BY <1>1, <2>1, <2>4, <2>5, <2>6, <2>7, EndKeeps DEF IInv
<1> QED BY <1>3, <1>4

\* Writing a task's state is safe for those who hold other tasks.
LEMMA OthersKnow ==
  ASSUME IInv, NEW p \in Procs, NEW t \in Tasks,
         HoldsTask(p, t) \/ TaskFree(t), NEW s,
         state' = [state EXCEPT ![t] = s],
         \A u \in Tasks : u # t => deleted'[u] = deleted[u],
         \A k \in Ids : session'[k] = "open" => session[k] = "open"
  PROVE  \A q \in Procs : q # p =>
           /\ tx[q].at = "claimed" =>
                state'[tx[q].task] = "ready" /\ ~deleted'[tx[q].task]
           /\ tx[q].at = "closing" => (session'[tx[q].lease] = "open" => tx[q].ends)
<1> SUFFICES ASSUME NEW q \in Procs, q # p
             PROVE  /\ tx[q].at = "claimed" =>
                         state'[tx[q].task] = "ready" /\ ~deleted'[tx[q].task]
                    /\ tx[q].at = "closing" =>
                         (session'[tx[q].lease] = "open" => tx[q].ends)
  OBVIOUS
<1>1. tx[q].at = "closing" => tx[q].lease \in Ids
  BY BoundAssumption DEF IInv, TxInv, Refers, NamesLease, Ids, RowInv, RowsTypeOK
<1>2. tx[q].at = "claimed" => tx[q].task \in Tasks /\ tx[q].task # t
  BY DEF IInv, TxInv, Refers, NamesTask, Locks, HoldsTask, TaskFree
<1> QED BY <1>1, <1>2 DEF IInv, TxInv, Knows, RowInv, RowsTypeOK

\* The rest of a close.
LEMMA CloseCommitKeeps ==
  ASSUME IInv, NEW p \in Procs, CloseCommit(p)
  PROVE  IInv'
<1> DEFINE l == tx[p].lease
           t == lease[l].task
<1>1. /\ tx[p] \in Tx /\ Refers(tx[p]) /\ Knows(tx[p]) /\ tx[p].at = "closing"
      /\ TaskFree(t) /\ Close(l, tx[p].ends) /\ state' = [state EXCEPT ![t] = "ready"]
      /\ expired' = Recorded(p) /\ End(p) /\ UNCHANGED <<owner, deleted, made, todo>>
  BY DEF CloseCommit, IInv, TxInv, TxTypeOK
<1>2. l \in 1 .. made /\ tx[p].ends \in BOOLEAN /\ (session[l] = "open" => tx[p].ends)
  BY <1>1 DEF Refers, Knows, NamesLease, Tx
<1>3. t \in Tasks
  BY <1>2, BoundAssumption DEF IInv, RowInv, RowsTypeOK, Ids, Row
<1> HIDE DEF l, t
<1>4. /\ lease' \in [Ids -> Row \union {NoLease}]
      /\ \A k \in Ids : k <= made' <=> lease'[k] # NoLease
      /\ session' \in [Ids -> {"none", "open", "ended"}]
      /\ OneLease' /\ SessionsUnderLease'
      /\ \A u \in Tasks : ActiveOn(u)' = ActiveOn(u) \ {l}
      /\ \A k \in Ids : session'[k] = "open" => session[k] = "open"
  BY <1>1, <1>2, CloseRows DEF IInv
<1>5. RowInv'
  BY <1>1, <1>3, <1>4 DEF IInv, RowInv, RowsTypeOK, States, DeletedUnleased,
     FinishedUnleased
<1>6. expired' \subseteq 1 .. made'
  BY <1>1, <1>2 DEF l, Recorded, IInv, TxInv, TxTypeOK
<1>7. \A q \in Procs : q # p =>
        /\ tx[q].at = "claimed" =>
             state'[tx[q].task] = "ready" /\ ~deleted'[tx[q].task]
        /\ tx[q].at = "closing" => (session'[tx[q].lease] = "open" => tx[q].ends)
  BY <1>1, <1>3, <1>4, OthersKnow
<1>8. made \in Nat /\ made' \in Nat /\ made <= made'
  BY <1>1 DEF IInv, RowInv, RowsTypeOK
<1> QED BY <1>1, <1>5, <1>6, <1>7, <1>8, EndKeeps DEF IInv

-----------------------------------------------------------------------------
(* Moving a task *)

\* finishTask and DeleteTask take the lease away with the task.
LEMMA MoveCommitKeeps ==
  ASSUME IInv, NEW p \in Procs, MoveCommit(p)
  PROVE  IInv'
<1>1. /\ tx[p] \in Tx /\ Refers(tx[p]) /\ tx[p].at \in {"moved", "removed"}
      /\ tx[p].to \in States
  BY DEF MoveCommit, IInv, TxInv, TxTypeOK, Refers
<1>2. PICK t \in Tasks : t = tx[p].task /\ HoldsTask(p, t)
  BY <1>1 DEF Refers, NamesTask, HoldsTask
<1>3. /\ CloseActiveLease(t) /\ state' = [state EXCEPT ![t] = tx[p].to]
      /\ deleted' = [deleted EXCEPT ![t] = @ \/ tx[p].at = "removed"]
      /\ End(p) /\ UNCHANGED <<owner, made, expired, todo>>
  BY <1>2 DEF MoveCommit
<1>4. /\ lease' \in [Ids -> Row \union {NoLease}]
      /\ \A k \in Ids : k <= made' <=> lease'[k] # NoLease
      /\ session' \in [Ids -> {"none", "open", "ended"}]
      /\ OneLease' /\ SessionsUnderLease'
      /\ ActiveOn(t)' = {} /\ \A u \in Tasks : ActiveOn(u)' \subseteq ActiveOn(u)
      /\ \A k \in Ids : session'[k] = "open" => session[k] = "open"
  <2>1. CASE ActiveOn(t) = {}
    <3>1. UNCHANGED <<lease, session, made>>
      BY <1>3, <2>1 DEF CloseActiveLease
    <3> QED BY <2>1, <3>1 DEF IInv, RowInv, RowsTypeOK, OneLease, SessionsUnderLease,
         ActiveOn, Active
  <2>2. CASE ActiveOn(t) # {}
    <3>1. PICK l \in ActiveOn(t) : Close(l, session[l] = "open")
      BY <1>3, <2>2 DEF CloseActiveLease
    <3>2. l \in Ids /\ Active(l) /\ l \in 1 .. made
      BY ActiveMade DEF ActiveOn, IInv
    <3>3. /\ lease' \in [Ids -> Row \union {NoLease}]
          /\ \A k \in Ids : k <= made' <=> lease'[k] # NoLease
          /\ session' \in [Ids -> {"none", "open", "ended"}]
          /\ OneLease' /\ SessionsUnderLease'
          /\ \A u \in Tasks : ActiveOn(u)' = ActiveOn(u) \ {l}
          /\ \A k \in Ids : session'[k] = "open" => session[k] = "open"
      BY <1>3, <3>1, <3>2, CloseRows DEF IInv
    <3>4. ActiveOn(t) = {l}
      BY <3>1, <3>2 DEF IInv, RowInv, OneLease, ActiveOn
    <3> QED BY <1>2, <3>3, <3>4
  <2> QED BY <2>1, <2>2
<1>5. RowsTypeOK'
  BY <1>1, <1>3, <1>4 DEF IInv, RowInv, RowsTypeOK
<1>6. DeletedUnleased' /\ FinishedUnleased'
  BY <1>1, <1>3, <1>4 DEF IInv, RowInv, RowsTypeOK, DeletedUnleased, FinishedUnleased
<1>7. RowInv'
  BY <1>4, <1>5, <1>6 DEF RowInv
<1>8. \A u \in Tasks : u # t => deleted'[u] = deleted[u]
  BY <1>3 DEF IInv, RowInv, RowsTypeOK
<1>9. \A q \in Procs : q # p =>
        /\ tx[q].at = "claimed" =>
             state'[tx[q].task] = "ready" /\ ~deleted'[tx[q].task]
        /\ tx[q].at = "closing" => (session'[tx[q].lease] = "open" => tx[q].ends)
  BY <1>2, <1>3, <1>4, <1>8, OthersKnow
<1>10. made \in Nat /\ made' \in Nat /\ made <= made' /\ expired' \subseteq 1 .. made'
  BY <1>3 DEF IInv, RowInv, RowsTypeOK, TxInv, TxTypeOK
<1> QED BY <1>3, <1>7, <1>9, <1>10, EndKeeps DEF IInv

\* A task that is not being finished or deleted keeps its lease, if it has one.
LEMMA StateRows ==
  ASSUME RowInv, NEW t \in Tasks, NEW s \in States \ {"abandoned", "completed"},
         state' = [state EXCEPT ![t] = s], owner' \in [Tasks -> Actors \union {None}],
         UNCHANGED <<deleted, made, lease, session>>
  PROVE  RowInv'
<1>1. RowsTypeOK'
  BY DEF RowInv, RowsTypeOK
<1>2. FinishedUnleased'
  BY DEF RowInv, RowsTypeOK, FinishedUnleased, ActiveOn, Active
<1> QED BY <1>1, <1>2 DEF RowInv, OneLease, SessionsUnderLease, DeletedUnleased,
       ActiveOn, Active

\* The webhook's UPDATE.
LEMMA ReviewKeeps ==
  ASSUME IInv, NEW p \in Procs, ReviewCommit(p)
  PROVE  IInv'
<1> DEFINE t == tx[p].task
<1>1. /\ Refers(tx[p]) /\ tx[p].at = "reviewing" /\ TaskFree(t)
      /\ state' = [state EXCEPT ![t] = "in_review"]
      /\ End(p) /\ UNCHANGED <<owner, deleted, leaseVars, todo>>
  BY DEF ReviewCommit, IInv, TxInv
<1>2. t \in Tasks
  BY <1>1 DEF Refers, NamesTask
<1> HIDE DEF t
<1>3. RowInv'
  <2>1. "in_review" \in States \ {"abandoned", "completed"}
    BY DEF States
  <2> QED BY <1>1, <1>2, <2>1, StateRows DEF IInv, RowInv, RowsTypeOK, leaseVars
<1>4. \A q \in Procs : q # p =>
        /\ tx[q].at = "claimed" =>
             state'[tx[q].task] = "ready" /\ ~deleted'[tx[q].task]
        /\ tx[q].at = "closing" => (session'[tx[q].lease] = "open" => tx[q].ends)
  BY <1>1, <1>2, OthersKnow DEF leaseVars
<1>5. made \in Nat /\ made' \in Nat /\ made <= made' /\ expired' \subseteq 1 .. made'
  BY <1>1 DEF IInv, RowInv, RowsTypeOK, TxInv, TxTypeOK, leaseVars
<1> QED BY <1>1, <1>3, <1>4, <1>5, EndKeeps DEF IInv

\* Nobody who has a lock is looking at a row that is free.
LEMMA FreeKnow ==
  ASSUME IInv, NEW t \in Tasks, TaskFree(t),
         \A u \in Tasks : u # t => state'[u] = state[u] /\ deleted'[u] = deleted[u],
         UNCHANGED session
  PROVE  \A q \in Procs :
           /\ tx[q].at = "claimed" =>
                state'[tx[q].task] = "ready" /\ ~deleted'[tx[q].task]
           /\ tx[q].at = "closing" => (session'[tx[q].lease] = "open" => tx[q].ends)
<1> SUFFICES ASSUME NEW q \in Procs
             PROVE  /\ tx[q].at = "claimed" =>
                         state'[tx[q].task] = "ready" /\ ~deleted'[tx[q].task]
                    /\ tx[q].at = "closing" =>
                         (session'[tx[q].lease] = "open" => tx[q].ends)
  OBVIOUS
<1>1. tx[q].at = "claimed" => tx[q].task \in Tasks /\ tx[q].task # t
  BY DEF IInv, TxInv, Refers, NamesTask, HoldsTask, TaskFree
<1> QED BY <1>1 DEF IInv, TxInv, Knows

\* The transactions that are one step.
LEMMA MoveLockedKeeps ==
  ASSUME IInv, NEW t \in Tasks, NEW to \in States \ {"abandoned", "completed"},
         MoveLocked(t, to), owner' \in [Tasks -> Actors \union {None}]
  PROVE  IInv'
<1>1. /\ TaskFree(t) /\ state' = [state EXCEPT ![t] = to]
      /\ UNCHANGED <<deleted, leaseVars, todo, tx>>
  BY DEF MoveLocked
<1>2. RowInv'
  BY <1>1, StateRows DEF IInv, leaseVars
<1>3. \A u \in Tasks : u # t => state'[u] = state[u] /\ deleted'[u] = deleted[u]
  BY <1>1 DEF IInv, RowInv, RowsTypeOK
<1> QED BY <1>1, <1>2, <1>3, FreeKnow, StayKeeps DEF IInv, leaseVars

\* Assigning and restoring.
LEMMA LockedKeeps ==
  ASSUME IInv, NEW t \in Tasks, Locked(t)
  PROVE  IInv'
<1>0. owner \in [Tasks -> Actors \union {None}] /\ state \in [Tasks -> States]
      /\ deleted \in [Tasks -> BOOLEAN]
  BY DEF IInv, RowInv, RowsTypeOK
<1>1. CASE ResolveDelivery(t)
  BY <1>0, <1>1, MoveLockedKeeps DEF ResolveDelivery, States
<1>2. CASE openTaskReview(t)
  BY <1>0, <1>2, MoveLockedKeeps DEF openTaskReview, States
<1>3. CASE UndeleteTask(t)
  <2>1. /\ TaskFree(t) /\ deleted' = [deleted EXCEPT ![t] = FALSE]
        /\ UNCHANGED <<state, owner, leaseVars, todo, tx>>
    BY <1>3 DEF UndeleteTask
  <2>2. RowInv'
    BY <1>0, <2>1 DEF IInv, RowInv, RowsTypeOK, OneLease, SessionsUnderLease,
       DeletedUnleased, FinishedUnleased, ActiveOn, Active, leaseVars
  <2>3. \A u \in Tasks : u # t => state'[u] = state[u] /\ deleted'[u] = deleted[u]
    BY <1>0, <2>1
  <2> QED BY <2>1, <2>2, <2>3, FreeKnow, StayKeeps DEF IInv, leaseVars
<1>4. ASSUME NEW to \in States, updateTask(t, to) PROVE IInv'
  <2>1. to \in States \ {"abandoned", "completed"}
    BY <1>4 DEF updateTask
  <2> QED BY <1>0, <1>4, <2>1, MoveLockedKeeps DEF updateTask
<1>5. ASSUME NEW a \in Actors, StartTask(t, a) PROVE IInv'
  <2>1. owner' \in [Tasks -> Actors \union {None}] /\ MoveLocked(t, "in_progress")
    BY <1>0, <1>5 DEF StartTask
  <2> QED BY <2>1, MoveLockedKeeps DEF States
<1>6. ASSUME NEW a \in Actors, StopTask(t, a) PROVE IInv'
  BY <1>0, <1>6, MoveLockedKeeps DEF StopTask, States
<1>7. ASSUME NEW a \in Actors \union {None}, AssignTask(t, a) PROVE IInv'
  <2>1. /\ owner' \in [Tasks -> Actors \union {None}] /\ TaskFree(t)
        /\ UNCHANGED <<state, deleted, leaseVars, todo, tx>>
    BY <1>0, <1>7 DEF AssignTask
  <2>2. RowInv'
    BY <2>1 DEF IInv, RowInv, RowsTypeOK, OneLease, SessionsUnderLease,
       DeletedUnleased, FinishedUnleased, ActiveOn, Active, leaseVars
  <2> QED BY <2>1, <2>2, FreeKnow, StayKeeps DEF IInv, leaseVars
<1> QED BY <1>1, <1>2, <1>3, <1>4, <1>5, <1>6, <1>7 DEF Locked

-----------------------------------------------------------------------------
(* Writing a lease *)

\* An idle ending changes nothing the others know, if the task rows and the
\* sessions that are not open stay as they are.
LEMMA QuietEnd ==
  ASSUME IInv, NEW p \in Procs, End(p), UNCHANGED <<taskVars, made, expired, todo>>,
         \A k \in Ids : session'[k] = "open" => session[k] = "open" \/ LeaseFree(k)
  PROVE  TxInv'
<1>1. ASSUME NEW q \in Procs, q # p
      PROVE  /\ tx[q].at = "claimed" =>
                  state'[tx[q].task] = "ready" /\ ~deleted'[tx[q].task]
             /\ tx[q].at = "closing" => (session'[tx[q].lease] = "open" => tx[q].ends)
  <2>1. tx[q].at = "closing" => tx[q].lease \in Ids /\ ~LeaseFree(tx[q].lease)
    BY BoundAssumption DEF IInv, TxInv, Refers, NamesLease, Ids, RowInv, RowsTypeOK,
       LeaseFree, HoldsLease
  <2> QED BY <2>1 DEF IInv, TxInv, Knows, taskVars
<1>2. made \in Nat /\ made' \in Nat /\ made <= made' /\ expired' \subseteq 1 .. made'
  BY DEF IInv, RowInv, RowsTypeOK, TxInv, TxTypeOK
<1> QED BY <1>1, <1>2, EndKeeps DEF IInv

\* A lease that was inserted stays a lease, and the same one, when only its
\* expiry is written.
LEMMA DueRows ==
  ASSUME RowInv, NEW l \in 1 .. made, NEW d \in BOOLEAN,
         lease' = [lease EXCEPT ![l].due = d], UNCHANGED <<taskVars, made, session>>
  PROVE  RowInv'
<1>1. /\ l \in Ids /\ lease \in [Ids -> Row \union {NoLease}] /\ lease[l] \in Row
      /\ \A k \in Ids : k <= made <=> lease[k] # NoLease
  BY BoundAssumption DEF RowInv, RowsTypeOK, Ids
<1> DEFINE r == [lease[l] EXCEPT !.due = d]
<1>2. /\ r \in Row /\ r # NoLease /\ r.active = lease[l].active
      /\ r.task = lease[l].task /\ r.actor = lease[l].actor /\ r.wt = lease[l].wt
  BY <1>1, NoneAssumption DEF Row, NoLease
<1>3. lease' = [lease EXCEPT ![l] = r]
  OBVIOUS
<1> HIDE DEF r
<1>4. /\ lease'[l] = r /\ \A k \in Ids : k # l => lease'[k] = lease[k]
      /\ lease' \in [Ids -> Row \union {NoLease}]
  BY <1>1, <1>2, <1>3
<1>5. RowsTypeOK'
  BY <1>1, <1>2, <1>4 DEF RowInv, RowsTypeOK, taskVars
<1>6. \A k \in Ids : /\ Active(k)' <=> Active(k)
                     /\ lease'[k].task = lease[k].task /\ lease'[k].actor = lease[k].actor
                     /\ lease'[k].wt = lease[k].wt
  BY <1>2, <1>4 DEF Active
<1>7. \A t \in Tasks : ActiveOn(t)' = ActiveOn(t)
  BY <1>6 DEF ActiveOn
<1> QED BY <1>5, <1>6, <1>7 DEF RowInv, OneLease, SessionsUnderLease,
       DeletedUnleased, FinishedUnleased, taskVars

\* Renew writes the row it read, closed or not.
LEMMA RenewKeeps ==
  ASSUME IInv, NEW p \in Procs, Renew(p)
  PROVE  IInv'
<1> DEFINE l == tx[p].lease
<1>1. /\ Refers(tx[p]) /\ tx[p].at = "renewing" /\ End(p)
      /\ lease' = [lease EXCEPT ![l].due = FALSE]
      /\ UNCHANGED <<taskVars, made, session, expired, todo>>
  BY DEF Renew, IInv, TxInv
<1>2. l \in 1 .. made
  BY <1>1 DEF Refers, NamesLease
<1> HIDE DEF l
<1>3. RowInv'
  BY <1>1, <1>2, DueRows DEF IInv
<1>4. TxInv'
  BY <1>1, QuietEnd
<1> QED BY <1>3, <1>4 DEF IInv

\* The clock writes the same column.
LEMMA LapseKeeps ==
  ASSUME IInv, NEW l \in Ids, Lapse(l)
  PROVE  IInv'
<1>1. l \in 1 .. made
  BY ActiveMade DEF Lapse, IInv
<1>2. /\ lease' = [lease EXCEPT ![l].due = TRUE]
      /\ UNCHANGED <<taskVars, made, session, expired, todo, tx>>
  BY DEF Lapse
<1>3. RowInv'
  BY <1>1, <1>2, DueRows DEF IInv
<1>4. TxInv'
  BY <1>2, StayKeeps DEF IInv, TxInv, Knows, taskVars
<1> QED BY <1>3, <1>4 DEF IInv

\* Rebinding an active lease meets the worktree index; a closed one is not in it.
LEMMA RebindKeeps ==
  ASSUME IInv, NEW p \in Procs, NEW w \in Worktrees, RebindLeaseWorktree(p, w)
  PROVE  IInv'
<1> DEFINE l == tx[p].lease
<1>1. /\ End(p)
      /\ UNCHANGED <<taskVars, made, session, expired, todo>>
  BY DEF RebindLeaseWorktree
<1>2. l \in 1 .. made
  BY DEF RebindLeaseWorktree, IInv, TxInv, Refers, NamesLease
<1>3. lease' = IF Active(l) /\ IndexTaken(l, None, lease[l].actor, w)
               THEN lease ELSE [lease EXCEPT ![l].wt = w]
  BY DEF RebindLeaseWorktree
<1> HIDE DEF l
<1>4. TxInv'
  BY <1>1, QuietEnd
<1>5. CASE UNCHANGED lease
  BY <1>1, <1>4, <1>5 DEF IInv, RowInv, RowsTypeOK, OneLease, SessionsUnderLease,
     DeletedUnleased, FinishedUnleased, ActiveOn, Active, taskVars
<1>6. CASE /\ ~(Active(l) /\ IndexTaken(l, None, lease[l].actor, w))
           /\ lease' = [lease EXCEPT ![l].wt = w]
  <2>1. /\ l \in Ids /\ lease \in [Ids -> Row \union {NoLease}] /\ lease[l] \in Row
        /\ \A k \in Ids : k <= made <=> lease[k] # NoLease
    BY <1>2, BoundAssumption DEF IInv, RowInv, RowsTypeOK, Ids
  <2> DEFINE r == [lease[l] EXCEPT !.wt = w]
  <2>2. /\ r \in Row /\ r # NoLease /\ r.active = lease[l].active
        /\ r.task = lease[l].task /\ r.actor = lease[l].actor /\ r.wt = w
    BY <2>1, NoneAssumption DEF Row, NoLease
  <2>3. lease' = [lease EXCEPT ![l] = r]
    BY <1>6
  <2> HIDE DEF r
  <2>4. /\ lease'[l] = r /\ \A k \in Ids : k # l => lease'[k] = lease[k]
        /\ lease' \in [Ids -> Row \union {NoLease}]
    BY <2>1, <2>2, <2>3
  <2>5. RowsTypeOK'
    <3>1. \A k \in Ids : k <= made' <=> lease'[k] # NoLease
      BY <1>1, <1>2, <2>1, <2>2, <2>4
    <3>2. UNCHANGED <<state, owner, deleted, made, session>> /\ RowsTypeOK
      BY <1>1 DEF IInv, RowInv, taskVars
    <3> QED BY <2>4, <3>1, <3>2 DEF RowsTypeOK
  <2>6. \A k \in Ids : (Active(k)' <=> Active(k)) /\ lease'[k].task = lease[k].task
    BY <2>2, <2>4 DEF Active
  <2>7. \A t \in Tasks : ActiveOn(t)' = ActiveOn(t)
    BY <2>6 DEF ActiveOn
  <2>8. Active(l) => \A k \in Ids \ {l} :
          Active(k) => lease[k].actor # lease[l].actor \/ lease[k].wt # w
    BY <1>6 DEF IndexTaken
  <2>9. OneLease'
    BY <2>1, <2>2, <2>4, <2>6, <2>8 DEF IInv, RowInv, OneLease
  <2> QED BY <1>1, <1>4, <2>5, <2>6, <2>7, <2>9 DEF IInv, RowInv, SessionsUnderLease,
         DeletedUnleased, FinishedUnleased, taskVars
<1> QED BY <1>5, <1>6, <1>3

\* A heartbeat holds the lease FOR SHARE: it opens a session on an active lease
\* that nobody is closing.
LEMMA TouchKeeps ==
  ASSUME IInv, NEW p \in Procs, TouchAgentSession(p)
  PROVE  IInv'
<1> DEFINE l == tx[p].lease
<1>1. /\ Refers(tx[p]) /\ tx[p].at = "touching" /\ LeaseFree(l) /\ End(p)
      /\ session' = [session EXCEPT ![l] = IF Active(l) THEN "open" ELSE @]
      /\ UNCHANGED <<taskVars, made, lease, expired, todo>>
  BY DEF TouchAgentSession, IInv, TxInv
<1>2. l \in Ids /\ session \in [Ids -> {"none", "open", "ended"}]
  BY <1>1, BoundAssumption DEF Refers, NamesLease, IInv, RowInv, RowsTypeOK, Ids
<1> HIDE DEF l
<1>3. /\ session' \in [Ids -> {"none", "open", "ended"}]
      /\ \A k \in Ids : session'[k] = "open" =>
           session[k] = "open" \/ (LeaseFree(k) /\ Active(k))
  BY <1>1, <1>2
<1>4. TxInv'
  BY <1>1, <1>3, QuietEnd
<1> QED BY <1>1, <1>3, <1>4 DEF IInv, RowInv, RowsTypeOK, OneLease,
       SessionsUnderLease, DeletedUnleased, FinishedUnleased, ActiveOn, Active, taskVars

\* Ending a session opens none.
LEMMA EndSessionKeeps ==
  ASSUME IInv, NEW p \in Procs, EndAgentSession(p)
  PROVE  IInv'
<1> DEFINE l == tx[p].lease
<1>1. /\ End(p) /\ session' = [session EXCEPT ![l] = IF @ = "open" THEN "ended" ELSE @]
      /\ UNCHANGED <<taskVars, made, lease, expired, todo>>
  BY DEF EndAgentSession
<1> HIDE DEF l
<1>2. /\ session' \in [Ids -> {"none", "open", "ended"}]
      /\ \A k \in Ids : session'[k] = "open" => session[k] = "open"
  BY <1>1 DEF IInv, RowInv, RowsTypeOK
<1>3. TxInv'
  BY <1>1, <1>2, QuietEnd
<1> QED BY <1>1, <1>2, <1>3 DEF IInv, RowInv, RowsTypeOK, OneLease,
       SessionsUnderLease, DeletedUnleased, FinishedUnleased, ActiveOn, Active, taskVars

\* What Claim checked under the row's lock holds when the lease is inserted.
LEMMA ClaimInsertKeeps ==
  ASSUME IInv, NEW p \in Procs, ClaimInsert(p)
  PROVE  IInv'
<1>1. PICK t \in Tasks, a \in Actors, w \in Worktrees :
        /\ t = tx[p].task /\ a = tx[p].actor /\ w = tx[p].wt
        /\ tx[p].at = "claimed" /\ state[t] = "ready" /\ ~deleted[t]
        /\ HoldsTask(p, t)
  BY DEF ClaimInsert, IInv, TxInv, Refers, Knows, NamesTask, HoldsTask
<1> DEFINE l == made + 1
<1>2. End(p) /\ UNCHANGED todo
  BY DEF ClaimInsert
<1>3. CASE UNCHANGED <<taskVars, leaseVars>>
  <2>1. TxInv'
    BY <1>2, <1>3, QuietEnd DEF leaseVars
  <2> QED BY <1>3, <2>1 DEF IInv, RowInv, RowsTypeOK, OneLease, SessionsUnderLease,
         DeletedUnleased, FinishedUnleased, ActiveOn, Active, taskVars, leaseVars
<1>4. CASE ~(made = MaxLease \/ IndexTaken(l, t, a, w))
  <2> DEFINE r == [task |-> t, actor |-> a, wt |-> w, active |-> TRUE, due |-> FALSE]
  <2>1. /\ made' = l /\ lease' = [lease EXCEPT ![l] = r]
        /\ state' = [state EXCEPT ![t] = "in_progress"]
        /\ UNCHANGED <<owner, deleted, session, expired>>
    BY <1>1, <1>4 DEF ClaimInsert
  <2>2. /\ l \in Ids /\ lease \in [Ids -> Row \union {NoLease}] /\ made \in Nat
        /\ \A k \in Ids : k <= made <=> lease[k] # NoLease
        /\ l \in 0 .. MaxLease /\ lease[l] = NoLease
    BY <1>4, BoundAssumption DEF IInv, RowInv, RowsTypeOK, Ids
  <2>3. /\ r \in Row /\ r # NoLease /\ r.active /\ r.task = t /\ r.actor = a /\ r.wt = w
    BY DEF Row, NoLease
  <2>4. \A k \in Ids \ {l} : Active(k) =>
          lease[k].task # t /\ (lease[k].actor # a \/ lease[k].wt # w)
    BY <1>4 DEF IndexTaken
  <2> HIDE DEF r
  <2>5. /\ lease'[l] = r /\ \A k \in Ids : k # l => lease'[k] = lease[k]
        /\ lease' \in [Ids -> Row \union {NoLease}]
    BY <2>1, <2>2, <2>3
  <2>6. \A k \in Ids : k <= made' <=> lease'[k] # NoLease
    <3>1. \A k \in Ids : k # l => (k <= l <=> k <= made)
      BY <2>2 DEF Ids
    <3>2. made' = l /\ l <= l
      BY <2>1, <2>2
    <3> QED BY <2>2, <2>3, <2>5, <3>1, <3>2
  <2>7. RowsTypeOK'
    BY <2>1, <2>2, <2>5, <2>6 DEF IInv, RowInv, RowsTypeOK, States
  <2>8. OneLease'
    BY <2>2, <2>3, <2>4, <2>5 DEF IInv, RowInv, OneLease, Active
  <2>9. SessionsUnderLease'
    BY <2>1, <2>3, <2>5 DEF IInv, RowInv, SessionsUnderLease, Active
  <2>10. \A u \in Tasks : u # t => ActiveOn(u)' = ActiveOn(u)
    BY <2>2, <2>3, <2>5 DEF ActiveOn, Active, NoLease
  <2>11. DeletedUnleased' /\ FinishedUnleased'
    BY <1>1, <2>1, <2>10 DEF IInv, RowInv, RowsTypeOK, DeletedUnleased, FinishedUnleased
  <2>12. \A q \in Procs : q # p =>
           /\ tx[q].at = "claimed" =>
                state'[tx[q].task] = "ready" /\ ~deleted'[tx[q].task]
           /\ tx[q].at = "closing" => (session'[tx[q].lease] = "open" => tx[q].ends)
    BY <1>1, <2>1, OthersKnow
  <2>13. made' \in Nat /\ made <= made' /\ expired' \subseteq 1 .. made'
    BY <2>1, <2>2 DEF IInv, TxInv, TxTypeOK
  <2> QED BY <1>2, <2>2, <2>7, <2>8, <2>9, <2>11, <2>12, <2>13, EndKeeps
         DEF IInv, RowInv
<1> QED BY <1>1, <1>3, <1>4 DEF ClaimInsert

-----------------------------------------------------------------------------
(* The invariant of the specification *)

\* Nothing is open in the beginning.
LEMMA InitInv == Init => IInv
<1> SUFFICES ASSUME Init PROVE IInv
  OBVIOUS
<1>1. tx \in [Procs -> Tx] /\ \A p \in Procs : tx[p].at = "idle"
  BY NoTxFacts DEF Init
<1>2. \A l \in Ids : lease[l] = NoLease /\ ~Active(l) /\ session[l] = "none" /\ ~(l <= made)
  BY DEF Init, Active, NoLease, Ids
<1>3. RowsTypeOK
  BY <1>2, BoundAssumption DEF Init, RowsTypeOK, States
<1>4. OneLease /\ SessionsUnderLease /\ DeletedUnleased /\ FinishedUnleased
  BY <1>2 DEF OneLease, SessionsUnderLease, DeletedUnleased, FinishedUnleased, ActiveOn
<1>5. TxTypeOK
  BY <1>1 DEF Init, TxTypeOK
<1>6. \A p \in Procs : Refers(tx[p]) /\ Knows(tx[p])
  BY <1>1 DEF Refers, Knows, NamesTask, NamesLease
<1>7. Locks
  BY <1>1 DEF Locks, HoldsTask, HoldsLease
<1> QED BY <1>3, <1>4, <1>5, <1>6, <1>7 DEF IInv, RowInv, TxInv

\* Every step keeps it.
LEMMA NextInv == IInv /\ [Next]_vars => IInv'
<1> SUFFICES ASSUME IInv, [Next]_vars PROVE IInv'
  OBVIOUS
<1>1. ASSUME NEW p \in Clients, Request(p) PROVE IInv'
  <2>0. p \in Procs
    BY DEF Procs
  <2>1. PICK t \in Tasks :
          \/ \E a \in Actors :
               \/ \E w \in Worktrees : Claim(p, a, t, w)
               \/ ReadLease(p, a, t, "renew", "renewing")
               \/ ReadLease(p, a, t, "rebind", "rebinding")
               \/ ReadLease(p, a, t, "release", "releasing")
               \/ ReadLease(p, a, t, "session", "touching")
               \/ ReadLease(p, a, t, "session", "ending")
          \/ \E to \in States : finishTask(p, t, to)
          \/ DeleteTask(p, t) \/ applyPullRequest(p, t)
    BY <1>1 DEF Request
  <2>2. ASSUME NEW a \in Actors, NEW w \in Worktrees, Claim(p, a, t, w) PROVE IInv'
    BY <2>0, <2>2, ClaimKeeps
  <2>3. ASSUME NEW a \in Actors, NEW op, NEW at \in NamesLease \ {"closing"},
               ReadLease(p, a, t, op, at)
        PROVE  IInv'
    BY <2>0, <2>3, ReadKeeps
  <2>4. ASSUME NEW to \in States, finishTask(p, t, to) PROVE IInv'
    BY <2>0, <2>4, FinishKeeps
  <2>5. ASSUME DeleteTask(p, t) PROVE IInv'
    BY <2>0, <2>5, DeleteKeeps
  <2>6. ASSUME applyPullRequest(p, t) PROVE IInv'
    BY <2>0, <2>6, PullRequestKeeps
  <2>7. {"renewing", "rebinding", "releasing", "touching", "ending"}
          \subseteq NamesLease \ {"closing"}
    BY DEF NamesLease
  <2> QED BY <2>1, <2>2, <2>3, <2>4, <2>5, <2>6, <2>7
<1>2. ASSUME NEW p \in Procs, Serve(p) PROVE IInv'
  <2>1. CASE ClaimInsert(p)
    BY <2>1, ClaimInsertKeeps
  <2>2. CASE Renew(p)
    BY <2>2, RenewKeeps
  <2>3. CASE \E w \in Worktrees : RebindLeaseWorktree(p, w)
    BY <2>3, RebindKeeps
  <2>4. CASE TouchAgentSession(p)
    BY <2>4, TouchKeeps
  <2>5. CASE EndAgentSession(p)
    BY <2>5, EndSessionKeeps
  <2>6. CASE closeLease(p)
    BY <2>6, CloseLeaseKeeps
  <2>7. CASE CloseCommit(p)
    BY <2>7, CloseCommitKeeps
  <2>8. CASE MoveWrite(p)
    BY <2>8, MoveWriteKeeps
  <2>9. CASE MoveCommit(p)
    BY <2>9, MoveCommitKeeps
  <2>10. CASE ReviewCommit(p)
    BY <2>10, ReviewKeeps
  <2> QED BY <1>2, <2>1, <2>2, <2>3, <2>4, <2>5, <2>6, <2>7, <2>8, <2>9, <2>10 DEF Serve
<1>3. ASSUME NEW p \in Procs, Rollback(p) PROVE IInv'
  BY <1>3, RollbackKeeps
<1>4. ASSUME NEW s \in Sweepers, Sweep(s) PROVE IInv'
  BY <1>4, ExpireKeeps, RecheckKeeps DEF Sweep
<1>5. ASSUME NEW t \in Tasks, Locked(t) PROVE IInv'
  BY <1>5, LockedKeeps
<1>6. ASSUME NEW l \in Ids, Lapse(l) PROVE IInv'
  BY <1>6, LapseKeeps
<1>7. CASE UNCHANGED vars
  BY <1>7 DEF vars, taskVars, leaseVars, IInv, RowInv, TxInv, RowsTypeOK, TxTypeOK,
     OneLease, SessionsUnderLease, DeletedUnleased, FinishedUnleased, ActiveOn, Active,
     Refers, Knows, Locks, HoldsTask, HoldsLease
<1> QED BY <1>1, <1>2, <1>3, <1>4, <1>5, <1>6, <1>7 DEF Next

\* The inductive invariant holds throughout.
LEMMA Invariance == Spec => []IInv
BY InitInv, NextInv, PTL DEF Spec

-----------------------------------------------------------------------------
(* Steps that make a lease active *)

\* What ClaimedFromReady says of one step.
ClaimStep ==
  \A l \in Ids :
    Active(l)' /\ ~Active(l) =>
      LET t == lease'[l].task IN
      /\ state[t] = "ready" /\ ~deleted[t] /\ ActiveOn(t) = {}
      /\ state'[t] = "in_progress"
      /\ \A k \in Ids : Active(k)' /\ lease'[k].task = t => k = l

\* The insert makes the new lease active and no other, and moves the task that
\* its transaction has kept locked since it read it.
LEMMA InsertClaims ==
  ASSUME IInv, NEW p \in Procs, ClaimInsert(p)
  PROVE  ClaimStep
<1>1. PICK t \in Tasks, a \in Actors, w \in Worktrees :
        /\ t = tx[p].task /\ a = tx[p].actor /\ w = tx[p].wt
        /\ state[t] = "ready" /\ ~deleted[t]
  BY DEF ClaimInsert, IInv, TxInv, Refers, Knows, NamesTask
<1>2. CASE UNCHANGED <<taskVars, leaseVars>>
  BY <1>2 DEF ClaimStep, Active, leaseVars
<1>3. CASE ~(made = MaxLease \/ IndexTaken(made + 1, t, a, w))
  <2> DEFINE r == [task |-> t, actor |-> a, wt |-> w, active |-> TRUE, due |-> FALSE]
  <2>1. /\ lease' = [lease EXCEPT ![made + 1] = r]
        /\ state' = [state EXCEPT ![t] = "in_progress"]
    BY <1>1, <1>3 DEF ClaimInsert
  <2>2. r.task = t
    OBVIOUS
  <2> HIDE DEF r
  <2>3. ASSUME NEW l \in Ids, Active(l)', ~Active(l)
        PROVE  l = made + 1 /\ lease'[l].task = t
    BY <2>1, <2>2, <2>3 DEF IInv, RowInv, RowsTypeOK, Active
  <2>4. state'[t] = "in_progress"
    BY <2>1 DEF IInv, RowInv, RowsTypeOK
  <2>5. \A k \in Ids \ {made + 1} : ~(Active(k) /\ lease[k].task = t)
    BY <1>3 DEF IndexTaken
  <2>6. \A k \in Ids \ {made + 1} : lease'[k] = lease[k]
    BY <2>1 DEF IInv, RowInv, RowsTypeOK
  <2>7. /\ \A k \in Ids : Active(k) => lease[k].task # t \/ k = made + 1
        /\ \A k \in Ids : Active(k)' /\ lease'[k].task = t => k = made + 1
    BY <2>5, <2>6 DEF Active
  <2>8. ASSUME NEW l \in Ids, Active(l)', ~Active(l) PROVE ActiveOn(t) = {}
    BY <2>3, <2>7, <2>8 DEF ActiveOn
  <2> QED BY <1>1, <2>3, <2>4, <2>7, <2>8 DEF ClaimStep
<1> QED BY <1>1, <1>2, <1>3 DEF ClaimInsert

\* Every other statement leaves ended leases ended.
LEMMA NoOtherClaims ==
  ASSUME IInv, NEW p \in Procs, Serve(p), ~ClaimInsert(p), NEW l \in Ids, Active(l)'
  PROVE  Active(l)
<1>1. lease \in [Ids -> Row \union {NoLease}]
  BY DEF IInv, RowInv, RowsTypeOK
<1>2. CASE UNCHANGED lease
  BY <1>2 DEF Active
<1>3. CASE Renew(p)
  BY <1>1, <1>3 DEF Renew, Active, Row, NoLease
<1>4. CASE \E w \in Worktrees : RebindLeaseWorktree(p, w)
  BY <1>1, <1>4 DEF RebindLeaseWorktree, Active, Row, NoLease
<1>5. ASSUME NEW k, NEW ends, Close(k, ends) PROVE Active(l)
  BY <1>1, <1>5 DEF Close, Active, Row, NoLease
<1>6. CASE closeLease(p)
  BY <1>2, <1>5, <1>6 DEF closeLease
<1>7. CASE CloseCommit(p)
  BY <1>5, <1>7 DEF CloseCommit
<1>8. CASE MoveCommit(p)
  BY <1>2, <1>5, <1>8 DEF MoveCommit, CloseActiveLease
<1>9. CASE TouchAgentSession(p) \/ EndAgentSession(p) \/ MoveWrite(p) \/ ReviewCommit(p)
  BY <1>2, <1>9 DEF TouchAgentSession, EndAgentSession, MoveWrite, ReviewCommit, leaseVars
<1> QED BY <1>3, <1>4, <1>6, <1>7, <1>8, <1>9 DEF Serve

\* So every step of the system is as ClaimedFromReady says.
LEMMA StepClaims == IInv /\ [Next]_vars => ClaimStep
<1> SUFFICES ASSUME IInv, [Next]_vars PROVE ClaimStep
  OBVIOUS
<1>1. CASE UNCHANGED lease
  BY <1>1 DEF ClaimStep, Active
<1>2. ASSUME NEW p \in Clients, Request(p) PROVE UNCHANGED lease
  <2>1. leaseVars' = leaseVars
    BY <1>2 DEF Request, Claim, ReadLease, finishTask, DeleteTask, applyPullRequest
  <2> QED BY <2>1 DEF leaseVars
<1>3. ASSUME NEW p \in Procs, Serve(p) PROVE ClaimStep
  BY <1>3, InsertClaims, NoOtherClaims DEF ClaimStep
<1>4. ASSUME NEW p \in Procs, Rollback(p) PROVE UNCHANGED lease
  BY <1>4 DEF Rollback, leaseVars
<1>5. ASSUME NEW s \in Sweepers, Sweep(s) PROVE UNCHANGED lease
  BY <1>5 DEF Sweep, ExpireLeases, Recheck, leaseVars
<1>6. ASSUME NEW t \in Tasks, Locked(t) PROVE UNCHANGED lease
  BY <1>6 DEF Locked, ResolveDelivery, openTaskReview, UndeleteTask, updateTask,
     StartTask, StopTask, AssignTask, MoveLocked, leaseVars
<1>7. ASSUME NEW k \in Ids, Lapse(k) PROVE ClaimStep
  <2>1. \A l \in Ids : Active(l)' => Active(l)
    BY <1>7 DEF Lapse, Active, IInv, RowInv, RowsTypeOK, Row, NoLease
  <2> QED BY <2>1 DEF ClaimStep
<1>8. CASE UNCHANGED vars
  BY <1>1, <1>8 DEF vars, leaseVars
<1> QED BY <1>1, <1>2, <1>3, <1>4, <1>5, <1>6, <1>7, <1>8 DEF Next

-----------------------------------------------------------------------------
(* The lease service.  Every step of the tables is a step of LeaseService or *)
(* leaves what it sees alone.                                                *)

ServiceStep == [Service!Next]_(Service!vars)

\* At most one task's offer changes.
OneOffer(t) == \A u \in Tasks \ {t} : state'[u] = state[u] /\ deleted'[u] = deleted[u]

\* No lease begins or ends.
SameLeases ==
  /\ made' = made
  /\ \A l \in Ids : Active(l)' = Active(l) /\ lease'[l].task = lease[l].task

\* Lease l ends and no other does.
Ends(l) ==
  /\ made' = made /\ Active(l) /\ ~Active(l)'
  /\ \A k \in Ids : lease'[k].task = lease[k].task
  /\ \A k \in Ids \ {l} : Active(k)' = Active(k)

LEMMA OfferMoves ==
  ASSUME NEW t \in Tasks, OneOffer(t)
  PROVE  Offered' \in {Offered \union {t}, Offered \ {t}}
<1>1. CASE t \in Offered'
  BY <1>1 DEF OneOffer, Offered
<1>2. CASE t \notin Offered'
  BY <1>2 DEF OneOffer, Offered
<1> QED BY <1>1, <1>2

LEMMA PublishMaps ==
  ASSUME SameLeases, NEW t \in Tasks, OneOffer(t)
  PROVE  ServiceStep
<1>1. Held' = Held
  BY DEF SameLeases, Held
<1>2. Spent' = Spent
  BY DEF SameLeases, Spent
<1>3. Service!Publish(t)
  BY <1>1, <1>2, OfferMoves DEF Service!Publish, Service!Reoffer
<1> QED BY <1>3 DEF ServiceStep, Service!Next

LEMMA QuietMaps ==
  ASSUME SameLeases, UNCHANGED <<state, deleted>>
  PROVE  ServiceStep
<1>1. Held' = Held
  BY DEF SameLeases, Held
<1>2. Spent' = Spent
  BY DEF SameLeases, Spent
<1>3. Offered' = Offered
  BY DEF Offered
<1> QED BY <1>1, <1>2, <1>3 DEF ServiceStep, Service!vars

LEMMA EndMaps ==
  ASSUME RowInv, NEW l \in Ids, Ends(l), OneOffer(lease[l].task)
  PROVE  ServiceStep
<1> DEFINE t == lease[l].task
<1>1. t \in Tasks /\ l <= made
  BY NoneAssumption DEF RowInv, RowsTypeOK, Ends, Active, Row, NoLease
<1>2. Held' = Held \ {<<t, l>>} /\ <<t, l>> \in Held
  BY DEF Ends, Held
<1>3. Spent' = Spent \union {l}
  BY <1>1 DEF Ends, Spent
<1>4. Service!End(t, l)
  BY <1>1, <1>2, <1>3, OfferMoves DEF Service!End, Service!Reoffer
<1> QED BY <1>1, <1>4 DEF ServiceStep, Service!Next

\* Closing a lease ends it, or changes nothing that counts when it had ended.
LEMMA CloseMaps ==
  ASSUME RowInv, NEW l \in 1 .. made, NEW ends, Close(l, ends), UNCHANGED made
  PROVE  Ends(l) \/ SameLeases
<1>1. l \in Ids /\ lease \in [Ids -> Row \union {NoLease}] /\ lease[l] \in Row
  BY BoundAssumption DEF RowInv, RowsTypeOK, Ids
<1>2. lease' = [lease EXCEPT ![l] = [lease[l] EXCEPT !.active = FALSE]]
  BY DEF Close
<1>3. /\ lease'[l].active = FALSE /\ lease'[l].task = lease[l].task
      /\ \A k \in Ids \ {l} : lease'[k] = lease[k]
  BY <1>1, <1>2 DEF Row
<1>4. Active(l) \in BOOLEAN
  BY <1>1 DEF Active, Row
<1>5. CASE Active(l)
  BY <1>3, <1>5 DEF Ends, Active
<1>6. CASE ~Active(l)
  <2>1. Active(l)' = FALSE /\ Active(l) = FALSE
    BY <1>3, <1>4, <1>6 DEF Active
  <2> QED BY <1>3, <2>1 DEF SameLeases, Active
<1> QED BY <1>4, <1>5, <1>6

\* The insert grants the task that Claim has kept locked.
LEMMA InsertMaps ==
  ASSUME IInv, NEW p \in Procs, ClaimInsert(p)
  PROVE  ServiceStep
<1>1. PICK t \in Tasks, a \in Actors, w \in Worktrees :
        /\ t = tx[p].task /\ a = tx[p].actor /\ w = tx[p].wt
        /\ state[t] = "ready" /\ ~deleted[t]
  BY DEF ClaimInsert, IInv, TxInv, Refers, Knows, NamesTask
<1>2. CASE UNCHANGED <<taskVars, leaseVars>>
  <2>1. SameLeases /\ UNCHANGED <<state, deleted>>
    BY <1>2 DEF SameLeases, Active, leaseVars, taskVars
  <2> QED BY <2>1, QuietMaps
<1>3. CASE ~(made = MaxLease \/ IndexTaken(made + 1, t, a, w))
  <2> DEFINE l == made + 1
             r == [task |-> t, actor |-> a, wt |-> w, active |-> TRUE, due |-> FALSE]
  <2>1. /\ lease' = [lease EXCEPT ![l] = r] /\ made' = l
        /\ state' = [state EXCEPT ![t] = "in_progress"] /\ deleted' = deleted
    BY <1>1, <1>3 DEF ClaimInsert
  <2>2. made \in Nat /\ l \in Ids /\ l \notin 1 .. made
    BY <1>3, BoundAssumption DEF IInv, RowInv, RowsTypeOK, Ids
  <2>3. r.task = t /\ r.active = TRUE
    OBVIOUS
  <2> HIDE DEF r
  <2>4. /\ lease'[l].task = t /\ lease'[l].active = TRUE
        /\ \A k \in Ids \ {l} : lease'[k] = lease[k]
    BY <2>1, <2>2, <2>3 DEF IInv, RowInv, RowsTypeOK
  <2>5. ~Active(l)
    BY <2>2 DEF IInv, RowInv, RowsTypeOK, NoLease, Active, Ids
  <2>6. Held' = Held \union {<<t, l>>}
    BY <2>2, <2>4, <2>5 DEF Held, Active
  <2>7. Spent' = Spent
    BY <2>1, <2>2, <2>4 DEF Spent, Active, Ids
  <2>8. l \notin Spent
    BY <2>2 DEF Spent
  <2>9. \A h \in Held : h[1] # t /\ h[2] # l
    <3>1. \A k \in Ids \ {l} : Active(k) => lease[k].task # t
      BY <1>3 DEF IndexTaken
    <3> QED BY <2>5, <3>1 DEF Held
  <2>10. t \in Offered /\ Offered' = Offered \ {t}
    BY <1>1, <2>1 DEF Offered, IInv, RowInv, RowsTypeOK
  <2>11. Service!Grant(t, l)
    BY <2>6, <2>7, <2>8, <2>9, <2>10 DEF Service!Grant
  <2> QED BY <2>2, <2>11 DEF ServiceStep, Service!Next
<1> QED BY <1>1, <1>2, <1>3 DEF ClaimInsert

\* The two halves of a sweep's or a release's close.
LEMMA ClosersMap ==
  ASSUME IInv, NEW p \in Procs, closeLease(p) \/ CloseCommit(p)
  PROVE  ServiceStep
<1> DEFINE l == tx[p].lease
<1>1. l \in 1 .. made /\ lease[l].task \in Tasks /\ l \in Ids
  BY BoundAssumption DEF closeLease, CloseCommit, IInv, TxInv, Refers, NamesLease, RowInv, RowsTypeOK,
     Ids, Row
<1>2. CASE closeLease(p)
  <2>1. OneOffer(lease[l].task) /\ UNCHANGED <<made, state, deleted>>
    BY <1>2 DEF closeLease, OneOffer, taskVars
  <2>2. CASE UNCHANGED lease
    BY <2>1, <2>2, QuietMaps DEF SameLeases, Active
  <2>3. ASSUME NEW ends, Close(l, ends) PROVE ServiceStep
    BY <1>1, <2>1, <2>3, CloseMaps, EndMaps, QuietMaps DEF IInv
  <2> QED BY <1>2, <2>2, <2>3 DEF closeLease
<1>3. CASE CloseCommit(p)
  <2>1. OneOffer(lease[l].task) /\ Close(l, tx[p].ends) /\ UNCHANGED made
    BY <1>3 DEF CloseCommit, OneOffer, IInv, RowInv, RowsTypeOK
  <2> QED BY <1>1, <2>1, CloseMaps, EndMaps, PublishMaps DEF IInv
<1> QED BY <1>2, <1>3

\* A finish or a delete, with the close of whatever lease the task has.
LEMMA MovesMap ==
  ASSUME IInv, NEW p \in Procs, MoveCommit(p)
  PROVE  ServiceStep
<1> DEFINE t == tx[p].task
<1>1. t \in Tasks
  BY DEF MoveCommit, IInv, TxInv, Refers, NamesTask
<1>2. OneOffer(t) /\ UNCHANGED made
  BY DEF MoveCommit, OneOffer, IInv, RowInv, RowsTypeOK
<1>3. CASE UNCHANGED lease
  <2>1. SameLeases
    BY <1>2, <1>3 DEF SameLeases, Active
  <2> QED BY <1>1, <1>2, <2>1, PublishMaps
<1>4. ASSUME NEW l \in ActiveOn(t), NEW ends, Close(l, ends) PROVE ServiceStep
  <2>1. l \in 1 .. made /\ lease[l].task = t
    BY <1>4, <1>1 DEF ActiveOn, Active, IInv, RowInv, RowsTypeOK, NoLease, Ids
  <2> QED BY <1>1, <1>2, <1>4, <2>1, CloseMaps, EndMaps, PublishMaps DEF IInv, ActiveOn
<1> QED BY <1>3, <1>4 DEF MoveCommit, CloseActiveLease

\* The writes of a row by id that end or begin nothing.
LEMMA RowWritesMap ==
  ASSUME IInv, NEW p \in Procs,
         Renew(p) \/ (\E w \in Worktrees : RebindLeaseWorktree(p, w))
         \/ TouchAgentSession(p) \/ EndAgentSession(p) \/ MoveWrite(p)
  PROVE  ServiceStep
<1>1. lease \in [Ids -> Row \union {NoLease}]
  BY DEF IInv, RowInv, RowsTypeOK
<1>2. CASE Renew(p)
  <2>1. SameLeases /\ UNCHANGED <<state, deleted>>
    BY <1>1, <1>2 DEF Renew, SameLeases, Active, taskVars, Row, NoLease
  <2> QED BY <2>1, QuietMaps
<1>3. CASE \E w \in Worktrees : RebindLeaseWorktree(p, w)
  <2>1. SameLeases /\ UNCHANGED <<state, deleted>>
    BY <1>1, <1>3 DEF RebindLeaseWorktree, SameLeases, Active, taskVars, Row, NoLease
  <2> QED BY <2>1, QuietMaps
<1>4. CASE TouchAgentSession(p) \/ EndAgentSession(p) \/ MoveWrite(p)
  <2>1. SameLeases /\ UNCHANGED <<state, deleted>>
    BY <1>4 DEF TouchAgentSession, EndAgentSession, MoveWrite, SameLeases, Active, taskVars, leaseVars
  <2> QED BY <2>1, QuietMaps
<1> QED BY <1>2, <1>3, <1>4

LEMMA StepMaps == IInv /\ [Next]_vars => ServiceStep
<1> SUFFICES ASSUME IInv, [Next]_vars PROVE ServiceStep
  OBVIOUS
<1>1. ASSUME UNCHANGED leaseVars, UNCHANGED taskVars PROVE ServiceStep
  <2>1. SameLeases /\ UNCHANGED <<state, deleted>>
    BY <1>1 DEF SameLeases, Active, leaseVars, taskVars
  <2> QED BY <2>1, QuietMaps
<1>2. ASSUME NEW p \in Clients, Request(p) PROVE ServiceStep
  <2>1. UNCHANGED leaseVars /\ UNCHANGED taskVars
    BY <1>2 DEF Request, Claim, ReadLease, finishTask, DeleteTask, applyPullRequest
  <2> QED BY <1>1, <2>1
<1>3. ASSUME NEW p \in Procs, ReviewCommit(p) PROVE ServiceStep
  <2>1. tx[p].task \in Tasks
    BY <1>3 DEF ReviewCommit, IInv, TxInv, Refers, NamesTask
  <2>2. SameLeases /\ OneOffer(tx[p].task)
    BY <1>3, <2>1 DEF ReviewCommit, SameLeases, OneOffer, Active, leaseVars, IInv, RowInv, RowsTypeOK
  <2> QED BY <2>1, <2>2, PublishMaps
<1>4. ASSUME NEW p \in Procs, Serve(p) PROVE ServiceStep
  BY <1>3, <1>4, InsertMaps, ClosersMap, MovesMap, RowWritesMap DEF Serve
<1>5. ASSUME NEW p \in Procs, Rollback(p) PROVE ServiceStep
  BY <1>1, <1>5 DEF Rollback
<1>6. ASSUME NEW s \in Sweepers, Sweep(s) PROVE ServiceStep
  <2>1. SameLeases /\ UNCHANGED <<state, deleted>>
    BY <1>6 DEF Sweep, ExpireLeases, Recheck, SameLeases, Active, taskVars, leaseVars
  <2> QED BY <2>1, QuietMaps
<1>7. ASSUME NEW t \in Tasks, Locked(t) PROVE ServiceStep
  <2>1. SameLeases
    BY <1>7 DEF Locked, ResolveDelivery, openTaskReview, UndeleteTask, updateTask,
       StartTask, StopTask, AssignTask, MoveLocked, leaseVars, SameLeases, Active
  <2>2. OneOffer(t)
    BY <1>7 DEF Locked, ResolveDelivery, openTaskReview, UndeleteTask, updateTask,
       StartTask, StopTask, AssignTask, MoveLocked, OneOffer, IInv, RowInv, RowsTypeOK
  <2> QED BY <2>1, <2>2, PublishMaps
<1>8. ASSUME NEW k \in Ids, Lapse(k) PROVE ServiceStep
  <2>1. SameLeases /\ UNCHANGED <<state, deleted>>
    BY <1>8 DEF Lapse, SameLeases, Active, taskVars, IInv, RowInv, RowsTypeOK, Row, NoLease
  <2> QED BY <2>1, QuietMaps
<1>9. CASE UNCHANGED vars
  BY <1>1, <1>9 DEF vars
<1> QED BY <1>2, <1>4, <1>5, <1>6, <1>7, <1>8, <1>9 DEF Next

-----------------------------------------------------------------------------
(* Sweeps *)

\* Sweepers work on leases of their own whose event is not recorded yet.
SweepInv ==
  \A s \in Sweepers :
    /\ tx[s].at \in {"idle", "expiring", "closing"}
    /\ tx[s].at # "idle" =>
         /\ tx[s].lease \notin expired
         /\ \A r \in Sweepers \ {s} : tx[r].at # "idle" => tx[r].lease # tx[s].lease

\* A sweeper may go on with its lease, or end and record it.
LEMMA SweepStep ==
  ASSUME SweepInv, tx \in [Procs -> Tx], NEW p \in Procs, NEW r \in Tx, Step(p, r),
         p \in Sweepers =>
           \/ r.at = "idle"
           \/ /\ r.at = "closing" /\ r.lease = tx[p].lease /\ tx[p].at # "idle"
              /\ expired' = expired,
         \/ expired' = expired
         \/ p \in Sweepers /\ tx[p].at # "idle" /\ expired' = expired \union {tx[p].lease}
  PROVE  SweepInv'
<1>1. tx'[p] = r /\ \A q \in Procs : q # p => tx'[q] = tx[q]
  BY StepOne
<1> QED BY <1>1 DEF SweepInv, Procs

\* The statements of a transaction.
LEMMA ServeSweeps ==
  ASSUME SweepInv, TxTypeOK, NEW p \in Procs, Serve(p)
  PROVE  SweepInv'
<1>1. tx \in [Procs -> Tx] /\ NoTx \in Tx /\ NoTx.at = "idle"
  BY NoTxFacts DEF TxTypeOK
<1>2. CASE closeLease(p)
  <2>1. CASE Step(p, [tx[p] EXCEPT !.at = "closing",
                        !.ends = session[tx[p].lease] = "open"]) /\ expired' = expired
    <3> DEFINE r == [tx[p] EXCEPT !.at = "closing",
                       !.ends = session[tx[p].lease] = "open"]
    <3>1. r \in Tx /\ r.at = "closing" /\ r.lease = tx[p].lease
      BY <1>1 DEF Tx
    <3>2. Step(p, r) /\ tx[p].at # "idle"
      BY <1>2, <2>1 DEF closeLease
    <3> HIDE DEF r
    <3> QED BY <1>1, <2>1, <3>1, <3>2, SweepStep
  <2>2. CASE End(p) /\ expired' = Recorded(p)
    BY <1>1, <1>2, <2>2, SweepStep DEF closeLease, End, Recorded
  <2> QED BY <1>2, <2>1, <2>2 DEF closeLease
<1>3. CASE CloseCommit(p)
  BY <1>1, <1>3, SweepStep DEF CloseCommit, End, Recorded
<1>4. CASE ~closeLease(p) /\ ~CloseCommit(p)
  <2>1. p \notin Sweepers /\ expired' = expired
    BY <1>4, Zenon DEF Serve, SweepInv, ClaimInsert, Renew, RebindLeaseWorktree,
       TouchAgentSession, EndAgentSession, MoveWrite, MoveCommit, ReviewCommit, leaseVars
  <2>2. PICK r : Step(p, r)
    BY <1>4 DEF Serve, End, ClaimInsert, Renew, RebindLeaseWorktree,
       TouchAgentSession, EndAgentSession, MoveWrite, MoveCommit, ReviewCommit
  <2>3. \A q \in Sweepers : tx'[q] = tx[q]
    BY <1>1, <2>1, <2>2 DEF Step, Procs
  <2> QED BY <2>1, <2>3 DEF SweepInv
<1> QED BY <1>2, <1>3, <1>4

\* Every step keeps the sweepers apart.
LEMMA SweepsApart == SweepInv /\ TxTypeOK /\ [Next]_vars => SweepInv'
<1> SUFFICES ASSUME SweepInv, TxTypeOK, [Next]_vars PROVE SweepInv'
  OBVIOUS
<1>1. tx \in [Procs -> Tx] /\ NoTx \in Tx /\ NoTx.at = "idle"
  BY NoTxFacts DEF TxTypeOK
<1>2. ASSUME NEW p \in Clients, Request(p) PROVE SweepInv'
  <2>1. p \notin Sweepers /\ expired' = expired
    BY <1>2, ProcsAssumption DEF Request, Claim, ReadLease, finishTask, DeleteTask,
       applyPullRequest, leaseVars
  <2>2. PICK r : Step(p, r)
    BY <1>2 DEF Request, Claim, ReadLease, finishTask, DeleteTask, applyPullRequest
  <2>3. \A q \in Sweepers : tx'[q] = tx[q]
    BY <1>1, <2>1, <2>2 DEF Step, Procs
  <2> QED BY <2>1, <2>3 DEF SweepInv
<1>3. ASSUME NEW p \in Procs, Serve(p) PROVE SweepInv'
  BY <1>3, ServeSweeps
<1>4. ASSUME NEW p \in Procs, Rollback(p) PROVE SweepInv'
  BY <1>1, <1>4, SweepStep DEF Rollback, End, leaseVars
<1>5. ASSUME NEW s \in Sweepers, ExpireLeases(s) PROVE SweepInv'
  BY <1>5 DEF ExpireLeases, SweepInv, leaseVars
<1>6. ASSUME NEW s \in Sweepers, NEW l \in Ids, Recheck(s, l) PROVE SweepInv'
  <2>1. \A q \in Sweepers : tx[q].at # "idle" => tx[q].lease # l
    BY <1>6 DEF Recheck
  <2>2. CASE UNCHANGED tx /\ expired' \subseteq expired \union {l}
    BY <2>1, <2>2 DEF SweepInv
  <2>3. CASE /\ l \notin expired /\ expired' = expired
             /\ Step(s, [NoTx EXCEPT !.at = "expiring", !.lease = l])
    <3> DEFINE r == [NoTx EXCEPT !.at = "expiring", !.lease = l]
    <3>1. r \in Tx /\ r.at = "expiring" /\ r.lease = l
      BY DEF NoTx, Tx
    <3> HIDE DEF r
    <3>2. tx'[s] = r /\ \A q \in Procs : q # s => tx'[q] = tx[q]
      BY <1>1, <2>3, <3>1, StepOne DEF Procs, r
    <3> QED BY <2>1, <2>3, <3>1, <3>2 DEF SweepInv, Procs
  <2> QED BY <1>6, <2>2, <2>3 DEF Recheck
<1>7. ASSUME NEW t \in Tasks, Locked(t) PROVE UNCHANGED <<tx, expired>>
  BY <1>7 DEF Locked, ResolveDelivery, openTaskReview, UndeleteTask, updateTask,
     StartTask, StopTask, AssignTask, MoveLocked, leaseVars
<1>8. ASSUME NEW k \in Ids, Lapse(k) PROVE UNCHANGED <<tx, expired>>
  BY <1>8 DEF Lapse
<1>9. CASE UNCHANGED <<tx, expired>>
  BY <1>9 DEF SweepInv
<1>10. CASE UNCHANGED vars
  BY <1>9, <1>10 DEF vars, leaseVars
<1> QED BY <1>2, <1>3, <1>4, <1>5, <1>6, <1>7, <1>8, <1>9, <1>10 DEF Next, Sweep

-----------------------------------------------------------------------------
(* Theorems *)

\* Every variable of the task and lease tables, and of the transactions open on
\* them, keeps its type.
THEOREM Typing == Spec => []TypeOK
<1>1. IInv => TypeOK
  BY DEF IInv, RowInv, TxInv, TypeOK
<1> QED BY <1>1, Invariance, PTL

\* A task has one active lease at most, and so has an actor in a worktree: the
\* indexes suffice whatever Claim, RebindLeaseWorktree and the closers do.
THEOREM Exclusive == Spec => []OneLease
<1>1. IInv => OneLease
  BY DEF IInv, RowInv
<1> QED BY <1>1, Invariance, PTL

\* FOR SHARE in the heartbeat suffices: endOpenAgentSessionsOnLease leaves no
\* session open and none opens on a lease that has ended.
THEOREM SessionsEndWithLease == Spec => []SessionsUnderLease
<1>1. IInv => SessionsUnderLease
  BY DEF IInv, RowInv
<1> QED BY <1>1, Invariance, PTL

\* DeleteTask, whatever it races with, leaves no lease behind.
THEOREM TombstonesUnleased == Spec => []DeletedUnleased
<1>1. IInv => DeletedUnleased
  BY DEF IInv, RowInv
<1> QED BY <1>1, Invariance, PTL

\* finishTask's CloseActiveLease suffices: an abandoned or completed task holds
\* no lease, although its state was read without a lock.
THEOREM FinishedTasksUnleased == Spec => []FinishedUnleased
<1>1. IInv => FinishedUnleased
  BY DEF IInv, RowInv
<1> QED BY <1>1, Invariance, PTL

\* What DeleteTask and finishTask close stays closed: no lease is active on a
\* task that is deleted, abandoned or completed.
THEOREM EndedTasksUnleased == Spec => []EndedUnleased
BY TombstonesUnleased, FinishedTasksUnleased, PTL DEF EndedUnleased

\* A lease appears only on a live, ready task, which its insert moves to
\* in_progress: the row lock Claim's SELECT takes carries its check to the write.
THEOREM ClaimsReadyTasks == Spec => ClaimedFromReady
<1>1. IInv /\ [Next]_vars => ClaimStep
  BY StepClaims
<1>2. Spec => [][ClaimStep]_vars
  BY <1>1, Invariance, PTL DEF Spec
<1> QED BY <1>2 DEF ClaimedFromReady, ClaimStep

\* The detailed tables implement the abstract service: granting, ending and
\* offering are all that Claim, the closers, the by-id writes and the moves
\* of a task do, in whichever order their statements meet.
THEOREM LeasesRefine == Spec => ImplementsService
<1>1. Init => Service!Init
  <2> SUFFICES ASSUME Init PROVE Service!Init
    OBVIOUS
  <2>1. \A l \in Ids : lease[l] = NoLease /\ l \in Nat /\ l > 0
    BY DEF Init, Ids
  <2>2. \A l \in Ids : ~Active(l) /\ ~(l <= made)
    BY <2>1 DEF Init, Active, NoLease
  <2> QED BY <2>2 DEF Service!Init, Offered, Held, Spent
<1>2. IInv /\ [Next]_vars => [Service!Next]_(Service!vars)
  BY StepMaps DEF ServiceStep
<1> QED BY <1>1, <1>2, Invariance, PTL DEF Spec, ImplementsService, Service!Spec

\* Any number of replicas may sweep without the advisory lock: the event's
\* external id lets one of them close a lease, once.
THEOREM SweepsOnce == Spec => []SweptOnce
<1>1. Init => SweepInv
  BY DEF Init, SweepInv, NoTx, Procs
<1>2. IInv => TxTypeOK
  BY DEF IInv, TxInv
<1>3. SweepInv => SweptOnce
  BY DEF SweepInv, SweptOnce, Idle
<1> QED BY <1>1, <1>2, <1>3, SweepsApart, Invariance, PTL DEF Spec
=============================================================================

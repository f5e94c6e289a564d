-------------------------- MODULE HierarchyProofs --------------------------
(***************************************************************************)
(* Theorems about Hierarchy, for any tasks and any number of clients.      *)
(*                                                                         *)
(* The inductive invariant IInv has four parts.  TypeOK gives the shapes.  *)
(* Exclusive says that no two open transactions hold one row.  Grounded    *)
(* says which rows an open transaction writes: the task its request names, *)
(* the tasks it creates, and tasks that exist and are no drafts; the tasks *)
(* it creates do not exist for anyone else before it commits.  OneParent   *)
(* needs the last of Grounded for Decompose, which inserts edges without   *)
(* waiting, and DraftsStayDraft needs the others.                          *)
(*                                                                         *)
(* Three more invariants stand on IInv.  HeldInv, for HeldNotSplit, says   *)
(* that what a claim or a decomposition has read still holds.  ForestInv,  *)
(* for Forest, speaks of paths of childOf edges, and of the edges that a   *)
(* transaction no other overlaps has still to put in; that Depth and       *)
(* reaches, recursive functions, measure those paths is shown by unfolding *)
(* them.  RollInv, for RolledUpAlone, says of such a transaction that a    *)
(* parent it has unsettled is as the table has it or that the last move of *)
(* the parent on its stack takes it there.                                 *)
(***************************************************************************)
EXTENDS Hierarchy, FiniteSetTheorems, SequenceTheorems, WellFoundedInduction, TLAPS

Exclusive ==
  \A p, q \in Clients : \A t \in Tasks : p # q => ~(Holds(p, t) /\ Holds(q, t))

\* A row the transaction r may write.
Own(r, c) == c = r.t \/ c \in r.kids \/ state[c] \notin {"none", "draft"}

TxGrounded(r) ==
  /\ r.at \in {"open", "edge"} => r.t \in Tasks /\ state[r.t] # "none"
  /\ r.at = "edge" => \A c \in r.kids : state[c] # "none"
  /\ r.at = "open" =>
       /\ \A c \in r.kids : state[c] = "none" /\ r.ov[c] # None
       /\ \A c \in Tasks : r.ov[c] # None => Own(r, c)
       /\ \A c \in Tasks : r.ov[c] = "draft" => c \in r.kids \/ state[c] = "draft"
       /\ \A i \in 1..Len(r.stack) : Own(r, r.stack[i][1]) /\ r.stack[i][2] # "draft"

Grounded == \A p \in Clients : TxGrounded(tx[p])

IInv == TypeOK /\ Exclusive /\ Grounded /\ OneParent

\* For HeldNotSplit: a transaction that splits a task, or claims it, has the
\* row and what it read of the lease, or of the children, still holds.
TxHeld(r) ==
  /\ ~r.flip
  /\ r.at = "open" /\ r.kids # {} => r.hard /\ r.t \notin leased
  /\ r.at = "open" /\ r.lease = "take" => r.hard /\ ~hasChildren(r.t)

HeldInv == \A p \in Clients : TxHeld(tx[p])

-----------------------------------------------------------------------------
(* The roll-up *)

\* What the roll-up may do to a transaction: refuse it, or stack transitions of
\* rows it may write, none of them to draft.
Extends(r, s) ==
  \/ s = [r EXCEPT !.at = "refused"]
  \/ \E m \in Seq(Tasks \X States) :
       /\ s = [r EXCEPT !.stack = m \o @]
       /\ \A i \in 1..Len(m) : Own(r, m[i][1]) /\ m[i][2] # "draft"

\* containerTarget is a state, and never draft.
LEMMA Targets ==
  ASSUME NEW r, NEW q
  PROVE  containerTarget(r, q) \in States \ {"draft"}
BY DEF containerTarget, States

\* ResolveHierarchy moves q only, and only when q is no draft.
LEMMA ResolveMoves ==
  ASSUME NEW r, NEW q \in Tasks
  PROVE  /\ ResolveHierarchy(r, q) \in Seq(Tasks \X States)
         /\ \A i \in 1..Len(ResolveHierarchy(r, q)) :
              /\ ResolveHierarchy(r, q)[i][1] = q
              /\ ResolveHierarchy(r, q)[i][2] # "draft"
         /\ ResolveHierarchy(r, q) # <<>> => StateIn(r, q) # "draft"
<1> DEFINE target == containerTarget(r, q)
<1>1. target \in States \ {"draft"} /\ "ready" \in States
  BY Targets DEF States
<1>2. ResolveHierarchy(r, q) \in {<<>>, <<<<q, target>>>>, <<<<q, "ready">>, <<q, target>>>>}
  BY DEF ResolveHierarchy
<1>3. ResolveHierarchy(r, q) # <<>> => StateIn(r, q) # "draft"
  BY DEF ResolveHierarchy
<1> HIDE DEF target
<1>4. CASE ResolveHierarchy(r, q) = <<>>
  BY <1>4
<1>5. CASE ResolveHierarchy(r, q) = <<<<q, target>>>>
  BY <1>1, <1>3, <1>5
<1>6. CASE ResolveHierarchy(r, q) = <<<<q, "ready">>, <<q, target>>>>
  BY <1>1, <1>3, <1>6
<1> QED BY <1>2, <1>4, <1>5, <1>6

\* Follow, which ResolveHierarchy's callers reach.
LEMMA FollowExtends ==
  ASSUME NEW r \in Transactions, NEW q \in Tasks,
         \A c \in Tasks : r.ov[c] # None => Own(r, c),
         q = r.t \/ state[q] # "none"
  PROVE  Extends(r, Follow(r, q))
<1> DEFINE m == ResolveHierarchy(r, q)
<1>1. /\ m \in Seq(Tasks \X States)
      /\ \A i \in 1..Len(m) : m[i][1] = q /\ m[i][2] # "draft"
      /\ m # <<>> => StateIn(r, q) # "draft"
  BY ResolveMoves
<1>2. m # <<>> => Own(r, q)
  BY <1>1 DEF StateIn, Own
<1>3. Follow(r, q) = IF m # <<>> /\ StateIn(r, q) \in containerForbiddenStates
                     THEN [r EXCEPT !.at = "refused"] ELSE [r EXCEPT !.stack = m \o @]
  BY DEF Follow
<1> HIDE DEF m
<1>4. \A i \in 1..Len(m) : Own(r, m[i][1]) /\ m[i][2] # "draft"
  <2> SUFFICES ASSUME NEW i \in 1..Len(m) PROVE Own(r, m[i][1]) /\ m[i][2] # "draft"
    OBVIOUS
  <2>1. m # <<>>
    OBVIOUS
  <2> QED BY <1>1, <1>2, <2>1
<1> QED BY <1>1, <1>3, <1>4 DEF Extends

\* resolveParent, which every transition calls.
LEMMA ResolveParentExtends ==
  ASSUME TypeOK, NEW r \in Transactions, NEW t \in Tasks, r.t \in Tasks,
         \A c \in Tasks : r.ov[c] # None => Own(r, c)
  PROVE  Extends(r, resolveParent(r, t))
<1>1. CASE parentOf(r, t) = {}
  <2> DEFINE m == <<>>
  <2>1. m \in Seq(Tasks \X States) /\ Len(m) = 0
    OBVIOUS
  <2>2. r.stack \in Seq(Tasks \X States)
    BY DEF Transactions
  <2>3. m \o r.stack = r.stack
    BY <2>2, ConcatEmptySeq
  <2>4. r = [r EXCEPT !.stack = m \o @]
    BY <2>3 DEF Transactions
  <2>5. resolveParent(r, t) = r
    BY <1>1 DEF resolveParent
  <2>6. \A i \in 1..Len(m) : Own(r, m[i][1]) /\ m[i][2] # "draft"
    BY <2>1
  <2> QED BY <2>1, <2>4, <2>5, <2>6 DEF Extends
<1>2. CASE parentOf(r, t) # {}
  <2>1. PICK q \in parentOf(r, t) : resolveParent(r, t) = Follow(r, q)
    BY <1>2 DEF resolveParent
  <2>2. q \in Tasks /\ <<t, q>> \in EdgesIn(r)
    BY <2>1 DEF parentOf
  <2>3. q = r.t \/ state[q] # "none"
    BY <2>2 DEF EdgesIn, TypeOK
  <2> QED BY <2>1, <2>2, <2>3, FollowExtends
<1> QED BY <1>1, <1>2

\* A transaction so extended is grounded if it was, and keeps its rows.
LEMMA ExtendsKeeps ==
  ASSUME NEW r \in Transactions, NEW s, Extends(r, s), TxGrounded(r), r.at = "open"
  PROVE  /\ s \in Transactions /\ TxGrounded(s) /\ s.at \in {"open", "refused"}
         /\ s.t = r.t /\ s.hard = r.hard /\ s.kids = r.kids /\ s.ov = r.ov
         /\ s.lease = r.lease /\ s.land = r.land /\ s.flip = r.flip /\ s.alone = r.alone
<1>1. CASE s = [r EXCEPT !.at = "refused"]
  BY <1>1 DEF Transactions, TxGrounded
<1>2. CASE s # [r EXCEPT !.at = "refused"]
  <2>1. PICK m \in Seq(Tasks \X States) :
          /\ s = [r EXCEPT !.stack = m \o @]
          /\ \A i \in 1..Len(m) : Own(r, m[i][1]) /\ m[i][2] # "draft"
    BY <1>2 DEF Extends
  <2>2. r.stack \in Seq(Tasks \X States)
    BY DEF Transactions
  <2> DEFINE k == m \o r.stack
  <2>3. /\ k \in Seq(Tasks \X States) /\ Len(k) = Len(m) + Len(r.stack)
        /\ \A i \in 1..Len(m) + Len(r.stack) :
             k[i] = IF i <= Len(m) THEN m[i] ELSE r.stack[i - Len(m)]
    BY <2>2, ConcatProperties
  <2>4. s = [r EXCEPT !.stack = k]
    BY <2>1
  <2> HIDE DEF k
  <2>5. /\ s \in Transactions /\ s.stack = k /\ s.at = "open"
        /\ s.t = r.t /\ s.hard = r.hard /\ s.kids = r.kids /\ s.ov = r.ov
        /\ s.lease = r.lease /\ s.land = r.land /\ s.flip = r.flip /\ s.alone = r.alone
    BY <2>3, <2>4 DEF Transactions
  <2>6. \A i \in 1..Len(k) : Own(r, k[i][1]) /\ k[i][2] # "draft"
    <3> SUFFICES ASSUME NEW i \in 1..Len(k) PROVE Own(r, k[i][1]) /\ k[i][2] # "draft"
      OBVIOUS
    <3>0. Len(m) \in Nat /\ Len(r.stack) \in Nat
      BY <2>2, LenProperties
    <3>1. CASE i <= Len(m)
      BY <2>1, <2>3, <3>0, <3>1
    <3>2. CASE i > Len(m)
      <4>1. i - Len(m) \in 1..Len(r.stack) /\ k[i] = r.stack[i - Len(m)]
        BY <2>3, <3>0, <3>2
      <4> QED BY <4>1 DEF TxGrounded
    <3> QED BY <3>0, <3>1, <3>2
  <2>7. \A c : Own(s, c) <=> Own(r, c)
    BY <2>5 DEF Own
  <2> QED BY <2>5, <2>6, <2>7 DEF TxGrounded
<1> QED BY <1>1, <1>2

-----------------------------------------------------------------------------
(* Steps that leave the rows alone *)

\* The rows r holds.
Rows(r) == {c \in Tasks : r.at = "open" /\ (r.ov[c] # None \/ (r.t = c /\ r.hard))}

\* A client's transaction becomes s; others only lose their solitude.
TxStep(p, s) ==
  /\ \E b \in BOOLEAN : tx'[p] = [s EXCEPT !.alone = b]
  /\ \A q \in Clients \ {p} : \E b \in BOOLEAN : tx'[q] = [tx[q] EXCEPT !.alone = b]
  /\ tx' = [q \in Clients |-> tx'[q]]

LEMMA HoldsRows ==
  ASSUME NEW p \in Clients, NEW c \in Tasks
  PROVE  Holds(p, c) <=> c \in Rows(tx[p])
BY DEF Holds, Rows

\* alone is no part of what a transaction holds or may write.
LEMMA AloneKeeps ==
  ASSUME NEW r \in Transactions, NEW b \in BOOLEAN
  PROVE  /\ [r EXCEPT !.alone = b] \in Transactions
         /\ Rows([r EXCEPT !.alone = b]) = Rows(r)
         /\ TxGrounded(r) => TxGrounded([r EXCEPT !.alone = b])
         /\ TxHeld(r) => TxHeld([r EXCEPT !.alone = b])
<1> DEFINE s == [r EXCEPT !.alone = b]
<1>1. /\ s \in Transactions /\ s.at = r.at /\ s.t = r.t /\ s.hard = r.hard
      /\ s.flip = r.flip /\ s.lease = r.lease /\ s.land = r.land /\ s.kids = r.kids
      /\ s.ov = r.ov /\ s.stack = r.stack
  BY DEF Transactions
<1> HIDE DEF s
<1>2. Rows(s) = Rows(r)
  BY <1>1 DEF Rows
<1>3. TxGrounded(r) => TxGrounded(s)
  BY <1>1 DEF TxGrounded, Own
<1>4. TxHeld(r) => TxHeld(s)
  BY <1>1 DEF TxHeld
<1> QED BY <1>1, <1>2, <1>3, <1>4 DEF s

\* What a client may do to its transaction and keep IInv.
LEMMA TxStepKeeps ==
  ASSUME IInv, NEW p \in Clients, NEW s \in Transactions, TxGrounded(s),
         TxStep(p, s), UNCHANGED rows,
         \A c \in Rows(s) : RowFree(p, c)
  PROVE  IInv'
<1>1. tx \in [Clients -> Transactions]
  BY DEF IInv, TypeOK
<1>2. /\ tx'[p] \in Transactions /\ TxGrounded(tx'[p]) /\ Rows(tx'[p]) = Rows(s)
  BY AloneKeeps DEF TxStep
<1>3. \A q \in Clients \ {p} :
        tx'[q] \in Transactions /\ TxGrounded(tx'[q]) /\ Rows(tx'[q]) = Rows(tx[q])
  BY <1>1, AloneKeeps DEF TxStep, IInv, Grounded
<1>4. tx' \in [Clients -> Transactions]
  BY <1>2, <1>3 DEF TxStep
<1>5. /\ state' = state /\ deleted' = deleted /\ gated' = gated /\ up' = up
      /\ leased' = leased /\ raced' = raced
  BY DEF rows
<1>6. TypeOK'
  BY <1>4, <1>5 DEF IInv, TypeOK
<1>7. Grounded'
  <2> SUFFICES ASSUME NEW q \in Clients PROVE TxGrounded(tx[q])'
    BY DEF Grounded
  <2>1. TxGrounded(tx'[q])
    BY <1>2, <1>3
  <2> QED BY <2>1, <1>5 DEF TxGrounded, Own
<1>8. Exclusive'
  <2> SUFFICES ASSUME NEW q1 \in Clients, NEW q2 \in Clients, NEW c \in Tasks, q1 # q2,
                      Holds(q1, c)', Holds(q2, c)'
               PROVE  FALSE
    BY DEF Exclusive
  <2>1. c \in Rows(tx'[q1]) /\ c \in Rows(tx'[q2])
    BY DEF Holds, Rows
  <2>2. CASE q1 # p /\ q2 # p
    <3>1. Holds(q1, c) /\ Holds(q2, c)
      BY <1>3, <2>1, <2>2, HoldsRows
    <3> QED BY <3>1 DEF IInv, Exclusive
  <2>3. CASE q1 = p
    <3>1. RowFree(p, c) /\ Holds(q2, c)
      BY <1>2, <1>3, <2>1, <2>3, HoldsRows
    <3> QED BY <3>1, <2>3 DEF RowFree
  <2>4. CASE q2 = p
    <3>1. RowFree(p, c) /\ Holds(q1, c)
      BY <1>2, <1>3, <2>1, <2>4, HoldsRows
    <3> QED BY <3>1, <2>4 DEF RowFree
  <2> QED BY <2>2, <2>3, <2>4
<1>9. OneParent'
  BY <1>5 DEF IInv, OneParent, parentOf, EdgesIn, NoTx
<1> QED BY <1>6, <1>7, <1>8, <1>9 DEF IInv

LEMMA NoTxGrounded == NoTx \in Transactions /\ TxGrounded(NoTx) /\ Rows(NoTx) = {}
<1>1. <<>> \in Seq(Tasks \X States)
  OBVIOUS
<1> QED BY <1>1 DEF NoTx, Transactions, TxGrounded, Rows

LEMMA OpenTxStep ==
  ASSUME NEW p \in Clients, NEW r \in Transactions, Open(p, r), IInv
  PROVE  TxStep(p, r)
<1>1. tx \in [Clients -> Transactions]
  BY DEF IInv, TypeOK
<1> DEFINE b == \A o \in Clients \ {p} : Idle(o)
<1>2. b \in BOOLEAN
  OBVIOUS
<1>3. tx' = [q \in Clients |-> IF q = p THEN [r EXCEPT !.alone = b]
                              ELSE [tx[q] EXCEPT !.alone = FALSE]]
  BY DEF Open
<1> HIDE DEF b
<1> QED BY <1>1, <1>2, <1>3 DEF TxStep

LEMMA GotoTxStep ==
  ASSUME NEW p \in Clients, NEW r \in Transactions, Goto(p, r), IInv
  PROVE  TxStep(p, r)
<1>1. tx \in [Clients -> Transactions]
  BY DEF IInv, TypeOK
<1>2. tx'[p] = r /\ \A q \in Clients \ {p} : tx'[q] = tx[q]
  BY <1>1 DEF Goto
<1>3. \A s \in Transactions : s.alone \in BOOLEAN /\ s = [s EXCEPT !.alone = s.alone]
  BY DEF Transactions
<1>4. tx' = [q \in Clients |-> tx'[q]]
  BY <1>1 DEF Goto
<1> QED BY <1>1, <1>2, <1>3, <1>4 DEF TxStep

-----------------------------------------------------------------------------
(* Transactions that begin *)

\* A move whose row is not locked yet: t is no draft, or named.
LEMMA BeginMoveKeeps ==
  ASSUME IInv, NEW p \in Clients, NEW t \in Tasks, NEW to \in States,
         NEW lease \in {"keep", "end"}, NEW land \in {"keep", "clear"},
         BeginMove(p, t, to, lease, land), state[t] # "none", to # "draft"
  PROVE  IInv'
<1> DEFINE m == <<<<t, to>>>>
           s == [NoTx EXCEPT !.at = "open", !.t = t, !.lease = lease, !.land = land,
                             !.stack = m]
<1>1. m \in Seq(Tasks \X States) /\ Len(m) = 1 /\ m[1] = <<t, to>>
  OBVIOUS
<1>2. Open(p, s) /\ UNCHANGED rows
  BY DEF BeginMove
<1> HIDE DEF m
<1>3. /\ s \in Transactions /\ s.at = "open" /\ s.t = t /\ s.kids = {} /\ ~s.hard
      /\ s.stack = m /\ \A c \in Tasks : s.ov[c] = None
  BY <1>1 DEF NoTx, Transactions
<1> HIDE DEF s
<1>4. TxGrounded(s)
  <2>1. \A c \in Tasks : s.ov[c] # "draft"
    BY <1>3, NoneAssumption DEF States
  <2>2. Len(s.stack) = 1 /\ s.stack[1] = <<t, to>>
    BY <1>1, <1>3
  <2>3. \A i \in 1..Len(s.stack) : s.stack[i][1] = t /\ s.stack[i][2] = to
    BY <2>2
  <2> QED BY <1>3, <2>1, <2>3 DEF TxGrounded, Own
<1>5. Rows(s) = {}
  BY <1>3 DEF Rows
<1> QED BY <1>2, <1>3, <1>4, <1>5, OpenTxStep, TxStepKeeps

\* s is what becomes of a transaction that has locked and written one row, t,
\* once t's parent is resolved.  It may have further moves of t to make.
Locked(s, t) ==
  \E r \in Transactions :
    /\ s = resolveParent(r, t) /\ TxGrounded(r) /\ r.at = "open" /\ r.t = t
    /\ r.kids = {} /\ \A i \in 1..Len(r.stack) : r.stack[i][1] = t
    /\ \A c \in Tasks : r.ov[c] # None => c = t

LEMMA LockedShape ==
  ASSUME IInv, NEW p \in Clients, NEW t \in Tasks, NEW to \in States,
         NEW r \in Transactions, r.at = "open", r.t = t, r.kids = {},
         \A c \in Tasks : r.ov[c] = IF c = t THEN to ELSE None,
         \A i \in 1..Len(r.stack) : r.stack[i][1] = t /\ r.stack[i][2] # "draft",
         to = "draft" => state[t] = "draft", state[t] # "none", RowFree(p, t)
  PROVE  LET s == resolveParent(r, t) IN
         /\ s \in Transactions /\ TxGrounded(s)
         /\ s.at \in {"open", "refused"} /\ s.t = t /\ s.kids = {}
         /\ s.hard = r.hard /\ s.lease = r.lease /\ s.flip = r.flip
         /\ \A c \in Rows(s) : RowFree(p, c)
         /\ Locked(s, t)
<1> DEFINE s == resolveParent(r, t)
<1>1. TxGrounded(r)
  <2>1. None # "draft"
    BY NoneAssumption DEF States
  <2> QED BY <2>1 DEF TxGrounded, Own
<1>2. Extends(r, s)
  BY <1>1, ResolveParentExtends DEF TxGrounded, IInv
<1>3. Locked(s, t)
  BY <1>1 DEF Locked
<1> HIDE DEF s
<1>4. /\ s \in Transactions /\ TxGrounded(s) /\ s.at \in {"open", "refused"}
      /\ s.t = r.t /\ s.ov = r.ov /\ s.kids = r.kids /\ s.hard = r.hard
      /\ s.lease = r.lease /\ s.flip = r.flip
  BY <1>1, <1>2, ExtendsKeeps
<1>5. \A c \in Rows(s) : RowFree(p, c)
  BY <1>4 DEF Rows
<1> QED BY <1>3, <1>4, <1>5 DEF s

\* A move, or a tombstone, that takes the row's lock at once.
LEMMA LockShape ==
  ASSUME IInv, NEW p \in Clients, NEW t \in Tasks, NEW to \in States,
         NEW hard \in BOOLEAN, NEW flip \in BOOLEAN, NEW lease \in {"keep", "take", "end"},
         Lock(p, t, to, hard, lease, flip), to = "draft" => state[t] = "draft"
  PROVE  \E s \in Transactions :
           /\ Open(p, s) /\ UNCHANGED rows /\ TxGrounded(s)
           /\ s.at \in {"open", "refused"} /\ s.t = t /\ s.kids = {}
           /\ (s.hard <=> hard) /\ s.lease = lease /\ (s.flip <=> flip)
           /\ \A c \in Rows(s) : RowFree(p, c)
           /\ Locked(s, t)
<1> DEFINE r == [NoTx EXCEPT !.at = "open", !.t = t, !.hard = hard, !.lease = lease,
                             !.flip = flip, !.ov[t] = to]
           s == resolveParent(r, t)
<1>1. /\ r \in Transactions /\ r.at = "open" /\ r.t = t /\ r.kids = {}
      /\ r.hard = hard /\ r.lease = lease /\ r.flip = flip
      /\ r.stack = <<>> /\ \A c \in Tasks : r.ov[c] = IF c = t THEN to ELSE None
  BY NoTxGrounded DEF NoTx, Transactions
<1>2. state[t] # "none" /\ RowFree(p, t) /\ Open(p, s) /\ UNCHANGED rows
  BY DEF Lock
<1> HIDE DEF r
<1>3. Len(r.stack) = 0
  BY <1>1
<1>4. \A i \in 1..Len(r.stack) : r.stack[i][1] = t /\ r.stack[i][2] # "draft"
  BY <1>3
<1>5. /\ s \in Transactions /\ TxGrounded(s) /\ s.at \in {"open", "refused"}
      /\ s.t = t /\ s.kids = {} /\ s.hard = r.hard /\ s.lease = r.lease /\ s.flip = r.flip
      /\ (\A c \in Rows(s) : RowFree(p, c)) /\ Locked(s, t)
  BY <1>1, <1>2, <1>4, LockedShape
<1> HIDE DEF s
<1> QED BY <1>1, <1>2, <1>5

\* What a delivery may bring: states past ready, the first from a task that exists.
LEMMA DeliveriesAre ==
  ASSUME NEW t \in Tasks, NEW d \in Deliveries(t)
  PROVE  /\ state[t] # "none" /\ Len(d) \in 1..3 /\ d[1] \in States \ {"draft"}
         /\ \A i \in 1..Len(d) : d[i] \in States \ {"draft"}
<1>1. d \in {<<"merged">>, <<"merged", "deployed_dev">>, <<"merged", "released">>,
             <<"merged", "deployed_dev", "released">>, <<"deployed_dev">>, <<"released">>,
             <<"deployed_dev", "released">>}
  BY DEF Deliveries
<1>2. state[t] # "none"
  BY DEF Deliveries, openStates
<1>3. /\ Len(d) \in 1..3 /\ d[1] \in {"merged", "deployed_dev", "released"}
      /\ \A i \in 1..Len(d) : d[i] \in {"merged", "deployed_dev", "released"}
  BY <1>1
<1> QED BY <1>2, <1>3 DEF States

LEMMA DeliveryShape ==
  ASSUME IInv, NEW p \in Clients, NEW t \in Tasks, NEW d \in Deliveries(t),
         NEW land \in {"keep", "gate"}, ResolveDelivery(p, t, d, land)
  PROVE  \E s \in Transactions :
           /\ Open(p, s) /\ UNCHANGED rows /\ TxGrounded(s)
           /\ s.at \in {"open", "refused"} /\ s.t = t /\ s.kids = {}
           /\ s.lease = "keep" /\ ~s.flip
           /\ \A c \in Rows(s) : RowFree(p, c)
           /\ Locked(s, t)
<1> DEFINE k == [i \in 1..Len(d) - 1 |-> <<t, d[i + 1]>>]
           r == [NoTx EXCEPT !.at = "open", !.t = t, !.hard = TRUE, !.ov[t] = d[1],
                             !.land = land, !.stack = k]
           s == resolveParent(r, t)
<1>1. /\ state[t] # "none" /\ Len(d) \in 1..3 /\ d[1] \in States \ {"draft"}
      /\ \A i \in 1..Len(d) : d[i] \in States \ {"draft"}
  BY DeliveriesAre
<1>2. RowFree(p, t) /\ Open(p, s) /\ UNCHANGED rows
  BY DEF ResolveDelivery
<1>3. \A i \in 1..Len(d) - 1 : k[i] = <<t, d[i + 1]>> /\ d[i + 1] \in States \ {"draft"}
  BY <1>1
<1>4. k \in Seq(Tasks \X States) /\ Len(k) = Len(d) - 1
  BY <1>1, <1>3
<1> HIDE DEF k
<1>5. /\ r \in Transactions /\ r.at = "open" /\ r.t = t /\ r.kids = {}
      /\ r.lease = "keep" /\ r.flip = FALSE /\ r.stack = k
      /\ \A c \in Tasks : r.ov[c] = IF c = t THEN d[1] ELSE None
  BY <1>1, <1>4, NoTxGrounded DEF NoTx, Transactions
<1> HIDE DEF r
<1>6. \A i \in 1..Len(r.stack) : r.stack[i][1] = t /\ r.stack[i][2] # "draft"
  BY <1>3, <1>4, <1>5
<1>7. /\ s \in Transactions /\ TxGrounded(s) /\ s.at \in {"open", "refused"}
      /\ s.t = t /\ s.kids = {} /\ s.lease = r.lease /\ s.flip = r.flip
      /\ (\A c \in Rows(s) : RowFree(p, c)) /\ Locked(s, t)
  BY <1>1, <1>2, <1>5, <1>6, LockedShape
<1> HIDE DEF s
<1> QED BY <1>2, <1>5, <1>7

LEMMA DeliveryKeeps ==
  ASSUME IInv, NEW p \in Clients, NEW t \in Tasks, NEW d \in Deliveries(t),
         NEW land \in {"keep", "gate"}, ResolveDelivery(p, t, d, land)
  PROVE  IInv'
BY DeliveryShape, OpenTxStep, TxStepKeeps

LEMMA LockKeeps ==
  ASSUME IInv, NEW p \in Clients, NEW t \in Tasks, NEW to \in States,
         NEW hard \in BOOLEAN, NEW flip \in BOOLEAN, NEW lease \in {"keep", "take", "end"},
         Lock(p, t, to, hard, lease, flip), to = "draft" => state[t] = "draft"
  PROVE  IInv'
BY LockShape, OpenTxStep, TxStepKeeps

\* s is what Write makes of u: the head of its stack, and that task's parent.
Wrote(s, u) ==
  LET m == Head(u.stack) IN
  \E r \in Transactions :
    /\ s = resolveParent(r, m[1]) /\ TxGrounded(r) /\ r.at = "open"
    /\ r.t = u.t /\ r.kids = u.kids /\ r.flip = u.flip /\ r.land = u.land
    /\ u.stack # <<>> /\ m \in Tasks \X States /\ r.stack = Tail(u.stack)
    /\ \A c \in Tasks : r.ov[c] = IF c = m[1] THEN m[2] ELSE u.ov[c]

\* Transition's write of one row, and the roll-up it calls.
LEMMA WriteShape ==
  ASSUME IInv, NEW p \in Clients, Write(p)
  PROVE  \E s \in Transactions :
           /\ Goto(p, s) /\ UNCHANGED rows /\ TxGrounded(s)
           /\ s.at \in {"open", "refused"} /\ s.t = tx[p].t /\ s.kids = tx[p].kids
           /\ s.hard = tx[p].hard /\ s.lease = tx[p].lease /\ s.flip = tx[p].flip
           /\ s.alone = tx[p].alone
           /\ \A c \in Rows(s) : RowFree(p, c)
           /\ tx[p].at = "open"
           /\ Wrote(s, tx[p])
<1>1. tx[p] \in Transactions /\ TxGrounded(tx[p])
  BY DEF IInv, TypeOK, Grounded
<1> DEFINE k == tx[p].stack
           m == Head(k)
           r == [tx[p] EXCEPT !.ov[m[1]] = m[2], !.stack = Tail(@)]
           s == resolveParent(r, m[1])
<1>2. /\ tx[p].at = "open" /\ k # <<>> /\ RowFree(p, m[1]) /\ Goto(p, s) /\ UNCHANGED rows
  BY DEF Write
<1>3. k \in Seq(Tasks \X States)
  BY <1>1 DEF Transactions
<1>4. /\ m \in Tasks \X States /\ m = k[1] /\ 1 \in 1..Len(k)
      /\ Tail(k) \in Seq(Tasks \X States) /\ Len(Tail(k)) = Len(k) - 1
      /\ \A i \in 1..Len(Tail(k)) : Tail(k)[i] = k[i + 1] /\ i + 1 \in 1..Len(k)
  BY <1>2, <1>3, HeadTailProperties, LenProperties
<1>5. Own(tx[p], m[1]) /\ m[2] # "draft"
  BY <1>1, <1>2, <1>4 DEF TxGrounded
<1>6. /\ r \in Transactions /\ r.at = "open" /\ r.t = tx[p].t /\ r.kids = tx[p].kids
      /\ r.hard = tx[p].hard /\ r.lease = tx[p].lease /\ r.flip = tx[p].flip
      /\ r.land = tx[p].land /\ r.alone = tx[p].alone
      /\ r.stack = Tail(k)
      /\ \A c \in Tasks : r.ov[c] = IF c = m[1] THEN m[2] ELSE tx[p].ov[c]
  BY <1>1, <1>2, <1>4 DEF Transactions
<1>7. m[2] # None
  BY <1>4, NoneAssumption
<1> HIDE DEF r
<1>8. TxGrounded(r)
  <2>1. \A c : Own(r, c) <=> Own(tx[p], c)
    BY <1>6 DEF Own
  <2>2. \A c \in r.kids : state[c] = "none" /\ r.ov[c] # None
    BY <1>1, <1>2, <1>6, <1>7 DEF TxGrounded, Transactions
  <2>3. \A c \in Tasks : r.ov[c] # None => Own(r, c)
    BY <1>1, <1>2, <1>5, <1>6, <2>1 DEF TxGrounded
  <2>4. \A c \in Tasks : r.ov[c] = "draft" => c \in r.kids \/ state[c] = "draft"
    BY <1>1, <1>2, <1>5, <1>6 DEF TxGrounded
  <2>5. \A i \in 1..Len(r.stack) : Own(r, r.stack[i][1]) /\ r.stack[i][2] # "draft"
    BY <1>1, <1>2, <1>4, <1>6, <2>1 DEF TxGrounded
  <2> QED BY <1>1, <1>2, <1>6, <2>2, <2>3, <2>4, <2>5 DEF TxGrounded
<1>9. Extends(r, s)
  BY <1>4, <1>6, <1>8, ResolveParentExtends DEF TxGrounded, IInv
<1>10. Wrote(s, tx[p])
  <2>1. s = resolveParent(r, m[1])
    OBVIOUS
  <2> HIDE DEF s
  <2> QED BY <1>2, <1>4, <1>6, <1>8, <2>1 DEF Wrote
<1> HIDE DEF s
<1>11. /\ s \in Transactions /\ TxGrounded(s) /\ s.at \in {"open", "refused"}
       /\ s.t = r.t /\ s.ov = r.ov /\ s.kids = r.kids /\ s.hard = r.hard
       /\ s.lease = r.lease /\ s.flip = r.flip /\ s.alone = r.alone
  BY <1>6, <1>8, <1>9, ExtendsKeeps
<1>12. \A c \in Rows(s) : RowFree(p, c)
  <2> SUFFICES ASSUME NEW c \in Rows(s), c # m[1] PROVE RowFree(p, c)
    BY <1>2
  <2>1. Holds(p, c) /\ c \in Tasks
    BY <1>2, <1>6, <1>11 DEF Holds, Rows
  <2> QED BY <2>1 DEF RowFree, IInv, Exclusive
<1> QED BY <1>2, <1>6, <1>11, <1>12, <1>10

LEMMA WriteKeeps ==
  ASSUME IInv, NEW p \in Clients, Write(p)
  PROVE  IInv'
BY WriteShape, GotoTxStep, TxStepKeeps

LEMMA AddEdgeKeeps ==
  ASSUME IInv, NEW p \in Clients, NEW c \in Tasks, NEW q \in Tasks, AddEdge(p, c, q)
  PROVE  IInv'
<1> DEFINE s == [NoTx EXCEPT !.at = "edge", !.t = q, !.kids = {c}]
<1>1. /\ s \in Transactions /\ s.at = "edge" /\ s.t = q /\ s.kids = {c}
  BY NoTxGrounded DEF NoTx, Transactions
<1>2. /\ Open(p, s) /\ UNCHANGED rows /\ state[c] # "none" /\ state[q] # "none"
  BY DEF AddEdge
<1> HIDE DEF s
<1>3. TxGrounded(s) /\ Rows(s) = {}
  BY <1>1, <1>2 DEF TxGrounded, Rows
<1> QED BY <1>1, <1>2, <1>3, OpenTxStep, TxStepKeeps

\* s is what Decompose makes of a transaction that has put K under t.
Split(s, t, K) ==
  \E r \in Transactions :
    /\ s = Follow(r, t) /\ TxGrounded(r) /\ r.at = "open" /\ r.t = t
    /\ r.kids = K /\ ~r.flip /\ r.stack = <<>>
    /\ \A c \in Tasks : r.ov[c] # None => c \in K

\* The new tasks are in no one else's hands: only one transaction creates.
LEMMA DecomposeShape ==
  ASSUME IInv, NEW p \in Clients, NEW t \in Tasks, NEW K \in SUBSET Unallocated,
         Decompose(p, t, K)
  PROVE  \E s \in Transactions :
           /\ Open(p, s) /\ UNCHANGED rows /\ TxGrounded(s)
           /\ s.at \in {"open", "refused"} /\ s.t = t /\ s.kids = K
           /\ s.hard /\ s.lease = "keep" /\ ~s.flip
           /\ \A c \in Rows(s) : RowFree(p, c)
           /\ Split(s, t, K)
<1> DEFINE o == [c \in Tasks |-> IF c \in K THEN "draft" ELSE None]
           r == [NoTx EXCEPT !.at = "open", !.t = t, !.hard = TRUE, !.kids = K, !.ov = o]
           s == Follow(r, t)
<1>0. K \subseteq Tasks /\ \A c \in K : state[c] = "none"
  BY FreshAssumption DEF Unallocated
<1>1. /\ Open(p, s) /\ UNCHANGED rows /\ RowFree(p, t) /\ CounterFree(p) /\ K # {}
      /\ state[t] # "none"
  BY DEF Decompose
<1>2. None # "draft" /\ "draft" \in States
  BY NoneAssumption DEF States
<1>3. o \in [Tasks -> States \union {None}] /\ \A c \in Tasks : o[c] # None <=> c \in K
  BY <1>2
<1> HIDE DEF o
<1>4. /\ r \in Transactions /\ r.at = "open" /\ r.t = t /\ r.kids = K
      /\ r.stack = <<>> /\ r.ov = o /\ r.hard = TRUE /\ r.lease = "keep" /\ r.flip = FALSE
  BY <1>0, <1>3, NoTxGrounded DEF NoTx, Transactions
<1> HIDE DEF r
<1>5. TxGrounded(r)
  BY <1>0, <1>1, <1>2, <1>3, <1>4 DEF TxGrounded, Own, o
<1>6. Extends(r, s)
  BY <1>3, <1>4, FollowExtends DEF Own
<1>7. Split(s, t, K)
  <2>1. s = Follow(r, t)
    OBVIOUS
  <2> HIDE DEF s
  <2> QED BY <1>3, <1>4, <1>5, <2>1 DEF Split
<1> HIDE DEF s
<1>8. /\ s \in Transactions /\ TxGrounded(s) /\ s.at \in {"open", "refused"}
      /\ s.t = t /\ s.ov = o /\ s.kids = r.kids /\ s.hard = r.hard
      /\ s.lease = r.lease /\ s.flip = r.flip
  <2>1. r.at = "open" /\ r.t = t /\ r.ov = o /\ r \in Transactions
    BY <1>4
  <2> QED BY <2>1, <1>5, <1>6, ExtendsKeeps
<1>9. \A c \in K : RowFree(p, c)
  <2> SUFFICES ASSUME NEW c \in K, NEW q \in Clients \ {p}, Holds(q, c) PROVE FALSE
    BY DEF RowFree
  <2>1. TxGrounded(tx[q]) /\ state[c] = "none" /\ c \in Tasks /\ tx[q].at = "open"
    BY <1>0 DEF IInv, Grounded, Holds
  <2>2. tx[q].t # c
    BY <2>1 DEF TxGrounded
  <2>3. c \in tx[q].kids
    BY <2>1, <2>2 DEF TxGrounded, Own, Holds
  <2> QED BY <1>1, <2>1, <2>3 DEF CounterFree
<1>10. \A c \in Rows(s) : RowFree(p, c)
  BY <1>1, <1>3, <1>8, <1>9 DEF Rows
<1> QED BY <1>1, <1>4, <1>7, <1>8, <1>10

LEMMA DecomposeKeeps ==
  ASSUME IInv, NEW p \in Clients, NEW t \in Tasks, NEW K \in SUBSET Unallocated,
         Decompose(p, t, K)
  PROVE  IInv'
BY DecomposeShape, OpenTxStep, TxStepKeeps

-----------------------------------------------------------------------------
(* Steps that change the rows *)

\* A transaction that ends leaves every other as it was.
LEMMA GoneExclusive ==
  ASSUME IInv, NEW p \in Clients, Goto(p, NoTx)
  PROVE  /\ Exclusive' /\ tx' \in [Clients -> Transactions]
         /\ tx'[p] = NoTx /\ \A q \in Clients \ {p} : tx'[q] = tx[q]
<1>1. /\ tx' \in [Clients -> Transactions] /\ tx'[p] = NoTx
      /\ \A q \in Clients \ {p} : tx'[q] = tx[q]
  BY NoTxGrounded DEF IInv, TypeOK, Goto
<1>2. \A q \in Clients : \A c \in Tasks : Holds(q, c)' => Holds(q, c)
  BY <1>1 DEF Holds, NoTx
<1> QED BY <1>1, <1>2 DEF IInv, Exclusive

LEMMA NoTxIdle ==
  ASSUME NEW p \in Clients, tx'[p] = NoTx
  PROVE  TxGrounded(tx[p])'
<1>1. tx'[p].at = "idle"
  BY DEF NoTx
<1> QED BY <1>1 DEF TxGrounded

LEMMA EdgeCommitKeeps ==
  ASSUME IInv, NEW p \in Clients, EdgeCommit(p)
  PROVE  IInv'
<1>1. /\ tx[p] \in Transactions /\ tx[p].at = "edge" /\ TxGrounded(tx[p])
      /\ UNCHANGED <<state, deleted, gated, leased>> /\ Goto(p, NoTx)
  BY DEF IInv, TypeOK, Grounded, EdgeCommit
<1>2. /\ tx[p].t \in Tasks /\ state[tx[p].t] # "none" /\ tx[p].kids \subseteq Tasks
      /\ \A c \in tx[p].kids : state[c] # "none"
  BY <1>1 DEF TxGrounded, Transactions
<1>3. \/ UNCHANGED <<up, raced>>
      \/ /\ \A c \in tx[p].kids : parentOf(NoTx, c) = {}
         /\ up' = up \union (tx[p].kids \X {tx[p].t})
         /\ raced' = (raced \/ ~tx[p].alone)
  BY DEF EdgeCommit
<1>4. tx[p].alone \in BOOLEAN
  BY <1>1 DEF Transactions
<1>5. TypeOK'
  BY <1>1, <1>2, <1>3, <1>4, GoneExclusive DEF IInv, TypeOK
<1>6. Grounded'
  <2> SUFFICES ASSUME NEW q \in Clients PROVE TxGrounded(tx[q])'
    BY DEF Grounded
  <2>1. CASE q = p
    BY <1>1, <2>1, GoneExclusive, NoTxIdle
  <2>2. CASE q # p
    <3>1. tx'[q] = tx[q] /\ state' = state /\ TxGrounded(tx[q])
      BY <1>1, <2>2, GoneExclusive DEF IInv, Grounded
    <3> QED BY <3>1 DEF TxGrounded, Own
  <2> QED BY <2>1, <2>2
<1>7. OneParent'
  BY <1>2, <1>3 DEF IInv, OneParent, parentOf, EdgesIn, NoTx
<1> QED BY <1>1, <1>5, <1>6, <1>7, GoneExclusive DEF IInv

\* A step that opens and ends at once, and leaves edges no more than they were.
LEMMA OnceKeeps ==
  ASSUME IInv, NEW p \in Clients, Open(p, NoTx), up' \subseteq up,
         UNCHANGED <<state, deleted, leased, raced>>,
         gated' \subseteq {t \in Tasks : state[t] # "none"}
  PROVE  IInv'
<1>2. TxStep(p, NoTx) /\ NoTx \in Transactions
  BY OpenTxStep, NoTxGrounded
<1>3. \A q \in Clients : \E r \in {NoTx, tx[q]}, b \in BOOLEAN : tx'[q] = [r EXCEPT !.alone = b]
  BY <1>2 DEF TxStep
<1>4. \A q \in Clients : /\ tx'[q] \in Transactions /\ TxGrounded(tx'[q])
                         /\ Rows(tx'[q]) \subseteq Rows(tx[q])
  <2> SUFFICES ASSUME NEW q \in Clients
               PROVE  /\ tx'[q] \in Transactions /\ TxGrounded(tx'[q])
                      /\ Rows(tx'[q]) \subseteq Rows(tx[q])
    OBVIOUS
  <2>1. PICK r \in {NoTx, tx[q]}, b \in BOOLEAN : tx'[q] = [r EXCEPT !.alone = b]
    BY <1>3
  <2>2. r \in Transactions /\ TxGrounded(r) /\ Rows(r) \subseteq Rows(tx[q])
    BY <2>1, NoTxGrounded DEF IInv, TypeOK, Grounded
  <2> QED BY <2>1, <2>2, AloneKeeps
<1>5. tx' \in [Clients -> Transactions]
  BY <1>2, <1>4 DEF TxStep
<1>6. TypeOK'
  BY <1>5 DEF IInv, TypeOK
<1>7. Grounded'
  BY <1>4 DEF Grounded, TxGrounded, Own
<1>8. Exclusive'
  <2>1. \A q \in Clients : \A c \in Tasks : Holds(q, c)' => Holds(q, c)
    BY <1>4 DEF Holds, Rows
  <2> QED BY <2>1 DEF IInv, Exclusive
<1>9. OneParent'
  BY DEF IInv, OneParent, parentOf, EdgesIn, NoTx
<1> QED BY <1>6, <1>7, <1>8, <1>9 DEF IInv

LEMMA RemoveEdgeKeeps ==
  ASSUME IInv, NEW p \in Clients, NEW e \in up, RemoveEdge(p, e)
  PROVE  IInv'
<1>1. gated \subseteq {t \in Tasks : state[t] # "none"}
  BY DEF IInv, TypeOK
<1> QED BY <1>1, OnceKeeps DEF RemoveEdge

LEMMA FactsChangeKeeps ==
  ASSUME IInv, NEW p \in Clients, NEW t \in Tasks, FactsChange(p, t)
  PROVE  IInv'
<1>1. gated \subseteq {c \in Tasks : state[c] # "none"} /\ state[t] # "none"
  BY DEF IInv, TypeOK, FactsChange
<1>2. gated' \subseteq {c \in Tasks : state[c] # "none"}
  BY <1>1 DEF FactsChange
<1> QED BY <1>2, OnceKeeps DEF FactsChange

LEMMA RollbackKeeps ==
  ASSUME IInv, NEW p \in Clients, Rollback(p)
  PROVE  IInv'
<1>1. \A c \in Rows(NoTx) : RowFree(p, c)
  BY NoTxGrounded
<1> QED BY <1>1, NoTxGrounded, GotoTxStep, TxStepKeeps DEF Rollback

\* The lease of a task that is in no one's hands any more.
LEMMA CloseLeaseKeeps ==
  ASSUME IInv, NEW p \in Clients, NEW t \in Tasks, closeLease(p, t)
  PROVE  IInv'
<1>1. CASE state[t] = "in_progress"
  BY <1>1, BeginMoveKeeps DEF closeLease, States
<1>2. CASE state[t] # "in_progress"
  <2>1. leased' = leased \ {t} /\ UNCHANGED <<state, deleted, gated, up, raced, tx>>
    BY <1>2 DEF closeLease
  <2>2. TypeOK'
    BY <2>1 DEF IInv, TypeOK
  <2>3. Exclusive'
    BY <2>1 DEF IInv, Exclusive, Holds
  <2>4. Grounded'
    BY <2>1 DEF IInv, Grounded, TxGrounded, Own
  <2>5. OneParent'
    BY <2>1 DEF IInv, OneParent, parentOf, EdgesIn, NoTx
  <2> QED BY <2>2, <2>3, <2>4, <2>5 DEF IInv
<1> QED BY <1>1, <1>2

\* What a commit does to a row: nothing unless its transaction wrote it.
LEMMA CommitRows ==
  ASSUME IInv, NEW p \in Clients, Commit(p), NEW c \in Tasks
  PROVE  /\ tx[p].ov[c] # None => state'[c] = tx[p].ov[c]
         /\ tx[p].ov[c] = None => state'[c] = state[c]
         /\ state'[c] \in States \union {"none"}
         /\ state[c] # "none" => state'[c] # "none"
         /\ state[c] \notin {"none", "draft"} => state'[c] \notin {"none", "draft"}
         /\ c \in tx[p].kids => state'[c] # "none"
         /\ state[c] = "none" /\ c \notin tx[p].kids => state'[c] = "none"
<1>1. /\ tx[p] \in Transactions /\ TxGrounded(tx[p]) /\ tx[p].at = "open"
      /\ state'[c] = StateIn(tx[p], c)
  BY DEF IInv, TypeOK, Grounded, Commit
<1>2. /\ tx[p].ov[c] \in States \union {None} /\ "none" \notin States
      /\ state[c] \in States \union {"none"}
  BY <1>1 DEF Transactions, States, IInv, TypeOK
<1>3. /\ tx[p].ov[c] # None => Own(tx[p], c)
      /\ tx[p].ov[c] = "draft" => c \in tx[p].kids \/ state[c] = "draft"
      /\ c \in tx[p].kids => state[c] = "none" /\ tx[p].ov[c] # None
      /\ state[tx[p].t] # "none"
  BY <1>1 DEF TxGrounded
<1>4. "draft" # "none" /\ (tx[p].ov[c] = None => c \notin tx[p].kids)
  BY <1>3
<1>5. CASE tx[p].ov[c] = None
  BY <1>1, <1>2, <1>3, <1>4, <1>5 DEF StateIn
<1>6. CASE tx[p].ov[c] # None
  BY <1>1, <1>2, <1>3, <1>6 DEF StateIn, Own
<1> QED BY <1>5, <1>6

LEMMA CommitKeeps ==
  ASSUME IInv, NEW p \in Clients, Commit(p)
  PROVE  IInv'
<1> DEFINE r == tx[p]
<1>1. /\ r \in Transactions /\ TxGrounded(r) /\ r.at = "open" /\ Goto(p, NoTx)
      /\ state' = [t \in Tasks |-> StateIn(r, t)]
      /\ deleted' = [t \in Tasks |-> GoneIn(r, t)]
      /\ up' = up \union (r.kids \X {r.t})
      /\ leased' \in {leased, leased \union {r.t}, leased \ {r.t}}
      /\ gated' \in {gated, gated \union {r.t}, gated \ {r.t}}
      /\ raced' = (raced \/ (r.kids # {} /\ ~r.alone))
  BY DEF IInv, TypeOK, Grounded, Commit, EdgesIn, GatedIn
<1>2. /\ r.t \in Tasks /\ state[r.t] # "none" /\ r.kids \subseteq Tasks
      /\ r.alone \in BOOLEAN /\ \A c \in r.kids : state[c] = "none"
  BY <1>1 DEF TxGrounded, Transactions
<1>3. TypeOK'
  <2>1. state' \in [Tasks -> States \union {"none"}]
    BY <1>1, CommitRows
  <2>2. deleted' \in [Tasks -> BOOLEAN]
    BY <1>1 DEF GoneIn
  <2>3. \A c \in Tasks : state[c] # "none" \/ c \in r.kids => state'[c] # "none"
    BY CommitRows
  <2>4. raced' \in BOOLEAN
    BY <1>1
  <2>5. /\ up \subseteq {t \in Tasks : state[t] # "none"} \X {t \in Tasks : state[t] # "none"}
        /\ leased \subseteq {t \in Tasks : state[t] # "none"}
        /\ gated \subseteq {t \in Tasks : state[t] # "none"}
    BY DEF IInv, TypeOK
  <2>6. LET T == {t \in Tasks : state'[t] # "none"} IN up' \subseteq T \X T /\ leased' \subseteq T /\ gated' \subseteq T
    BY <1>1, <1>2, <2>3, <2>5
  <2> QED BY <1>1, <2>1, <2>2, <2>4, <2>6, GoneExclusive DEF TypeOK
<1>4. Grounded'
  <2> SUFFICES ASSUME NEW q \in Clients PROVE TxGrounded(tx[q])'
    BY DEF Grounded
  <2>1. CASE q = p
    BY <1>1, <2>1, GoneExclusive, NoTxIdle
  <2>2. CASE q # p
    <3>1. tx'[q] = tx[q] /\ tx[q] \in Transactions /\ TxGrounded(tx[q])
      BY <1>1, <2>2, GoneExclusive DEF IInv, TypeOK, Grounded
    <3>2. \A c \in Tasks : tx[q].at = "open" /\ tx[q].ov[c] # None => tx[p].ov[c] = None
      BY <1>1, <2>2 DEF IInv, Exclusive, Holds
    <3>3. tx[q].kids \subseteq Tasks /\ tx[q].stack \in Seq(Tasks \X States)
      BY <3>1 DEF Transactions
    <3>4. ASSUME NEW c \in Tasks, Own(tx[q], c)
          PROVE  c = tx[q].t \/ c \in tx[q].kids \/ state'[c] \notin {"none", "draft"}
      BY <3>4, CommitRows DEF Own
    <3>5. tx[q].at \in {"open", "edge"} => tx[q].t \in Tasks /\ state'[tx[q].t] # "none"
      BY <3>1, CommitRows DEF TxGrounded
    <3>6. tx[q].at = "edge" => \A c \in tx[q].kids : state'[c] # "none"
      BY <3>1, <3>3, CommitRows DEF TxGrounded
    <3>7. ASSUME tx[q].at = "open", NEW c \in tx[q].kids PROVE state'[c] = "none" /\ tx[q].ov[c] # None
      <4>1. state[c] = "none" /\ tx[q].ov[c] # None /\ c \in Tasks
        BY <3>1, <3>3, <3>7 DEF TxGrounded
      <4>2. tx[p].ov[c] = None
        BY <3>2, <3>7, <4>1
      <4> QED BY <4>1, <4>2, CommitRows
    <3>8. ASSUME tx[q].at = "open", NEW c \in Tasks
          PROVE  tx[q].ov[c] # None => \/ c = tx[q].t \/ c \in tx[q].kids
                                       \/ state'[c] \notin {"none", "draft"}
      BY <3>1, <3>4, <3>8 DEF TxGrounded
    <3>9. ASSUME tx[q].at = "open", NEW c \in Tasks, tx[q].ov[c] = "draft"
          PROVE  c \in tx[q].kids \/ state'[c] = "draft"
      <4>1. tx[p].ov[c] = None
        BY <3>2, <3>9, NoneAssumption DEF States
      <4> QED BY <3>1, <3>9, <4>1, CommitRows DEF TxGrounded
    <3>10. ASSUME tx[q].at = "open", NEW i \in 1..Len(tx[q].stack)
           PROVE  LET c == tx[q].stack[i][1] IN
                  /\ c = tx[q].t \/ c \in tx[q].kids \/ state'[c] \notin {"none", "draft"}
                  /\ tx[q].stack[i][2] # "draft"
      <4>1. Own(tx[q], tx[q].stack[i][1]) /\ tx[q].stack[i][2] # "draft"
        BY <3>1, <3>10 DEF TxGrounded
      <4>2. tx[q].stack[i] \in Tasks \X States
        BY <3>3, ElementOfSeq
      <4>3. tx[q].stack[i][1] \in Tasks
        BY <4>2
      <4> QED BY <3>4, <4>1, <4>3
    <3> QED BY <3>1, <3>5, <3>6, <3>7, <3>8, <3>9, <3>10 DEF TxGrounded, Own
  <2> QED BY <2>1, <2>2
<1>5. OneParent'
  <2>1. \A c \in r.kids, q \in Tasks : <<c, q>> \notin up
    BY <1>2 DEF IInv, TypeOK
  <2> QED BY <1>1, <1>2, <2>1 DEF IInv, OneParent, parentOf, EdgesIn, NoTx
<1> QED BY <1>1, <1>3, <1>4, <1>5, GoneExclusive DEF IInv

-----------------------------------------------------------------------------
(* The invariant *)

LEMMA InitInv == Init => IInv
<1> SUFFICES ASSUME Init PROVE IInv
  OBVIOUS
<1>1. /\ \A p \in Clients : tx[p] = NoTx /\ tx[p].at = "idle"
      /\ tx \in [Clients -> Transactions]
  BY NoTxGrounded DEF Init, NoTx
<1>2. TypeOK
  BY <1>1 DEF Init, TypeOK, States
<1>3. Exclusive
  BY <1>1 DEF Exclusive, Holds
<1>4. Grounded
  BY <1>1, NoTxGrounded DEF Grounded
<1>5. OneParent
  BY DEF Init, OneParent, parentOf, EdgesIn, NoTx
<1> QED BY <1>2, <1>3, <1>4, <1>5 DEF IInv

\* Transitions that start unlocked name a task that exists, and go nowhere near
\* draft.
LEMMA Moves ==
  ASSUME IInv, NEW t \in Tasks, NEW to, MayMove(t, to)
  PROVE  state[t] # "none" /\ to # "draft" /\ to \in States
BY DEF MayMove, legalTransitions, openStates, reopenableStates, States

LEMMA RequestKeeps ==
  ASSUME IInv, NEW p \in Clients, Request(p)
  PROVE  IInv'
<1>1. ASSUME NEW t \in Tasks, NEW to \in States, finishTask(p, t, to) PROVE IInv'
  BY <1>1, Moves, BeginMoveKeeps DEF finishTask
<1>2. ASSUME NEW t \in Tasks, applyPullRequest(p, t) PROVE IInv'
  BY <1>2, Moves, BeginMoveKeeps DEF applyPullRequest
<1>3. ASSUME NEW t \in Tasks, closeLease(p, t) PROVE IInv'
  BY <1>3, CloseLeaseKeeps
<1>4. ASSUME NEW t \in Tasks, NEW to \in States, updateTask(p, t, to) PROVE IInv'
  BY <1>4, Moves, LockKeeps DEF updateTask
<1>5. ASSUME NEW t \in Tasks, Claim(p, t) PROVE IInv'
  BY <1>5, LockKeeps DEF Claim, States
<1>6. ASSUME NEW t \in Tasks, NEW d \in Deliveries(t), NEW land \in {"keep", "gate"},
             ResolveDelivery(p, t, d, land)
      PROVE  IInv'
  BY <1>6, DeliveryKeeps
<1>0. ASSUME NEW t \in Tasks, FactsChange(p, t) PROVE IInv'
  BY <1>0, FactsChangeKeeps
<1>7. ASSUME NEW t \in Tasks, DeleteTask(p, t) PROVE IInv'
  <2> DEFINE to == IF state[t] = "in_progress" THEN "ready" ELSE state[t]
  <2>1. Lock(p, t, to, TRUE, "end", TRUE) /\ state[t] # "none"
    BY <1>7 DEF DeleteTask, Lock
  <2>2. to \in States /\ (to = "draft" => state[t] = "draft")
    BY <2>1 DEF IInv, TypeOK, States
  <2> HIDE DEF to
  <2> QED BY <2>1, <2>2, LockKeeps
<1>8. ASSUME NEW t \in Tasks, UndeleteTask(p, t) PROVE IInv'
  <2>1. Lock(p, t, state[t], TRUE, "keep", TRUE) /\ state[t] \in States
    BY <1>8 DEF UndeleteTask, Lock, IInv, TypeOK
  <2> QED BY <2>1, LockKeeps
<1>9. ASSUME NEW c \in Tasks, NEW q \in Tasks, AddEdge(p, c, q) PROVE IInv'
  BY <1>9, AddEdgeKeeps
<1>10. ASSUME NEW e \in up, RemoveEdge(p, e) PROVE IInv'
  BY <1>10, RemoveEdgeKeeps
<1>11. ASSUME NEW t \in Tasks, NEW K \in SUBSET Unallocated, Decompose(p, t, K) PROVE IInv'
  BY <1>11, DecomposeKeeps
<1> QED BY <1>0, <1>1, <1>2, <1>3, <1>4, <1>5, <1>6, <1>7, <1>8, <1>9, <1>10, <1>11 DEF Request

LEMMA NextInv == IInv /\ [Next]_vars => IInv'
<1> SUFFICES ASSUME IInv, [Next]_vars PROVE IInv'
  OBVIOUS
<1>1. CASE UNCHANGED vars
  <2>1. UNCHANGED <<state, deleted, gated, up, leased, raced, tx>>
    BY <1>1 DEF vars, rows
  <2>2. TypeOK'
    BY <2>1 DEF IInv, TypeOK
  <2>3. Exclusive'
    BY <2>1 DEF IInv, Exclusive, Holds
  <2>4. Grounded'
    BY <2>1 DEF IInv, Grounded, TxGrounded, Own
  <2>5. OneParent'
    BY <2>1 DEF IInv, OneParent, parentOf, EdgesIn, NoTx
  <2> QED BY <2>2, <2>3, <2>4, <2>5 DEF IInv
<1>2. ASSUME NEW p \in Clients, Step(p) PROVE IInv'
  BY <1>2, WriteKeeps, EdgeCommitKeeps, CommitKeeps, RollbackKeeps DEF Step
<1>3. ASSUME NEW p \in Clients, Request(p) PROVE IInv'
  BY <1>3, RequestKeeps
<1> QED BY <1>1, <1>2, <1>3 DEF Next

\* The state keeps its shape, and no edge or lease names a task that does not
\* exist: AddEdge looks both endpoints up, Decompose creates its children.
THEOREM Typing == Spec => []TypeOK
<1>1. IInv => TypeOK
  BY DEF IInv
<1> QED BY <1>1, InitInv, NextInv, PTL DEF Spec

\* A task has one parent however additions overlap: AddEdge's insert meets the
\* index task_edges_single_parent, and the children Decompose inserts are rows no
\* one else can name before it commits.
THEOREM SingleParent == Spec => []OneParent
<1>1. IInv => OneParent
  BY DEF IInv
<1> QED BY <1>1, InitInv, NextInv, PTL DEF Spec

\* The roll-up publishes no draft, however transactions overlap: a commit takes
\* out of draft only the task its request names.
THEOREM DraftsArePublishedByName == Spec => DraftsStayDraft
<1> DEFINE A(p) == \A t \in Tasks :
             Commit(p) /\ state[t] = "draft" /\ state'[t] # "draft" => t = tx[p].t
<1>1. ASSUME IInv, NEW p \in Clients PROVE A(p)
  <2> SUFFICES ASSUME NEW t \in Tasks, Commit(p), state[t] = "draft", state'[t] # "draft"
               PROVE  t = tx[p].t
    OBVIOUS
  <2>1. tx[p].at = "open" /\ TxGrounded(tx[p]) /\ tx[p].ov[t] # None
    BY <1>1, CommitRows DEF Commit, IInv, Grounded
  <2>2. Own(tx[p], t) /\ (t \in tx[p].kids => state[t] = "none")
    BY <2>1 DEF TxGrounded
  <2> QED BY <2>2 DEF Own
<1>2. IInv => \A p \in Clients : A(p)
  BY <1>1
<1>3. IInv => [\A p \in Clients : A(p)]_vars
  BY <1>2
<1> QED BY <1>3, InitInv, NextInv, PTL DEF Spec, DraftsStayDraft

-----------------------------------------------------------------------------
(* Claims and decompositions *)

\* Fewer edges and fewer leases undo nothing that TxHeld says.
LEMMA HeldShrinks ==
  ASSUME NEW r, TxHeld(r), up' \subseteq up, leased' \subseteq leased,
         deleted' = deleted
  PROVE  /\ ~r.flip
         /\ r.at = "open" /\ r.kids # {} => r.hard /\ r.t \notin leased'
         /\ r.at = "open" /\ r.lease = "take" => r.hard /\ ~hasChildren(r.t)'
BY DEF TxHeld, hasChildren, Children, EdgesIn, GoneIn, NoTx

\* What a client may do to its transaction and keep HeldInv.
LEMMA TxStepHeld ==
  ASSUME IInv, HeldInv, NEW p \in Clients, NEW s \in Transactions, TxHeld(s),
         TxStep(p, s), up' \subseteq up, leased' \subseteq leased, deleted' = deleted
  PROVE  HeldInv'
<1> SUFFICES ASSUME NEW q \in Clients PROVE TxHeld(tx[q])'
  BY DEF HeldInv
<1>1. TxHeld(tx'[q])
  BY AloneKeeps DEF TxStep, IInv, TypeOK, HeldInv
<1> QED BY <1>1, HeldShrinks DEF TxHeld

LEMMA NoTxHeld == TxHeld(NoTx)
BY DEF TxHeld, NoTx

LEMMA GoneHeld ==
  ASSUME NEW p \in Clients, tx'[p] = NoTx
  PROVE  TxHeld(tx[p])'
<1>1. tx'[p].at = "idle" /\ ~tx'[p].flip
  BY DEF NoTx
<1> QED BY <1>1 DEF TxHeld

\* Lock, for a claim and for the moves that leave leases and children alone.
LEMMA LockHeld ==
  ASSUME IInv, HeldInv, NEW p \in Clients, NEW t \in Tasks, NEW to \in States,
         NEW hard \in BOOLEAN, NEW flip \in BOOLEAN, NEW lease \in {"keep", "take"},
         Lock(p, t, to, hard, lease, flip), ~flip, to = "draft" => state[t] = "draft",
         lease = "take" => hard /\ ~hasChildren(t)
  PROVE  HeldInv'
<1>1. PICK s \in Transactions :
        /\ Open(p, s) /\ UNCHANGED rows /\ TxGrounded(s)
        /\ s.at \in {"open", "refused"} /\ s.t = t /\ s.kids = {} /\ (s.hard <=> hard)
        /\ s.lease = lease /\ ~s.flip
        /\ \A c \in Rows(s) : RowFree(p, c)
  <2>1. lease \in {"keep", "take", "end"}
    OBVIOUS
  <2> QED BY <2>1, LockShape
<1>2. TxHeld(s)
  BY <1>1 DEF TxHeld
<1> QED BY <1>1, <1>2, OpenTxStep, TxStepHeld DEF rows

LEMMA DeliveryHeld ==
  ASSUME IInv, HeldInv, NEW p \in Clients, NEW t \in Tasks, NEW d \in Deliveries(t),
         NEW land \in {"keep", "gate"}, ResolveDelivery(p, t, d, land)
  PROVE  HeldInv'
<1>1. PICK s \in Transactions :
        /\ Open(p, s) /\ UNCHANGED rows /\ s.kids = {} /\ s.lease = "keep" /\ ~s.flip
  BY DeliveryShape
<1>2. TxHeld(s)
  BY <1>1 DEF TxHeld
<1> QED BY <1>1, <1>2, OpenTxStep, TxStepHeld DEF rows

LEMMA FactsChangeHeld ==
  ASSUME IInv, HeldInv, NEW p \in Clients, NEW t \in Tasks, FactsChange(p, t)
  PROVE  HeldInv'
<1>1. Open(p, NoTx) /\ up' \subseteq up /\ UNCHANGED <<deleted, leased>>
  BY DEF FactsChange
<1> QED BY <1>1, NoTxGrounded, NoTxHeld, OpenTxStep, TxStepHeld

LEMMA BeginMoveHeld ==
  ASSUME IInv, HeldInv, NEW p \in Clients, NEW t \in Tasks, NEW to \in States,
         NEW lease \in {"keep", "end"}, NEW land \in {"keep", "clear"},
         BeginMove(p, t, to, lease, land)
  PROVE  HeldInv'
<1> DEFINE m == <<<<t, to>>>>
           s == [NoTx EXCEPT !.at = "open", !.t = t, !.lease = lease, !.land = land,
                             !.stack = m]
<1>1. m \in Seq(Tasks \X States) /\ Open(p, s) /\ UNCHANGED rows
  BY DEF BeginMove
<1> HIDE DEF m
<1>2. s \in Transactions /\ TxHeld(s)
  BY <1>1 DEF NoTx, Transactions, TxHeld
<1> QED BY <1>1, <1>2, OpenTxStep, TxStepHeld DEF rows

LEMMA DecomposeHeld ==
  ASSUME IInv, HeldInv, NEW p \in Clients, NEW t \in Tasks, NEW K \in SUBSET Unallocated,
         Decompose(p, t, K)
  PROVE  HeldInv'
<1>1. PICK s \in Transactions :
        /\ Open(p, s) /\ UNCHANGED rows /\ TxGrounded(s)
        /\ s.at \in {"open", "refused"} /\ s.t = t /\ s.kids = K /\ s.hard
        /\ s.lease = "keep" /\ ~s.flip
        /\ \A c \in Rows(s) : RowFree(p, c)
  BY DecomposeShape
<1>2. t \notin leased
  BY DEF Decompose
<1>3. TxHeld(s)
  BY <1>1, <1>2 DEF TxHeld
<1> QED BY <1>1, <1>3, OpenTxStep, TxStepHeld DEF rows

LEMMA WriteHeld ==
  ASSUME IInv, HeldInv, NEW p \in Clients, Write(p)
  PROVE  HeldInv'
<1>1. PICK s \in Transactions :
        /\ Goto(p, s) /\ UNCHANGED rows /\ s.t = tx[p].t /\ s.kids = tx[p].kids
        /\ s.hard = tx[p].hard /\ s.lease = tx[p].lease /\ s.flip = tx[p].flip
        /\ tx[p].at = "open"
  BY WriteShape
<1>2. TxHeld(s)
  BY <1>1 DEF TxHeld, HeldInv
<1> QED BY <1>1, <1>2, GotoTxStep, TxStepHeld DEF rows

\* A child is added only under a task that no claim has locked.
LEMMA EdgeCommitHeld ==
  ASSUME IInv, HeldInv, NEW p \in Clients, EdgeCommit(p)
  PROVE  HeldInv'
<1>1. /\ UNCHANGED <<state, deleted, gated, leased>> /\ Goto(p, NoTx) /\ KeyFree(p, tx[p].t)
      /\ up' \subseteq up \union (tx[p].kids \X {tx[p].t})
  BY DEF EdgeCommit
<1> SUFFICES ASSUME NEW q \in Clients PROVE TxHeld(tx[q])'
  BY DEF HeldInv
<1>2. CASE q = p
  BY <1>1, <1>2, GoneExclusive, GoneHeld
<1>3. CASE q # p
  <2>1. tx'[q] = tx[q] /\ TxHeld(tx[q])
    BY <1>1, <1>3, GoneExclusive DEF HeldInv
  <2>2. tx[q].at = "open" /\ tx[q].hard => tx[q].t # tx[p].t
    BY <1>1, <1>3 DEF KeyFree
  <2>3. tx[q].at = "open" /\ tx[q].hard /\ ~hasChildren(tx[q].t) => ~hasChildren(tx[q].t)'
    BY <1>1, <2>1, <2>2 DEF hasChildren, Children, EdgesIn, GoneIn, NoTx
  <2> QED BY <1>1, <2>1, <2>3 DEF TxHeld
<1> QED BY <1>2, <1>3

\* A lease is taken, and children are made, by the transaction that has the row.
LEMMA CommitHeld ==
  ASSUME IInv, HeldInv, NEW p \in Clients, Commit(p)
  PROVE  HeldInv'
<1> DEFINE r == tx[p]
<1>1. /\ TxGrounded(r) /\ TxHeld(r) /\ r.at = "open" /\ Goto(p, NoTx)
      /\ deleted' = [t \in Tasks |-> GoneIn(r, t)] /\ deleted \in [Tasks -> BOOLEAN]
      /\ up' = up \union (r.kids \X {r.t})
      /\ leased' \subseteq leased \/ (r.lease = "take" /\ leased' = leased \union {r.t})
  BY DEF IInv, TypeOK, Grounded, HeldInv, Commit, EdgesIn
<1>2. deleted' = deleted
  BY <1>1 DEF GoneIn, TxHeld
<1> SUFFICES ASSUME NEW q \in Clients PROVE TxHeld(tx[q])'
  BY DEF HeldInv
<1>3. CASE q = p
  BY <1>1, <1>3, GoneExclusive, GoneHeld
<1>4. CASE q # p
  <2>1. tx'[q] = tx[q] /\ TxHeld(tx[q]) /\ TxGrounded(tx[q])
    BY <1>1, <1>4, GoneExclusive DEF HeldInv, IInv, Grounded
  <2>2. tx[q].at = "open" /\ tx[q].hard /\ r.hard => tx[q].t # r.t
    BY <1>1, <1>4, <2>1 DEF TxGrounded, IInv, Exclusive, Holds
  <2>3. r.kids # {} \/ r.lease = "take" => r.hard
    BY <1>1 DEF TxHeld
  <2>4. tx[q].at = "open" /\ tx[q].hard /\ ~hasChildren(tx[q].t) => ~hasChildren(tx[q].t)'
    BY <1>1, <1>2, <2>1, <2>2, <2>3 DEF hasChildren, Children, EdgesIn, GoneIn, NoTx
  <2>5. tx[q].at = "open" /\ tx[q].hard /\ tx[q].t \notin leased => tx[q].t \notin leased'
    BY <1>1, <2>2, <2>3
  <2> QED BY <2>1, <2>4, <2>5 DEF TxHeld
<1> QED BY <1>3, <1>4

LEMMA RequestHeld ==
  ASSUME IInv, HeldInv, "delete" \notin Ops, NEW p \in Clients, Request(p)
  PROVE  HeldInv'
<1>1. ASSUME NEW t \in Tasks, NEW to \in States, finishTask(p, t, to) PROVE HeldInv'
  BY <1>1, BeginMoveHeld DEF finishTask
<1>2. ASSUME NEW t \in Tasks, applyPullRequest(p, t) PROVE HeldInv'
  BY <1>2, Moves, BeginMoveHeld DEF applyPullRequest
<1>3. ASSUME NEW t \in Tasks, closeLease(p, t) PROVE HeldInv'
  <2>1. CASE state[t] = "in_progress"
    BY <1>3, <2>1, BeginMoveHeld DEF closeLease, States
  <2>2. CASE state[t] # "in_progress"
    <3>1. leased' = leased \ {t} /\ UNCHANGED <<state, deleted, gated, up, raced, tx>>
      BY <1>3, <2>2 DEF closeLease
    <3>2. \A q \in Clients : TxHeld(tx[q])
      BY DEF HeldInv
    <3>3. \A q \in Clients : TxHeld(tx[q])'
      BY <3>1, <3>2 DEF TxHeld, hasChildren, Children, EdgesIn, GoneIn, NoTx
    <3> QED BY <3>3 DEF HeldInv
  <2> QED BY <2>1, <2>2
<1>4. ASSUME NEW t \in Tasks, NEW to \in States, updateTask(p, t, to) PROVE HeldInv'
  BY <1>4, Moves, LockHeld DEF updateTask
<1>5. ASSUME NEW t \in Tasks, Claim(p, t) PROVE HeldInv'
  BY <1>5, LockHeld DEF Claim, States
<1>6. ASSUME NEW t \in Tasks, NEW d \in Deliveries(t), NEW land \in {"keep", "gate"},
             ResolveDelivery(p, t, d, land)
      PROVE  HeldInv'
  BY <1>6, DeliveryHeld
<1>0. ASSUME NEW t \in Tasks, FactsChange(p, t) PROVE HeldInv'
  BY <1>0, FactsChangeHeld
<1>7. ASSUME NEW t \in Tasks, DeleteTask(p, t) \/ UndeleteTask(p, t) PROVE HeldInv'
  BY <1>7 DEF DeleteTask, UndeleteTask
<1>8. ASSUME NEW c \in Tasks, NEW q \in Tasks, AddEdge(p, c, q) PROVE HeldInv'
  <2> DEFINE s == [NoTx EXCEPT !.at = "edge", !.t = q, !.kids = {c}]
  <2>1. Open(p, s) /\ UNCHANGED rows /\ s \in Transactions /\ s.at = "edge" /\ ~s.flip
    BY <1>8, NoTxGrounded DEF AddEdge, NoTx, Transactions
  <2> HIDE DEF s
  <2>2. TxHeld(s)
    BY <2>1 DEF TxHeld
  <2> QED BY <2>1, <2>2, OpenTxStep, TxStepHeld DEF rows
<1>9. ASSUME NEW e \in up, RemoveEdge(p, e) PROVE HeldInv'
  <2>1. /\ Open(p, NoTx) /\ up' \subseteq up /\ UNCHANGED <<deleted, leased>>
    BY <1>9 DEF RemoveEdge
  <2> QED BY <2>1, NoTxGrounded, NoTxHeld, OpenTxStep, TxStepHeld
<1>10. ASSUME NEW t \in Tasks, NEW K \in SUBSET Unallocated, Decompose(p, t, K) PROVE HeldInv'
  BY <1>10, DecomposeHeld
<1> QED BY <1>0, <1>1, <1>2, <1>3, <1>4, <1>5, <1>6, <1>7, <1>8, <1>9, <1>10 DEF Request

LEMMA HeldNext == IInv /\ HeldInv /\ "delete" \notin Ops /\ [Next]_vars => HeldInv'
<1> SUFFICES ASSUME IInv, HeldInv, "delete" \notin Ops, [Next]_vars PROVE HeldInv'
  OBVIOUS
<1>1. CASE UNCHANGED vars
  <2>1. UNCHANGED <<state, deleted, gated, up, leased, raced, tx>>
    BY <1>1 DEF vars, rows
  <2> QED BY <2>1 DEF HeldInv, TxHeld, hasChildren, Children, EdgesIn, GoneIn, NoTx
<1>2. ASSUME NEW p \in Clients, Rollback(p) PROVE HeldInv'
  BY <1>2, NoTxGrounded, NoTxHeld, GotoTxStep, TxStepHeld DEF Rollback, rows
<1>3. ASSUME NEW p \in Clients, Step(p) PROVE HeldInv'
  BY <1>2, <1>3, WriteHeld, EdgeCommitHeld, CommitHeld DEF Step
<1>4. ASSUME NEW p \in Clients, Request(p) PROVE HeldInv'
  BY <1>4, RequestHeld
<1> QED BY <1>1, <1>3, <1>4 DEF Next

LEMMA HeldInit == Init => HeldInv
BY DEF Init, HeldInv, TxHeld, NoTx

\* Where nothing is deleted or restored, no task is both held and split by
\* Decompose: of a claim and a decomposition that overlap the second to lock the
\* row finds the children, or the lease, of the first.
THEOREM HeldOrSplit == "delete" \notin Ops /\ Spec => HeldNotSplit
<1> DEFINE A(p) == Commit(p) =>
             /\ tx[p].kids # {} => tx[p].t \notin leased
             /\ tx[p].lease = "take" => ~hasChildren(tx[p].t)
<1>1. HeldInv => \A p \in Clients : A(p)
  BY DEF HeldInv, TxHeld, Commit
<1>2. HeldInv => [\A p \in Clients : A(p)]_vars
  BY <1>1
<1> SUFFICES ASSUME "delete" \notin Ops PROVE Spec => HeldNotSplit
  OBVIOUS
<1>3. IInv /\ HeldInv /\ [Next]_vars => HeldInv'
  BY HeldNext
<1> QED BY <1>2, <1>3, InitInv, NextInv, HeldInit, PTL DEF Spec, HeldNotSplit

-----------------------------------------------------------------------------
(* Walks along the edges *)

\* Induction over the natural numbers, said of a set.
LEMMA Inductive ==
  ASSUME NEW S, 0 \in S, \A n \in Nat : n \in S => n + 1 \in S
  PROVE  Nat \subseteq S
<1> DEFINE bad == {n \in Nat : n \notin S}
<1> SUFFICES ASSUME bad # {} PROVE FALSE
  OBVIOUS
<1>1. PICK n \in bad : \A j \in bad : ~(<<j, n>> \in OpToRel(<, Nat))
  BY WFMin, NatLessThanWellFounded
<1>2. n \in Nat /\ n # 0 /\ n \notin S
  OBVIOUS
<1>3. n - 1 \in Nat /\ n - 1 < n /\ (n - 1) + 1 = n
  BY <1>2
<1>4. <<n - 1, n>> \in OpToRel(<, Nat)
  BY <1>2, <1>3 DEF OpToRel
<1>5. n - 1 \in S
  BY <1>1, <1>3, <1>4
<1> QED BY <1>2, <1>3, <1>5

\* The tasks one step along E from S, S included.
Further(E, S) == S \union {b \in Tasks : \E a \in S : <<a, b>> \in E}

\* The walk along E from t, for n steps.
Walk(E, t, n, g) == g = [i \in 0..n |-> IF i = 0 THEN {t} ELSE Further(E, g[i - 1])]

LEMMA WalkExists ==
  ASSUME NEW E, NEW t, NEW n \in Nat
  PROVE  \E g : Walk(E, t, n, g)
<1> DEFINE good == {k \in Nat : \E g : Walk(E, t, k, g)}
<1>1. 0 \in good
  <2> DEFINE g == [i \in 0..0 |-> {t}]
  <2>1. Walk(E, t, 0, g)
    BY DEF Walk
  <2> QED BY <2>1
<1>2. ASSUME NEW k \in Nat, k \in good PROVE k + 1 \in good
  <2>1. PICK g : Walk(E, t, k, g)
    BY <1>2
  <2> DEFINE h == [i \in 0..k + 1 |-> IF i = k + 1 THEN Further(E, g[k]) ELSE g[i]]
  <2>2. \A i \in 0..k : g[i] = IF i = 0 THEN {t} ELSE Further(E, g[i - 1])
    BY <2>1 DEF Walk
  <2>3. \A i \in 0..k + 1 : h[i] = IF i = 0 THEN {t} ELSE Further(E, h[i - 1])
    <3> SUFFICES ASSUME NEW i \in 0..k + 1
                 PROVE  h[i] = IF i = 0 THEN {t} ELSE Further(E, h[i - 1])
      OBVIOUS
    <3>1. CASE i = k + 1
      BY <3>1
    <3>2. CASE i # k + 1
      <4>1. i \in 0..k /\ h[i] = g[i] /\ (i # 0 => h[i - 1] = g[i - 1])
        BY <3>2
      <4> HIDE DEF h
      <4> QED BY <2>2, <4>1
    <3> QED BY <3>1, <3>2
  <2>4. h = [i \in 0..k + 1 |-> h[i]]
    OBVIOUS
  <2> HIDE DEF h
  <2>5. h = [i \in 0..k + 1 |-> IF i = 0 THEN {t} ELSE Further(E, h[i - 1])]
    BY <2>3, <2>4
  <2>6. Walk(E, t, k + 1, h)
    BY <2>5 DEF Walk
  <2> QED BY <2>6
<1> HIDE DEF good
<1>3. Nat \subseteq good
  BY <1>1, <1>2, Inductive
<1> QED BY <1>3 DEF good

\* Reach is the walk of hierarchy.go, a step at a time.
LEMMA ReachUnfolds ==
  ASSUME NEW E, NEW t
  PROVE  /\ Cardinality(Tasks) \in Nat
         /\ Reach(E, t)[0] = {t}
         /\ \A n \in 1..Cardinality(Tasks) : Reach(E, t)[n] = Further(E, Reach(E, t)[n - 1])
<1> DEFINE N == Cardinality(Tasks)
           f == Reach(E, t)
<1>1. N \in Nat
  BY TasksAssumption, FS_CardinalityType
<1>2. \E g : Walk(E, t, N, g)
  BY <1>1, WalkExists
<1>3. Reach(E, t) = CHOOSE g : Walk(E, t, N, g)
  BY DEF Reach, Walk, Further
<1>4. f = [i \in 0..N |-> IF i = 0 THEN {t} ELSE Further(E, f[i - 1])]
  BY <1>2, <1>3 DEF Walk
<1> HIDE DEF f, N
<1>5. \A i \in 0..N : f[i] = IF i = 0 THEN {t} ELSE Further(E, f[i - 1])
  BY <1>4
<1>6. f[0] = {t} /\ \A n \in 1..N : f[n] = Further(E, f[n - 1])
  BY <1>1, <1>5
<1> QED BY <1>1, <1>6 DEF f, N

-----------------------------------------------------------------------------
(* Forests *)

\* A forest of childOf edges, two deep: no cycle, no short cut, no path of
\* three edges.
Forested(E) ==
  /\ \A a \in Tasks : <<a, a>> \notin E
  /\ \A a, b \in Tasks : <<a, b>> \in E => <<b, a>> \notin E
  /\ \A a, b, c \in Tasks : <<a, b>> \in E /\ <<b, c>> \in E => <<a, c>> \notin E
  /\ \A a, b, c, d \in Tasks : ~(<<a, b>> \in E /\ <<b, c>> \in E /\ <<c, d>> \in E)

LEMMA PairSize ==
  ASSUME NEW a, NEW b, a # b
  PROVE  IsFiniteSet({a, b}) /\ Cardinality({a, b}) = 2
<1>1. IsFiniteSet({a}) /\ Cardinality({a}) = 1 /\ b \notin {a} /\ {a, b} = {a} \union {b}
  BY FS_Singleton
<1> QED BY <1>1, FS_AddElement

\* In a forest a walk stops after two steps.
LEMMA WalkStops ==
  ASSUME NEW E, Forested(E), NEW t \in Tasks
  PROVE  \A n \in 1..Cardinality(Tasks) :
           Reach(E, t)[n] = IF n = 1 THEN Further(E, {t}) ELSE Further(E, Further(E, {t}))
<1> DEFINE N == Cardinality(Tasks)
           S1 == Further(E, {t})
           S2 == Further(E, S1)
           f == Reach(E, t)
           good == {n \in Nat : n \in 1..N => f[n] = IF n = 1 THEN S1 ELSE S2}
<1>1. N \in Nat /\ f[0] = {t} /\ \A n \in 1..N : f[n] = Further(E, f[n - 1])
  BY ReachUnfolds
<1>2. Further(E, S2) = S2
  BY DEF Further, Forested
<1> HIDE DEF f, S1, N
<1>3. 0 \in good
  OBVIOUS
<1>4. ASSUME NEW n \in Nat, n \in good PROVE n + 1 \in good
  <2> SUFFICES ASSUME n + 1 \in 1..N PROVE f[n + 1] = IF n + 1 = 1 THEN S1 ELSE S2
    OBVIOUS
  <2>1. f[n + 1] = Further(E, f[n])
    BY <1>1
  <2>2. CASE n = 0
    BY <1>1, <2>1, <2>2 DEF S1
  <2>3. CASE n # 0
    <3>1. n \in 1..N /\ f[n] = IF n = 1 THEN S1 ELSE S2
      BY <1>1, <1>4, <2>3
    <3> QED BY <1>2, <2>1, <2>3, <3>1
  <2> QED BY <2>2, <2>3
<1> HIDE DEF good
<1>5. Nat \subseteq good
  BY <1>3, <1>4, Inductive
<1> QED BY <1>1, <1>5 DEF good, f, S1, N

\* So no task has more than two ancestors in a row, or is above itself.
LEMMA ForestShallow ==
  ASSUME NEW E, Forested(E), NEW t \in Tasks
  PROVE  /\ Depth(E, t) <= maxHierarchyDepth
         /\ \A q \in Tasks : <<t, q>> \in E => t \notin reaches(E, q)
<1> DEFINE N == Cardinality(Tasks)
<1>1. Depth(E, t) <= 2
  <2> DEFINE f == Reach(E, t)
             D == {n \in 1..N : f[n] # f[n - 1]}
  <2>1. N \in Nat /\ \A n \in 1..N : f[n] = IF n = 1 THEN Further(E, {t}) ELSE Further(E, Further(E, {t}))
    BY WalkStops, ReachUnfolds
  <2> HIDE DEF f, N
  <2>2. D \subseteq {1, 2}
    <3> SUFFICES ASSUME NEW n \in 1..N, n > 2 PROVE f[n] = f[n - 1]
      BY <2>1
    <3>1. n - 1 \in 1..N /\ n - 1 # 1 /\ n # 1
      BY <2>1
    <3> QED BY <2>1, <3>1
  <2> HIDE DEF D
  <2>3. IsFiniteSet({1, 2}) /\ Cardinality({1, 2}) = 2
    <3>1. 1 # 2
      OBVIOUS
    <3> QED BY <3>1, PairSize, Zenon
  <2>4. Cardinality(D) <= 2
    BY <2>2, <2>3, FS_Subset
  <2> QED BY <2>4 DEF Depth, D, f, N
<1>2. ASSUME NEW q \in Tasks, <<t, q>> \in E PROVE t \notin reaches(E, q)
  <2> DEFINE f == Reach(E, q)
  <2>1. /\ N \in Nat /\ f[0] = {q}
        /\ \A n \in 1..N : f[n] = IF n = 1 THEN Further(E, {q}) ELSE Further(E, Further(E, {q}))
    BY WalkStops, ReachUnfolds
  <2>2. t \notin Further(E, {q}) /\ t \notin Further(E, Further(E, {q})) /\ t # q
    BY <1>2 DEF Further, Forested
  <2> HIDE DEF f, N
  <2>3. t \notin f[N]
    <3>1. CASE N = 0
      BY <2>1, <2>2, <3>1
    <3>2. CASE N # 0
      <4>1. N \in 1..N
        BY <2>1, <3>2
      <4> QED BY <2>1, <2>2, <4>1
    <3> QED BY <3>1, <3>2
  <2> QED BY <2>3 DEF reaches, f, N
<1> QED BY <1>1, <1>2 DEF maxHierarchyDepth

\* Depth counts steps: one if there is an edge, two if there are two in a row.
LEMMA DepthCounts ==
  ASSUME NEW E, Forested(E), NEW t \in Tasks
  PROVE  /\ Depth(E, t) \in Nat
         /\ \A x \in Tasks : <<t, x>> \in E => Depth(E, t) >= 1
         /\ \A x, y \in Tasks : <<t, x>> \in E /\ <<x, y>> \in E => Depth(E, t) >= 2
<1> DEFINE N == Cardinality(Tasks)
           f == Reach(E, t)
           D == {n \in 1..N : f[n] # f[n - 1]}
<1>1. /\ N \in Nat /\ f[0] = {t}
      /\ \A n \in 1..N : f[n] = IF n = 1 THEN Further(E, {t}) ELSE Further(E, Further(E, {t}))
  BY WalkStops, ReachUnfolds
<1> HIDE DEF f
<1>2. IsFiniteSet(1..N) /\ D \subseteq 1..N
  BY <1>1, FS_Interval
<1>3. IsFiniteSet(D) /\ Cardinality(D) \in Nat
  BY <1>2, FS_Subset, FS_CardinalityType
<1>4. Depth(E, t) = Cardinality(D)
  BY DEF Depth, f
<1> HIDE DEF D
<1>5. ASSUME NEW x \in Tasks, <<t, x>> \in E PROVE 1 \in D
  <2>1. x # t /\ x \in Further(E, {t})
    BY <1>5 DEF Further, Forested
  <2>2. N # 0
    BY TasksAssumption, FS_EmptySet
  <2>3. 1 \in 1..N /\ f[1] = Further(E, {t}) /\ f[1 - 1] = {t}
    BY <1>1, <2>2
  <2> QED BY <2>1, <2>3 DEF D
<1>6. ASSUME NEW x \in Tasks, NEW y \in Tasks, <<t, x>> \in E, <<x, y>> \in E PROVE 2 \in D
  <2>1. y \notin Further(E, {t}) /\ y \in Further(E, Further(E, {t})) /\ t # x
    BY <1>6 DEF Further, Forested
  <2>2. N >= 2
    <3>1. Cardinality({t, x}) = 2
      BY <2>1, PairSize
    <3>2. {t, x} \subseteq Tasks
      OBVIOUS
    <3> QED BY <3>1, <3>2, TasksAssumption, FS_Subset
  <2>3. 2 \in 1..N /\ 1 \in 1..N /\ 2 - 1 = 1
    BY <1>1, <2>2
  <2>4. f[2] = Further(E, Further(E, {t})) /\ f[2 - 1] = Further(E, {t})
    BY <1>1, <2>3
  <2> QED BY <2>1, <2>3, <2>4 DEF D
<1>7. 1 \in D => Cardinality(D) >= 1
  <2>1. Cardinality(D) = 0 => D = {}
    BY <1>3, FS_EmptySet
  <2> QED BY <1>3, <2>1
<1>8. 1 \in D /\ 2 \in D => Cardinality(D) >= 2
  <2> SUFFICES ASSUME 1 \in D, 2 \in D PROVE Cardinality(D) >= 2
    OBVIOUS
  <2>1. 1 # 2
    OBVIOUS
  <2>2. {1, 2} \subseteq D /\ Cardinality({1, 2}) = 2
    BY <2>1, PairSize, Zenon
  <2> QED BY <1>3, <2>2, FS_Subset
<1> QED BY <1>3, <1>4, <1>5, <1>6, <1>7, <1>8

-----------------------------------------------------------------------------
(* The checks that keep the forest *)

LEMMA ForestedSub ==
  ASSUME NEW E, NEW F, Forested(E), F \subseteq E
  PROVE  Forested(F)
BY DEF Forested

\* checkHierarchy: what AddEdge walks in both directions is enough.
LEMMA CheckKeepsForest ==
  ASSUME IInv, Forested(up), NEW c \in Tasks, NEW q \in Tasks, c # q, checkHierarchy(c, q)
  PROVE  Forested(up \union ({c} \X {q}))
<1> DEFINE down == {<<e[2], e[1]>> : e \in up}
           E == up \union {<<c, q>>}
<1>1. up \subseteq Tasks \X Tasks
  BY DEF IInv, TypeOK
<1>2. \A a, b \in Tasks : <<b, a>> \in up <=> <<a, b>> \in down
  BY <1>1
<1> HIDE DEF down
<1>3. Forested(down)
  BY <1>2 DEF Forested
<1>4. Depth(up, q) + 1 + Depth(down, c) <= 2
  BY DEF checkHierarchy, ancestorHops, descendantDepth, maxHierarchyDepth, down
<1>5. /\ Depth(up, q) \in Nat
      /\ \A x \in Tasks : <<q, x>> \in up => Depth(up, q) >= 1
      /\ \A x, y \in Tasks : <<q, x>> \in up /\ <<x, y>> \in up => Depth(up, q) >= 2
  BY DepthCounts
<1>6. /\ Depth(down, c) \in Nat
      /\ \A x \in Tasks : <<x, c>> \in up => Depth(down, c) >= 1
      /\ \A x, y \in Tasks : <<x, c>> \in up /\ <<y, x>> \in up => Depth(down, c) >= 2
  BY <1>2, <1>3, DepthCounts
<1>7. /\ \A x, y \in Tasks : ~(<<q, x>> \in up /\ <<x, y>> \in up)
      /\ \A x, y \in Tasks : ~(<<q, x>> \in up /\ <<y, c>> \in up)
      /\ \A x, y \in Tasks : ~(<<y, x>> \in up /\ <<x, c>> \in up)
  BY <1>4, <1>5, <1>6
<1>8. \A x \in Tasks : <<c, x>> \notin up
  BY DEF checkHierarchy, parentOf, EdgesIn, NoTx
<1>9. \A x, y, z \in Tasks : <<x, y>> \in up /\ <<x, z>> \in up => y = z
  BY DEF IInv, OneParent, parentOf, EdgesIn, NoTx
<1>10. \A a, b : <<a, b>> \in E <=> <<a, b>> \in up \/ (a = c /\ b = q)
  OBVIOUS
<1> HIDE DEF E
<1>11. \A a, b \in Tasks : <<a, b>> \in E => <<b, a>> \notin E
  BY <1>7, <1>10 DEF Forested
<1>12. \A a, b, d \in Tasks : <<a, b>> \in E /\ <<b, d>> \in E => <<a, d>> \notin E
  BY <1>8, <1>9, <1>10, <1>11 DEF Forested
<1>13. \A a, b, d, e \in Tasks : ~(<<a, b>> \in E /\ <<b, d>> \in E /\ <<d, e>> \in E)
  BY <1>7, <1>8, <1>10, <1>11 DEF Forested
<1>14. Forested(E)
  BY <1>10, <1>11, <1>12, <1>13 DEF Forested
<1>15. up \union ({c} \X {q}) = E
  BY DEF E
<1> QED BY <1>14, <1>15

\* Decompose: new tasks, under one that has at most one task above it.
LEMMA DecomposeKeepsForest ==
  ASSUME IInv, Forested(up), NEW t \in Tasks, NEW K \in SUBSET Tasks,
         \A k \in K : state[k] = "none", state[t] # "none",
         ancestorHops(t) + 1 <= maxHierarchyDepth
  PROVE  Forested(up \union (K \X {t}))
<1> DEFINE E == up \union (K \X {t})
<1>1. \A k \in K : \A x : <<k, x>> \notin up /\ <<x, k>> \notin up
  BY DEF IInv, TypeOK
<1>2. t \notin K
  OBVIOUS
<1>3. \A x, y \in Tasks : ~(<<t, x>> \in up /\ <<x, y>> \in up)
  <2>1. /\ Depth(up, t) \in Nat
        /\ \A x, y \in Tasks : <<t, x>> \in up /\ <<x, y>> \in up => Depth(up, t) >= 2
    BY DepthCounts
  <2>2. Depth(up, t) + 1 <= 2
    BY DEF ancestorHops, maxHierarchyDepth
  <2>3. ~(Depth(up, t) >= 2)
    BY <2>1, <2>2
  <2> QED BY <2>1, <2>3, Zenon
<1>4. \A a, b : <<a, b>> \in E <=> <<a, b>> \in up \/ (a \in K /\ b = t)
  OBVIOUS
<1> HIDE DEF E
<1>5. \A a, b \in Tasks : <<a, b>> \in E => <<b, a>> \notin E /\ a # b
  BY <1>1, <1>2, <1>4 DEF Forested
<1>6. \A a, b, d \in Tasks : <<a, b>> \in E /\ <<b, d>> \in E => <<a, d>> \notin E
  BY <1>1, <1>2, <1>4 DEF Forested
<1>7. \A a, b, d, e \in Tasks : ~(<<a, b>> \in E /\ <<b, d>> \in E /\ <<d, e>> \in E)
  BY <1>1, <1>2, <1>3, <1>4 DEF Forested
<1>8. Forested(E)
  BY <1>5, <1>6, <1>7 DEF Forested
<1> QED BY <1>8 DEF E

-----------------------------------------------------------------------------
(* The forest, while no two transactions overlap *)

\* A transaction is alone while every other client is idle.
Solitude == \A p \in Clients : tx[p].alone => \A q \in Clients \ {p} : Idle(q)

\* The edges that a transaction puts in do not spoil the forest.
Plants(r) == r.at \in {"open", "edge"} => Forested(up \union (r.kids \X {r.t}))

ForestInv ==
  /\ Solitude
  /\ ~raced => Forested(up) /\ \A p \in Clients : tx[p].alone => Plants(tx[p])

\* A transaction that opens leaves no other alone.
LEMMA OpenForest ==
  ASSUME IInv, ForestInv, NEW p \in Clients, NEW s \in Transactions, Open(p, s),
         raced' = raced, up' \subseteq up,
         ~raced /\ s.at \in {"open", "edge"} => Forested(up \union (s.kids \X {s.t}))
  PROVE  ForestInv'
<1> DEFINE b == \A o \in Clients \ {p} : Idle(o)
<1>1. tx' = [q \in Clients |-> IF q = p THEN [s EXCEPT !.alone = b]
                              ELSE [tx[q] EXCEPT !.alone = FALSE]]
  BY DEF Open
<1>2. tx \in [Clients -> Transactions]
  BY DEF IInv, TypeOK
<1>3. /\ tx'[p].at = s.at /\ tx'[p].kids = s.kids /\ tx'[p].t = s.t
      /\ tx'[p].alone => \A o \in Clients \ {p} : Idle(o)
  BY <1>1 DEF Transactions
<1>4. \A q \in Clients \ {p} : ~tx'[q].alone /\ tx'[q].at = tx[q].at
  BY <1>1, <1>2 DEF Transactions
<1>5. Solitude'
  BY <1>3, <1>4 DEF Solitude, Idle
<1>6. ~raced => Forested(up')
  BY ForestedSub DEF ForestInv
<1>7. ~raced => \A q \in Clients : tx'[q].alone => Plants(tx[q])'
  <2> SUFFICES ASSUME ~raced, s.at \in {"open", "edge"}
               PROVE  Forested(up' \union (s.kids \X {s.t}))
    BY <1>3, <1>4 DEF Plants
  <2>1. up' \union (s.kids \X {s.t}) \subseteq up \union (s.kids \X {s.t})
    OBVIOUS
  <2> QED BY <2>1, ForestedSub
<1> QED BY <1>5, <1>6, <1>7 DEF ForestInv

\* One that goes on puts in the edges it had.
LEMMA GotoForest ==
  ASSUME IInv, ForestInv, NEW p \in Clients, NEW s \in Transactions, Goto(p, s),
         UNCHANGED <<up, raced>>, ~Idle(p), tx[p].at \in {"open", "edge"},
         s.kids = tx[p].kids, s.t = tx[p].t, s.alone = tx[p].alone
  PROVE  ForestInv'
<1>1. tx'[p] = s /\ \A q \in Clients \ {p} : tx'[q] = tx[q]
  BY DEF Goto, IInv, TypeOK
<1>2. \A q \in Clients \ {p} : ~tx[q].alone
  BY DEF ForestInv, Solitude
<1>3. Solitude'
  BY <1>1, <1>2 DEF ForestInv, Solitude, Idle
<1>4. ~raced => \A q \in Clients : tx'[q].alone => Plants(tx[q])'
  <2> SUFFICES ASSUME ~raced, s.alone PROVE Forested(up' \union (s.kids \X {s.t}))
    BY <1>1, <1>2 DEF Plants
  <2> QED BY DEF ForestInv, Plants
<1> QED BY <1>3, <1>4 DEF ForestInv

\* One that ends leaves none alone that is not idle.
LEMMA GoneForest ==
  ASSUME IInv, ForestInv, NEW p \in Clients, Goto(p, NoTx), ~Idle(p),
         ~raced' => Forested(up')
  PROVE  ForestInv'
<1>1. tx'[p] = NoTx /\ \A q \in Clients \ {p} : tx'[q] = tx[q]
  BY GoneExclusive
<1>2. \A q \in Clients : ~tx'[q].alone
  BY <1>1 DEF ForestInv, Solitude, NoTx
<1> QED BY <1>2 DEF ForestInv, Solitude

LEMMA EdgeCommitForest ==
  ASSUME IInv, ForestInv, NEW p \in Clients, EdgeCommit(p)
  PROVE  ForestInv'
<1>1. /\ Goto(p, NoTx) /\ tx[p].at = "edge"
      /\ \/ UNCHANGED <<up, raced>>
         \/ /\ up' = up \union (tx[p].kids \X {tx[p].t})
            /\ raced' = (raced \/ ~tx[p].alone)
  BY DEF EdgeCommit
<1>2. ~raced' => Forested(up')
  <2>1. CASE UNCHANGED <<up, raced>>
    BY <2>1 DEF ForestInv
  <2>2. CASE /\ up' = up \union (tx[p].kids \X {tx[p].t})
             /\ raced' = (raced \/ ~tx[p].alone)
    BY <1>1, <2>2 DEF ForestInv, Plants
  <2> QED BY <1>1, <2>1, <2>2
<1> QED BY <1>1, <1>2, GoneForest DEF Idle

LEMMA CommitForest ==
  ASSUME IInv, ForestInv, NEW p \in Clients, Commit(p)
  PROVE  ForestInv'
<1>1. /\ Goto(p, NoTx) /\ tx[p].at = "open"
      /\ up' = up \union (tx[p].kids \X {tx[p].t})
      /\ raced' = (raced \/ (tx[p].kids # {} /\ ~tx[p].alone))
  BY DEF Commit, EdgesIn
<1>2. ~raced' => Forested(up')
  <2>1. CASE tx[p].kids = {}
    <3>1. up' = up
      BY <1>1, <2>1
    <3> QED BY <1>1, <3>1 DEF ForestInv
  <2>2. CASE tx[p].kids # {}
    BY <1>1, <2>2 DEF ForestInv, Plants
  <2> QED BY <2>1, <2>2
<1> QED BY <1>1, <1>2, GoneForest DEF Idle

LEMMA WriteForest ==
  ASSUME IInv, ForestInv, NEW p \in Clients, Write(p)
  PROVE  ForestInv'
<1>1. PICK s \in Transactions :
        /\ Goto(p, s) /\ UNCHANGED rows /\ s.t = tx[p].t /\ s.kids = tx[p].kids
        /\ s.alone = tx[p].alone /\ tx[p].at = "open"
  BY WriteShape
<1> QED BY <1>1, GotoForest DEF rows, Idle

LEMMA BeginMoveForest ==
  ASSUME IInv, ForestInv, NEW p \in Clients, NEW t \in Tasks, NEW to \in States,
         NEW lease \in {"keep", "end"}, NEW land \in {"keep", "clear"},
         BeginMove(p, t, to, lease, land)
  PROVE  ForestInv'
<1> DEFINE m == <<<<t, to>>>>
           s == [NoTx EXCEPT !.at = "open", !.t = t, !.lease = lease, !.land = land,
                             !.stack = m]
<1>1. m \in Seq(Tasks \X States) /\ Open(p, s) /\ UNCHANGED rows
  BY DEF BeginMove
<1> HIDE DEF m
<1>2. s \in Transactions /\ s.kids = {}
  BY <1>1 DEF NoTx, Transactions
<1> HIDE DEF s
<1>3. up \union (s.kids \X {s.t}) = up
  BY <1>2
<1> QED BY <1>1, <1>2, <1>3, OpenForest DEF rows, ForestInv

LEMMA LockForest ==
  ASSUME IInv, ForestInv, NEW p \in Clients, NEW t \in Tasks, NEW to \in States,
         NEW hard \in BOOLEAN, NEW flip \in BOOLEAN, NEW lease \in {"keep", "take", "end"},
         Lock(p, t, to, hard, lease, flip), to = "draft" => state[t] = "draft"
  PROVE  ForestInv'
<1>1. PICK s \in Transactions : Open(p, s) /\ UNCHANGED rows /\ s.kids = {}
  BY LockShape
<1>2. up \union (s.kids \X {s.t}) = up
  BY <1>1
<1> QED BY <1>1, <1>2, OpenForest DEF rows, ForestInv

LEMMA DeliveryForest ==
  ASSUME IInv, ForestInv, NEW p \in Clients, NEW t \in Tasks, NEW d \in Deliveries(t),
         NEW land \in {"keep", "gate"}, ResolveDelivery(p, t, d, land)
  PROVE  ForestInv'
<1>1. PICK s \in Transactions : Open(p, s) /\ UNCHANGED rows /\ s.kids = {}
  BY DeliveryShape
<1>2. up \union (s.kids \X {s.t}) = up
  BY <1>1
<1> QED BY <1>1, <1>2, OpenForest DEF rows, ForestInv

LEMMA FactsChangeForest ==
  ASSUME IInv, ForestInv, NEW p \in Clients, NEW t \in Tasks, FactsChange(p, t)
  PROVE  ForestInv'
<1>1. Open(p, NoTx) /\ up' \subseteq up /\ raced' = raced
  BY DEF FactsChange
<1>2. NoTx.at \notin {"open", "edge"}
  BY DEF NoTx
<1> QED BY <1>1, <1>2, NoTxGrounded, OpenForest

LEMMA AddEdgeForest ==
  ASSUME IInv, ForestInv, NEW p \in Clients, NEW c \in Tasks, NEW q \in Tasks,
         AddEdge(p, c, q)
  PROVE  ForestInv'
<1> DEFINE s == [NoTx EXCEPT !.at = "edge", !.t = q, !.kids = {c}]
<1>1. s \in Transactions /\ s.t = q /\ s.kids = {c}
  BY NoTxGrounded DEF NoTx, Transactions
<1>2. Open(p, s) /\ UNCHANGED rows /\ c # q /\ checkHierarchy(c, q)
  BY DEF AddEdge
<1> HIDE DEF s
<1>3. ~raced => Forested(up \union (s.kids \X {s.t}))
  BY <1>1, <1>2, CheckKeepsForest DEF ForestInv
<1> QED BY <1>1, <1>2, <1>3, OpenForest DEF rows

LEMMA DecomposeForest ==
  ASSUME IInv, ForestInv, NEW p \in Clients, NEW t \in Tasks, NEW K \in SUBSET Unallocated,
         Decompose(p, t, K)
  PROVE  ForestInv'
<1>1. PICK s \in Transactions : Open(p, s) /\ UNCHANGED rows /\ s.t = t /\ s.kids = K
  BY DecomposeShape
<1>2. /\ K \in SUBSET Tasks /\ \A k \in K : state[k] = "none"
  BY FreshAssumption DEF Unallocated
<1>3. state[t] # "none" /\ ancestorHops(t) + 1 <= maxHierarchyDepth
  BY DEF Decompose
<1>4. ~raced => Forested(up \union (s.kids \X {s.t}))
  BY <1>1, <1>2, <1>3, DecomposeKeepsForest DEF ForestInv
<1> QED BY <1>1, <1>4, OpenForest DEF rows

LEMMA RequestForest ==
  ASSUME IInv, ForestInv, NEW p \in Clients, Request(p)
  PROVE  ForestInv'
<1>1. ASSUME NEW t \in Tasks, NEW to \in States, finishTask(p, t, to) PROVE ForestInv'
  BY <1>1, BeginMoveForest DEF finishTask
<1>2. ASSUME NEW t \in Tasks, applyPullRequest(p, t) PROVE ForestInv'
  BY <1>2, Moves, BeginMoveForest DEF applyPullRequest
<1>3. ASSUME NEW t \in Tasks, closeLease(p, t) PROVE ForestInv'
  <2>1. CASE state[t] = "in_progress"
    BY <1>3, <2>1, BeginMoveForest DEF closeLease, States
  <2>2. CASE state[t] # "in_progress"
    <3>1. UNCHANGED <<up, raced, tx>>
      BY <1>3, <2>2 DEF closeLease
    <3> QED BY <3>1 DEF ForestInv, Solitude, Idle, Plants
  <2> QED BY <2>1, <2>2
<1>4. ASSUME NEW t \in Tasks, NEW to \in States, updateTask(p, t, to) PROVE ForestInv'
  BY <1>4, Moves, LockForest DEF updateTask
<1>5. ASSUME NEW t \in Tasks, Claim(p, t) PROVE ForestInv'
  BY <1>5, LockForest DEF Claim, States
<1>6. ASSUME NEW t \in Tasks, NEW d \in Deliveries(t), NEW land \in {"keep", "gate"},
             ResolveDelivery(p, t, d, land)
      PROVE  ForestInv'
  BY <1>6, DeliveryForest
<1>0. ASSUME NEW t \in Tasks, FactsChange(p, t) PROVE ForestInv'
  BY <1>0, FactsChangeForest
<1>7. ASSUME NEW t \in Tasks, DeleteTask(p, t) PROVE ForestInv'
  <2> DEFINE to == IF state[t] = "in_progress" THEN "ready" ELSE state[t]
  <2>1. Lock(p, t, to, TRUE, "end", TRUE) /\ state[t] # "none"
    BY <1>7 DEF DeleteTask, Lock
  <2>2. to \in States /\ (to = "draft" => state[t] = "draft")
    BY <2>1 DEF IInv, TypeOK, States
  <2> HIDE DEF to
  <2> QED BY <2>1, <2>2, LockForest
<1>8. ASSUME NEW t \in Tasks, UndeleteTask(p, t) PROVE ForestInv'
  <2>1. Lock(p, t, state[t], TRUE, "keep", TRUE) /\ state[t] \in States
    BY <1>8 DEF UndeleteTask, Lock, IInv, TypeOK
  <2> QED BY <2>1, LockForest
<1>9. ASSUME NEW c \in Tasks, NEW q \in Tasks, AddEdge(p, c, q) PROVE ForestInv'
  BY <1>9, AddEdgeForest
<1>10. ASSUME NEW e \in up, RemoveEdge(p, e) PROVE ForestInv'
  <2>1. Open(p, NoTx) /\ up' \subseteq up /\ raced' = raced
    BY <1>10 DEF RemoveEdge
  <2>2. NoTx.at \notin {"open", "edge"}
    BY DEF NoTx
  <2> QED BY <2>1, <2>2, NoTxGrounded, OpenForest
<1>11. ASSUME NEW t \in Tasks, NEW K \in SUBSET Unallocated, Decompose(p, t, K) PROVE ForestInv'
  BY <1>11, DecomposeForest
<1> QED BY <1>0, <1>1, <1>2, <1>3, <1>4, <1>5, <1>6, <1>7, <1>8, <1>9, <1>10, <1>11 DEF Request

LEMMA ForestNext == IInv /\ ForestInv /\ [Next]_vars => ForestInv'
<1> SUFFICES ASSUME IInv, ForestInv, [Next]_vars PROVE ForestInv'
  OBVIOUS
<1>1. CASE UNCHANGED vars
  BY <1>1 DEF vars, rows, ForestInv, Solitude, Idle, Plants
<1>2. ASSUME NEW p \in Clients, Rollback(p) PROVE ForestInv'
  BY <1>2, GoneForest DEF Rollback, rows, ForestInv
<1>3. ASSUME NEW p \in Clients, Step(p) PROVE ForestInv'
  BY <1>2, <1>3, WriteForest, EdgeCommitForest, CommitForest DEF Step
<1>4. ASSUME NEW p \in Clients, Request(p) PROVE ForestInv'
  BY <1>4, RequestForest
<1> QED BY <1>1, <1>3, <1>4 DEF Next

LEMMA ForestInit == Init => ForestInv
BY DEF Init, ForestInv, Solitude, Plants, Forested, NoTx

\* While no edge was added by overlapping transactions the hierarchy is a
\* forest at most maxHierarchyDepth deep: what AddEdge and Decompose check of the
\* edges that are there is enough for the edges that will be.
THEOREM HierarchyIsForest == Spec => []Forest
<1>1. ForestInv => Forest
  <2> SUFFICES ASSUME Forested(up)
               PROVE  \A t \in Tasks : /\ ancestorHops(t) <= maxHierarchyDepth
                                       /\ \A q \in parentOf(NoTx, t) : t \notin reaches(up, q)
    BY DEF ForestInv, Forest
  <2> QED BY ForestShallow DEF ancestorHops, parentOf, EdgesIn, NoTx
<1> QED BY <1>1, InitInv, NextInv, ForestInit, ForestNext, PTL DEF Spec

-----------------------------------------------------------------------------
(* What a transaction has settled *)

\* A task that the transaction r has moved, deleted, restored or created.
Changed(r, t) == r.ov[t] # None \/ (r.flip /\ r.t = t)

\* The roll-up table, of what r sees.
TableIn(r, q) ==
  LET K == Children(r, q)
      s == StateIn(r, q)
  IN
  \/ K = {} \/ GoneIn(r, q) \/ s \in {"draft", "in_review"}
  \/ /\ s = "abandoned" <=> \A c \in K : StateIn(r, c) = "abandoned"
     /\ s = "completed" <=> /\ \E c \in K : StateIn(r, c) = "completed"
                           /\ \A c \in K : StateIn(r, c) \in {"abandoned", "completed"}
     /\ s = "merged"    <=> /\ \E c \in K : StateIn(r, c) \notin {"abandoned", "completed"}
                           /\ \A c \in K : taskClosed(r, c)
     /\ s = "ready"     <=> \A c \in K : StateIn(r, c) \in {"draft", "ready"}

\* r has still to move q.
Waits(r, q) == \E i \in 1..Len(r.stack) : r.stack[i][1] = q

\* The last move of q that r has still to make is to what the table says of q.
Due(r, q) ==
  \E i \in 1..Len(r.stack) :
    /\ r.stack[i] = <<q, containerTarget(r, q)>>
    /\ \A j \in 1..Len(r.stack) : r.stack[j][1] = q => j <= i

Settled(r, q) == Due(r, q) \/ (TableIn(r, q) /\ ~Waits(r, q))

\* x is above t, by one edge or by two.
Above(r, x, t) ==
  \/ <<t, x>> \in EdgesIn(r)
  \/ \E z \in Tasks : <<t, z>> \in EdgesIn(r) /\ <<z, x>> \in EdgesIn(r)

\* The stack goes up: a task on it is the tasks below it or above them.
Upward(r) ==
  \A i, j \in 1..Len(r.stack) : i < j =>
    r.stack[i][1] = r.stack[j][1] \/ Above(r, r.stack[i][1], r.stack[j][1])

Rolling(r) ==
  /\ Upward(r)
  /\ \A t, q \in Tasks : Changed(r, t) /\ <<t, q>> \in EdgesIn(r) => Settled(r, q)

RollInv == ~raced => \A p \in Clients :
             tx[p].alone /\ tx[p].at = "open" => Rolling(tx[p])

-----------------------------------------------------------------------------
(* What the table says *)

LEMMA TargetIsTable ==
  ASSUME NEW r, NEW q, StateIn(r, q) = containerTarget(r, q)
  PROVE  TableIn(r, q)
<1> DEFINE K == Children(r, q)
           s == StateIn(r, q)
           Is(S) == \A c \in K : StateIn(r, c) \in S
           AllClosed == \A c \in K : taskClosed(r, c)
<1>1. s = IF Is({"abandoned"}) THEN "abandoned"
          ELSE IF Is({"abandoned", "completed"}) THEN "completed"
          ELSE IF AllClosed THEN "merged"
          ELSE IF Is({"draft", "ready"}) THEN "ready" ELSE "in_progress"
  BY DEF containerTarget
<1>2. \A c \in K : /\ StateIn(r, c) \in {"abandoned", "completed"} => taskClosed(r, c)
                   /\ StateIn(r, c) \in {"draft", "ready"} => ~taskClosed(r, c)
  BY DEF taskClosed
<1> HIDE DEF K, s
<1>3. K = {} \/ /\ s = "abandoned" <=> \A c \in K : StateIn(r, c) = "abandoned"
                /\ s = "completed" <=> /\ \E c \in K : StateIn(r, c) = "completed"
                                      /\ \A c \in K : StateIn(r, c) \in {"abandoned", "completed"}
                /\ s = "merged"    <=> /\ \E c \in K : StateIn(r, c) \notin {"abandoned", "completed"}
                                      /\ AllClosed
                /\ s = "ready"     <=> \A c \in K : StateIn(r, c) \in {"draft", "ready"}
  <2>1. CASE Is({"abandoned"})
    BY <1>1, <2>1
  <2>2. CASE ~Is({"abandoned"}) /\ Is({"abandoned", "completed"})
    BY <1>1, <2>2
  <2>3. CASE ~Is({"abandoned", "completed"}) /\ AllClosed
    BY <1>1, <1>2, <2>3
  <2>4. CASE ~Is({"abandoned", "completed"}) /\ ~AllClosed /\ Is({"draft", "ready"})
    BY <1>1, <1>2, <2>4
  <2>5. CASE ~Is({"abandoned", "completed"}) /\ ~AllClosed /\ ~Is({"draft", "ready"})
    BY <1>1, <1>2, <2>5
  <2> QED BY <2>1, <2>2, <2>3, <2>4, <2>5
<1> QED BY <1>3 DEF TableIn, K, s

\* The moves a roll-up stacks end where the table has the parent; it stacks none
\* only when the parent is there, or is none of the table's business.
LEMMA FollowRolls ==
  ASSUME NEW r \in Transactions, r.at = "open", NEW q \in Tasks, StateIn(r, q) \in States
  PROVE  \/ Follow(r, q).at = "refused"
         \/ \E m \in Seq(Tasks \X States) :
              /\ Follow(r, q) = [r EXCEPT !.stack = m \o @]
              /\ \A i \in 1..Len(m) : m[i][1] = q
              /\ \/ m = <<>> /\ TableIn(r, q)
                 \/ Len(m) \in 1..Len(m) /\ m[Len(m)] = <<q, containerTarget(r, q)>>
<1> DEFINE target == containerTarget(r, q)
           s == StateIn(r, q)
           m == ResolveHierarchy(r, q)
<1>1. target \in {"abandoned", "completed", "merged", "ready", "in_progress"}
  BY DEF containerTarget
<1>2. \/ m = <<>> /\ (GoneIn(r, q) \/ s = "draft" \/ Children(r, q) = {} \/ target = s
                      \/ (<<s, target>> \notin legalTransitions /\ <<s, "ready">> \notin legalTransitions))
      \/ m = <<<<q, target>>>>
      \/ m = <<<<q, "ready">>, <<q, target>>>>
  BY DEF ResolveHierarchy
<1>3. /\ m \in Seq(Tasks \X States)
      /\ \A i \in 1..Len(m) : m[i][1] = q
  BY ResolveMoves
<1>4. Follow(r, q) = IF m # <<>> /\ s \in containerForbiddenStates
                     THEN [r EXCEPT !.at = "refused"] ELSE [r EXCEPT !.stack = m \o @]
  BY DEF Follow
<1>5. [r EXCEPT !.at = "refused"].at = "refused"
  BY DEF Transactions
<1> HIDE DEF m
<1>6. m = <<>> => TableIn(r, q)
  <2> SUFFICES ASSUME m = <<>> PROVE TableIn(r, q)
    OBVIOUS
  <2>0. <<>> # <<<<q, target>>>> /\ <<>> # <<<<q, "ready">>, <<q, target>>>>
    OBVIOUS
  <2>1. CASE GoneIn(r, q) \/ s = "draft" \/ Children(r, q) = {}
    BY <2>1 DEF TableIn
  <2>2. CASE target = s
    BY <2>2, TargetIsTable
  <2>3. CASE target # s /\ <<s, target>> \notin legalTransitions /\ <<s, "ready">> \notin legalTransitions
    <3> HIDE DEF target, s
    <3>1. s \in States
      BY DEF s
    <3>2. s \in {"draft", "in_review"}
      BY <1>1, <2>3, <3>1 DEF legalTransitions, openStates, reopenableStates, States
    <3> QED BY <3>2 DEF TableIn, s
  <2> QED BY <1>2, <2>0, <2>1, <2>2, <2>3
<1>7. m # <<>> => Len(m) \in 1..Len(m) /\ m[Len(m)] = <<q, target>>
  <2> HIDE DEF target
  <2>1. CASE m = <<<<q, target>>>>
    BY <2>1
  <2>2. CASE m = <<<<q, "ready">>, <<q, target>>>>
    BY <2>2
  <2> QED BY <1>2, <2>1, <2>2
<1> QED BY <1>3, <1>4, <1>5, <1>6, <1>7

\* What r sees does not depend on what it has still to do.
LEMMA SameView ==
  ASSUME NEW r, NEW s, s.at = r.at, s.t = r.t, s.flip = r.flip, s.land = r.land,
         s.kids = r.kids, s.ov = r.ov
  PROVE  /\ EdgesIn(s) = EdgesIn(r)
         /\ \A t : StateIn(s, t) = StateIn(r, t) /\ (GoneIn(s, t) <=> GoneIn(r, t))
                   /\ Children(s, t) = Children(r, t)
                   /\ containerTarget(s, t) = containerTarget(r, t)
                   /\ (TableIn(s, t) <=> TableIn(r, t)) /\ (Changed(s, t) <=> Changed(r, t))
<1>1. EdgesIn(s) = EdgesIn(r) /\ GatedIn(s) = GatedIn(r)
  BY DEF EdgesIn, GatedIn
<1>2. \A t : StateIn(s, t) = StateIn(r, t) /\ (GoneIn(s, t) <=> GoneIn(r, t))
             /\ (Changed(s, t) <=> Changed(r, t))
  BY DEF StateIn, GoneIn, Changed
<1>3. \A t : Children(s, t) = Children(r, t)
  BY <1>1, <1>2 DEF Children
<1>4. \A t : taskClosed(s, t) <=> taskClosed(r, t)
  BY <1>1, <1>2, <1>3 DEF taskClosed
<1> SUFFICES ASSUME NEW t
             PROVE  /\ containerTarget(s, t) = containerTarget(r, t)
                    /\ (TableIn(s, t) <=> TableIn(r, t))
  BY <1>1, <1>2, <1>3
<1>5. {StateIn(s, c) : c \in Children(s, t)} = {StateIn(r, c) : c \in Children(r, t)}
  BY <1>2, <1>3
<1>6. (\A c \in Children(s, t) : taskClosed(s, c)) <=> (\A c \in Children(r, t) : taskClosed(r, c))
  BY <1>3, <1>4
<1>7. containerTarget(s, t) = containerTarget(r, t)
  BY <1>5, <1>6 DEF containerTarget
<1>8. TableIn(s, t) <=> TableIn(r, t)
  BY <1>2, <1>3, <1>4, Zenon DEF TableIn
<1> QED BY <1>7, <1>8

-----------------------------------------------------------------------------
(* The roll-up of one write *)

\* Of the edges a transaction sees, each is between tasks that exist and no two
\* go up from one task.
LEMMA EdgesSeen ==
  ASSUME IInv, NEW r \in Transactions, TxGrounded(r), r.at = "open"
  PROVE  /\ \A t, q : <<t, q>> \in EdgesIn(r) => t \in Tasks /\ q \in Tasks /\ StateIn(r, q) \in States
         /\ \A t, q, u : <<t, q>> \in EdgesIn(r) /\ <<t, u>> \in EdgesIn(r) => q = u
<1>1. /\ EdgesIn(r) = up \union (r.kids \X {r.t}) /\ r.kids \subseteq Tasks
      /\ r.t \in Tasks /\ state[r.t] # "none" /\ \A c \in r.kids : state[c] = "none"
      /\ r.ov \in [Tasks -> States \union {None}] /\ state \in [Tasks -> States \union {"none"}]
  BY DEF EdgesIn, TxGrounded, Transactions, IInv, TypeOK
<1>2. \A t, q : <<t, q>> \in up => /\ t \in Tasks /\ state[t] # "none"
                                  /\ q \in Tasks /\ state[q] # "none"
  BY DEF IInv, TypeOK
<1>3. \A q \in Tasks : state[q] # "none" => StateIn(r, q) \in States
  BY <1>1 DEF StateIn
<1>4. \A t, q, u : <<t, q>> \in up /\ <<t, u>> \in up => q = u
  BY <1>2 DEF IInv, OneParent, parentOf, EdgesIn, NoTx
<1> QED BY <1>1, <1>2, <1>3, <1>4

\* resolveParent, which finds the one parent there is.
LEMMA ParentFound ==
  ASSUME NEW r, NEW t, NEW q \in Tasks, <<t, q>> \in EdgesIn(r),
         \A u : <<t, u>> \in EdgesIn(r) => u = q
  PROVE  resolveParent(r, t) = Follow(r, q)
<1>1. parentOf(r, t) = {q}
  BY DEF parentOf
<1> QED BY <1>1 DEF resolveParent

LEMMA NoParent ==
  ASSUME NEW r, NEW t, \A q \in Tasks : <<t, q>> \notin EdgesIn(r)
  PROVE  resolveParent(r, t) = r
<1>1. parentOf(r, t) = {}
  BY DEF parentOf
<1> QED BY <1>1 DEF resolveParent

\* Once a roll-up has stacked its moves of q, q is settled too.
LEMMA StackRolls ==
  ASSUME NEW r \in Transactions, Upward(r), NEW q \in Tasks,
         \A i \in 1..Len(r.stack) : r.stack[i][1] # q /\ Above(r, q, r.stack[i][1]),
         \A t, u \in Tasks : Changed(r, t) /\ <<t, u>> \in EdgesIn(r) /\ u # q => Settled(r, u),
         NEW m \in Seq(Tasks \X States), \A i \in 1..Len(m) : m[i][1] = q,
         \/ m = <<>> /\ TableIn(r, q)
         \/ Len(m) \in 1..Len(m) /\ m[Len(m)] = <<q, containerTarget(r, q)>>
  PROVE  Rolling([r EXCEPT !.stack = m \o @])
<1> DEFINE k == m \o r.stack
           s == [r EXCEPT !.stack = k]
<1>1. r.stack \in Seq(Tasks \X States) /\ Len(m) \in Nat /\ Len(r.stack) \in Nat
  BY LenProperties DEF Transactions
<1>2. /\ Len(k) = Len(m) + Len(r.stack)
      /\ \A i \in 1..Len(m) + Len(r.stack) :
           k[i] = IF i <= Len(m) THEN m[i] ELSE r.stack[i - Len(m)]
  BY <1>1, ConcatProperties
<1> HIDE DEF k
<1>3. /\ s.at = r.at /\ s.t = r.t /\ s.flip = r.flip /\ s.land = r.land
      /\ s.kids = r.kids /\ s.ov = r.ov /\ s.stack = k
  BY DEF Transactions
<1> HIDE DEF s
<1>4. /\ EdgesIn(s) = EdgesIn(r)
      /\ \A t : /\ containerTarget(s, t) = containerTarget(r, t)
                /\ (TableIn(s, t) <=> TableIn(r, t)) /\ (Changed(s, t) <=> Changed(r, t))
  BY <1>3, SameView
<1>5. \A i \in 1..Len(k) : IF i <= Len(m) THEN i \in 1..Len(m) /\ k[i] = m[i]
                           ELSE i - Len(m) \in 1..Len(r.stack) /\ k[i] = r.stack[i - Len(m)]
  BY <1>1, <1>2
<1>6. ASSUME NEW j \in 1..Len(r.stack)
      PROVE  j + Len(m) \in 1..Len(k) /\ k[j + Len(m)] = r.stack[j]
  <2>1. j + Len(m) \in 1..Len(k) /\ ~(j + Len(m) <= Len(m)) /\ (j + Len(m)) - Len(m) = j
    BY <1>1, <1>2
  <2> QED BY <1>5, <2>1
<1>7. Upward(s)
  <2> SUFFICES ASSUME NEW i \in 1..Len(k), NEW j \in 1..Len(k), i < j
               PROVE  k[i][1] = k[j][1] \/ Above(r, k[i][1], k[j][1])
    BY <1>3, <1>4 DEF Upward, Above
  <2>1. CASE j <= Len(m)
    BY <1>1, <1>2, <1>5, <2>1
  <2>2. CASE i <= Len(m) /\ j > Len(m)
    <3>1. k[i][1] = q
      BY <1>5, <2>2
    <3>2. j - Len(m) \in 1..Len(r.stack) /\ k[j] = r.stack[j - Len(m)]
      BY <1>1, <1>2, <1>5, <2>2
    <3> QED BY <3>1, <3>2
  <2>3. CASE i > Len(m)
    <3>1. /\ i - Len(m) \in 1..Len(r.stack) /\ k[i] = r.stack[i - Len(m)]
          /\ j - Len(m) \in 1..Len(r.stack) /\ k[j] = r.stack[j - Len(m)]
          /\ i - Len(m) < j - Len(m)
      BY <1>1, <1>2, <1>5, <2>3
    <3> QED BY <3>1 DEF Upward
  <2> QED BY <1>1, <1>2, <2>1, <2>2, <2>3
<1>8. Settled(s, q)
  <2>1. CASE m = <<>> /\ TableIn(r, q)
    <3>1. ~Waits(s, q)
      <4>1. Len(m) = 0
        BY <2>1
      <4> QED BY <1>1, <1>3, <1>5, <4>1 DEF Waits
    <3> QED BY <1>4, <2>1, <3>1 DEF Settled
  <2>2. CASE Len(m) \in 1..Len(m) /\ m[Len(m)] = <<q, containerTarget(r, q)>>
    <3>1. Len(m) \in 1..Len(k) /\ k[Len(m)] = <<q, containerTarget(s, q)>>
      BY <1>1, <1>2, <1>4, <2>2
    <3>2. \A j \in 1..Len(k) : k[j][1] = q => j <= Len(m)
      <4> SUFFICES ASSUME NEW j \in 1..Len(k), k[j][1] = q, ~(j <= Len(m)) PROVE FALSE
        OBVIOUS
      <4>1. j - Len(m) \in 1..Len(r.stack) /\ k[j] = r.stack[j - Len(m)]
        BY <1>5
      <4> QED BY <4>1
    <3> QED BY <1>3, <3>1, <3>2 DEF Due, Settled
  <2> QED BY <2>1, <2>2
<1>9. ASSUME NEW u \in Tasks, u # q, Settled(r, u) PROVE Settled(s, u)
  <2>1. CASE Due(r, u)
    <3>1. PICK i \in 1..Len(r.stack) :
            /\ r.stack[i] = <<u, containerTarget(r, u)>>
            /\ \A j \in 1..Len(r.stack) : r.stack[j][1] = u => j <= i
      BY <2>1 DEF Due
    <3>2. i + Len(m) \in 1..Len(k) /\ k[i + Len(m)] = <<u, containerTarget(s, u)>>
      BY <1>4, <1>6, <3>1
    <3>3. \A j \in 1..Len(k) : k[j][1] = u => j <= i + Len(m)
      <4> SUFFICES ASSUME NEW j \in 1..Len(k), k[j][1] = u PROVE j <= i + Len(m)
        OBVIOUS
      <4>1. CASE j <= Len(m)
        <5>1. k[j] = m[j] /\ m[j][1] = q
          BY <1>5, <4>1
        <5> QED BY <1>9, <5>1
      <4>2. CASE j > Len(m)
        <5>1. j - Len(m) \in 1..Len(r.stack) /\ k[j] = r.stack[j - Len(m)]
          BY <1>1, <1>2, <1>5, <4>2
        <5>2. j - Len(m) <= i
          BY <3>1, <5>1
        <5> QED BY <1>1, <5>2
      <4> QED BY <1>1, <1>2, <4>1, <4>2
    <3> QED BY <1>3, <3>2, <3>3 DEF Due, Settled
  <2>2. CASE TableIn(r, u) /\ ~Waits(r, u)
    <3>1. ASSUME NEW j \in 1..Len(k), k[j][1] = u PROVE FALSE
      <4>1. CASE j <= Len(m)
        <5>1. k[j] = m[j] /\ m[j][1] = q
          BY <1>5, <4>1
        <5> QED BY <1>9, <3>1, <5>1
      <4>2. CASE ~(j <= Len(m))
        <5>1. j - Len(m) \in 1..Len(r.stack) /\ k[j] = r.stack[j - Len(m)]
          BY <1>5, <4>2
        <5> QED BY <2>2, <3>1, <5>1 DEF Waits
      <4> QED BY <4>1, <4>2
    <3> QED BY <1>3, <1>4, <2>2, <3>1 DEF Waits, Settled
  <2> QED BY <1>9, <2>1, <2>2 DEF Settled
<1>10. \A t, u \in Tasks : Changed(s, t) /\ <<t, u>> \in EdgesIn(s) => Settled(s, u)
  <2> SUFFICES ASSUME NEW t \in Tasks, NEW u \in Tasks, Changed(s, t), <<t, u>> \in EdgesIn(s)
               PROVE  Settled(s, u)
    OBVIOUS
  <2>1. Changed(r, t) /\ <<t, u>> \in EdgesIn(r)
    BY <1>4
  <2> QED BY <1>8, <1>9, <2>1
<1> QED BY <1>7, <1>10 DEF Rolling, s, k

\* A move of x, less the roll-up it calls, unsettles the parent of x alone.
LEMMA MoveUnsettles ==
  ASSUME NEW r \in Transactions, Rolling(r), Forested(EdgesIn(r)),
         \A t, q : <<t, q>> \in EdgesIn(r) => t \in Tasks /\ q \in Tasks,
         NEW s \in Transactions, NEW x \in Tasks, NEW to \in States,
         s.at = r.at, s.t = r.t, s.flip = r.flip, s.land = r.land, s.kids = r.kids,
         \A c \in Tasks : s.ov[c] = IF c = x THEN to ELSE r.ov[c],
         r.stack # <<>>, Head(r.stack) = <<x, to>>, s.stack = Tail(r.stack)
  PROVE  /\ Upward(s) /\ EdgesIn(s) = EdgesIn(r)
         /\ \A i \in 1..Len(s.stack) : s.stack[i][1] = x \/ Above(s, x, s.stack[i][1])
         /\ \A t, u \in Tasks : Changed(s, t) /\ <<t, u>> \in EdgesIn(s) /\ <<x, u>> \notin EdgesIn(s)
                                  => Settled(s, u)
<1> DEFINE k == r.stack
<1>1. /\ k \in Seq(Tasks \X States) /\ Len(k) \in Nat /\ 1 \in 1..Len(k) /\ k[1] = <<x, to>>
      /\ Len(s.stack) = Len(k) - 1
      /\ \A i \in 1..Len(s.stack) : s.stack[i] = k[i + 1] /\ i + 1 \in 1..Len(k)
  BY HeadTailProperties, LenProperties DEF Transactions
<1>2. EdgesIn(s) = EdgesIn(r)
  BY DEF EdgesIn
<1>3. /\ \A t \in Tasks : t # x => StateIn(s, t) = StateIn(r, t) /\ (Changed(s, t) <=> Changed(r, t))
      /\ \A t : GoneIn(s, t) <=> GoneIn(r, t)
      /\ StateIn(s, x) = to
  <2>1. to # None
    BY NoneAssumption
  <2> QED BY <2>1 DEF StateIn, GoneIn, Changed
<1>4. \A u \in Tasks : Children(s, u) = Children(r, u)
  BY <1>2, <1>3 DEF Children
<1>5. ASSUME NEW u \in Tasks, <<x, u>> \notin EdgesIn(r)
      PROVE  {StateIn(s, c) : c \in Children(s, u)} = {StateIn(r, c) : c \in Children(r, u)}
  <2>1. \A c \in Children(r, u) : c \in Tasks /\ c # x
    BY <1>5 DEF Children
  <2> QED BY <1>3, <1>4, <2>1
<1>11. ASSUME NEW u \in Tasks, <<x, u>> \notin EdgesIn(r), NEW c \in Children(r, u)
       PROVE  c # x /\ StateIn(s, c) = StateIn(r, c) /\ (taskClosed(s, c) <=> taskClosed(r, c))
  <2>1. c \in Tasks /\ c # x
    BY <1>11 DEF Children
  <2>2. GatedIn(s) = GatedIn(r)
    BY DEF GatedIn
  <2> QED BY <1>3, <1>4, <2>1, <2>2 DEF taskClosed
<1>12. \A u \in Tasks : <<x, u>> \notin EdgesIn(r) =>
         ((\A c \in Children(s, u) : taskClosed(s, c)) <=> (\A c \in Children(r, u) : taskClosed(r, c)))
  BY <1>4, <1>11
<1>6. \A u \in Tasks : <<x, u>> \notin EdgesIn(r) => containerTarget(s, u) = containerTarget(r, u)
  BY <1>5, <1>12 DEF containerTarget
<1>7. ASSUME NEW u \in Tasks, <<x, u>> \notin EdgesIn(r), u # x, TableIn(r, u)
      PROVE  TableIn(s, u)
  <2>1. StateIn(s, u) = StateIn(r, u) /\ (GoneIn(s, u) <=> GoneIn(r, u))
    BY <1>3, <1>7
  <2>2. Children(s, u) = Children(r, u)
    BY <1>4
  <2>3. \A c \in Children(r, u) : StateIn(s, c) = StateIn(r, c) /\ (taskClosed(s, c) <=> taskClosed(r, c))
    BY <1>7, <1>11
  <2> QED BY <1>7, <2>1, <2>2, <2>3, Zenon DEF TableIn
<1>8. Upward(s)
  <2> SUFFICES ASSUME NEW i \in 1..Len(s.stack), NEW j \in 1..Len(s.stack), i < j
               PROVE  s.stack[i][1] = s.stack[j][1] \/ Above(r, s.stack[i][1], s.stack[j][1])
    BY <1>2 DEF Upward, Above
  <2>1. i + 1 \in 1..Len(k) /\ j + 1 \in 1..Len(k) /\ i + 1 < j + 1
    BY <1>1
  <2> QED BY <1>1, <2>1 DEF Rolling, Upward
<1>9. \A i \in 1..Len(s.stack) : s.stack[i][1] = x \/ Above(s, x, s.stack[i][1])
  <2> SUFFICES ASSUME NEW i \in 1..Len(s.stack)
               PROVE  s.stack[i][1] = x \/ Above(r, x, s.stack[i][1])
    BY <1>2 DEF Above
  <2>1. i + 1 \in 1..Len(k) /\ 1 < i + 1 /\ s.stack[i] = k[i + 1] /\ k[1][1] = x
    BY <1>1
  <2> QED BY <1>1, <2>1 DEF Rolling, Upward
<1>10. ASSUME NEW t \in Tasks, NEW u \in Tasks, Changed(s, t), <<t, u>> \in EdgesIn(s),
              <<x, u>> \notin EdgesIn(s)
       PROVE  Settled(s, u)
  <2>1. t # x /\ Changed(r, t) /\ <<t, u>> \in EdgesIn(r) /\ <<x, u>> \notin EdgesIn(r)
    BY <1>2, <1>3, <1>10
  <2>2. Settled(r, u) /\ containerTarget(s, u) = containerTarget(r, u)
    BY <1>6, <2>1 DEF Rolling
  <2>3. CASE Due(r, u)
    <3>1. PICK i \in 1..Len(k) :
            k[i] = <<u, containerTarget(r, u)>> /\ \A j \in 1..Len(k) : k[j][1] = u => j <= i
      BY <2>3 DEF Due
    <3>2. CASE i = 1
      <4>1. u = x /\ to = containerTarget(r, u)
        BY <1>1, <3>1, <3>2
      <4>2. TableIn(s, u)
        BY <1>3, <2>2, <4>1, TargetIsTable
      <4>3. ~Waits(s, u)
        <5> SUFFICES ASSUME NEW j \in 1..Len(s.stack), s.stack[j][1] = u PROVE FALSE
          BY DEF Waits
        <5>1. j + 1 \in 1..Len(k) /\ k[j + 1][1] = u /\ j \in Nat /\ j >= 1
          BY <1>1
        <5>2. j + 1 <= 1
          BY <3>1, <3>2, <5>1
        <5> QED BY <5>1, <5>2
      <4> QED BY <4>2, <4>3 DEF Settled
    <3>3. CASE i # 1
      <4>1. i - 1 \in 1..Len(s.stack) /\ (i - 1) + 1 = i
        BY <1>1, <3>3
      <4>2. s.stack[i - 1] = <<u, containerTarget(s, u)>>
        BY <1>1, <2>2, <3>1, <4>1
      <4>3. \A j \in 1..Len(s.stack) : s.stack[j][1] = u => j <= i - 1
        <5> SUFFICES ASSUME NEW j \in 1..Len(s.stack), s.stack[j][1] = u PROVE j <= i - 1
          OBVIOUS
        <5>1. j + 1 \in 1..Len(k) /\ k[j + 1][1] = u
          BY <1>1
        <5>2. j + 1 <= i
          BY <3>1, <5>1
        <5> QED BY <5>2
      <4> QED BY <4>1, <4>2, <4>3 DEF Due, Settled
    <3> QED BY <3>2, <3>3
  <2>4. CASE TableIn(r, u) /\ ~Waits(r, u)
    <3>1. u # x
      BY <1>1, <2>4 DEF Waits
    <3>2. TableIn(s, u)
      BY <1>7, <2>1, <2>4, <3>1
    <3>3. ~Waits(s, u)
      BY <1>1, <2>4 DEF Waits
    <3> QED BY <3>2, <3>3 DEF Settled
  <2> QED BY <2>2, <2>3, <2>4 DEF Settled
<1> QED BY <1>2, <1>8, <1>9, <1>10

\* resolveParent, after a write that has unsettled the parent of x alone.
LEMMA ParentRolls ==
  ASSUME IInv, NEW r \in Transactions, TxGrounded(r), r.at = "open", NEW x \in Tasks,
         Upward(r),
         \A q \in Tasks : <<x, q>> \in EdgesIn(r) =>
           \A i \in 1..Len(r.stack) : r.stack[i][1] # q /\ Above(r, q, r.stack[i][1]),
         \A t, u \in Tasks : Changed(r, t) /\ <<t, u>> \in EdgesIn(r) /\ <<x, u>> \notin EdgesIn(r)
                               => Settled(r, u)
  PROVE  resolveParent(r, x).at = "refused" \/ Rolling(resolveParent(r, x))
<1>1. /\ \A t, q : <<t, q>> \in EdgesIn(r) => t \in Tasks /\ q \in Tasks /\ StateIn(r, q) \in States
      /\ \A t, q, u : <<t, q>> \in EdgesIn(r) /\ <<t, u>> \in EdgesIn(r) => q = u
  BY EdgesSeen
<1>2. CASE \A q \in Tasks : <<x, q>> \notin EdgesIn(r)
  <2>1. resolveParent(r, x) = r
    BY <1>2, NoParent
  <2>2. Rolling(r)
    BY <1>2 DEF Rolling
  <2> QED BY <2>1, <2>2
<1>3. ASSUME NEW q \in Tasks, <<x, q>> \in EdgesIn(r)
      PROVE  resolveParent(r, x).at = "refused" \/ Rolling(resolveParent(r, x))
  <2>1. resolveParent(r, x) = Follow(r, q) /\ StateIn(r, q) \in States
    BY <1>1, <1>3, ParentFound
  <2>2. \A t, u \in Tasks : Changed(r, t) /\ <<t, u>> \in EdgesIn(r) /\ u # q => Settled(r, u)
    BY <1>1, <1>3
  <2>3. \A i \in 1..Len(r.stack) : r.stack[i][1] # q /\ Above(r, q, r.stack[i][1])
    BY <1>3
  <2>4. CASE Follow(r, q).at = "refused"
    BY <2>1, <2>4
  <2>5. CASE Follow(r, q).at # "refused"
    <3>1. PICK m \in Seq(Tasks \X States) :
            /\ Follow(r, q) = [r EXCEPT !.stack = m \o @]
            /\ \A i \in 1..Len(m) : m[i][1] = q
            /\ \/ m = <<>> /\ TableIn(r, q)
               \/ Len(m) \in 1..Len(m) /\ m[Len(m)] = <<q, containerTarget(r, q)>>
      BY <2>1, <2>5, FollowRolls
    <3>2. Rolling([r EXCEPT !.stack = m \o @])
      BY <2>2, <2>3, <3>1, StackRolls
    <3> QED BY <2>1, <3>1, <3>2
  <2> QED BY <2>4, <2>5
<1> QED BY <1>2, <1>3

LEMMA LockRolls ==
  ASSUME IInv, Forested(up), NEW s, NEW t \in Tasks, Locked(s, t)
  PROVE  s.at = "refused" \/ Rolling(s)
<1>1. PICK r \in Transactions :
        /\ s = resolveParent(r, t) /\ TxGrounded(r) /\ r.at = "open" /\ r.t = t
        /\ r.kids = {} /\ \A i \in 1..Len(r.stack) : r.stack[i][1] = t
        /\ \A c \in Tasks : r.ov[c] # None => c = t
  BY DEF Locked
<1>2. EdgesIn(r) = up
  BY <1>1 DEF EdgesIn
<1>3. Upward(r)
  BY <1>1 DEF Upward
<1>4. \A u \in Tasks : Changed(r, u) => u = t
  BY <1>1 DEF Changed
<1>5. \A q \in Tasks : <<t, q>> \in EdgesIn(r) =>
        \A i \in 1..Len(r.stack) : r.stack[i][1] # q /\ Above(r, q, r.stack[i][1])
  BY <1>1, <1>2 DEF Above, Forested
<1> QED BY <1>1, <1>3, <1>4, <1>5, ParentRolls

LEMMA SplitRolls ==
  ASSUME IInv, NEW s, NEW t \in Tasks, NEW K \in SUBSET Tasks, Split(s, t, K)
  PROVE  s.at = "refused" \/ Rolling(s)
<1>1. PICK r \in Transactions :
        /\ s = Follow(r, t) /\ TxGrounded(r) /\ r.at = "open" /\ r.t = t
        /\ r.kids = K /\ ~r.flip /\ r.stack = <<>>
        /\ \A c \in Tasks : r.ov[c] # None => c \in K
  BY DEF Split
<1>2. Len(r.stack) = 0
  BY <1>1
<1>3. Upward(r)
  BY <1>2 DEF Upward
<1>4. StateIn(r, t) \in States
  BY <1>1 DEF StateIn, TxGrounded, Transactions, IInv, TypeOK
<1>5. \A c, u \in Tasks : Changed(r, c) /\ <<c, u>> \in EdgesIn(r) => u = t
  <2>1. \A c \in K, u \in Tasks : <<c, u>> \notin up
    BY <1>1 DEF TxGrounded, IInv, TypeOK
  <2>2. \A c \in Tasks : Changed(r, c) => c \in K
    BY <1>1 DEF Changed
  <2> QED BY <1>1, <2>1, <2>2 DEF EdgesIn
<1>6. CASE s.at # "refused"
  <2>1. PICK m \in Seq(Tasks \X States) :
          /\ s = [r EXCEPT !.stack = m \o @]
          /\ \A i \in 1..Len(m) : m[i][1] = t
          /\ \/ m = <<>> /\ TableIn(r, t)
             \/ Len(m) \in 1..Len(m) /\ m[Len(m)] = <<t, containerTarget(r, t)>>
    BY <1>1, <1>4, <1>6, FollowRolls
  <2>2. \A i \in 1..Len(r.stack) : r.stack[i][1] # t /\ Above(r, t, r.stack[i][1])
    BY <1>2
  <2> QED BY <1>3, <1>5, <2>1, <2>2, StackRolls
<1> QED BY <1>6

LEMMA WriteRolls ==
  ASSUME IInv, NEW u \in Transactions, TxGrounded(u), u.at = "open", Rolling(u),
         Forested(EdgesIn(u)), NEW s, Wrote(s, u)
  PROVE  s.at = "refused" \/ Rolling(s)
<1> DEFINE m == Head(u.stack)
           x == m[1]
<1>1. PICK r \in Transactions :
        /\ s = resolveParent(r, x) /\ TxGrounded(r) /\ r.at = "open"
        /\ r.t = u.t /\ r.kids = u.kids /\ r.flip = u.flip /\ r.land = u.land
        /\ u.stack # <<>> /\ m \in Tasks \X States /\ r.stack = Tail(u.stack)
        /\ \A c \in Tasks : r.ov[c] = IF c = x THEN m[2] ELSE u.ov[c]
  BY DEF Wrote
<1>2. x \in Tasks /\ m[2] \in States /\ m = <<x, m[2]>>
  BY <1>1
<1>3. \A t, q : <<t, q>> \in EdgesIn(u) => t \in Tasks /\ q \in Tasks
  BY EdgesSeen
<1> HIDE DEF m
<1>4. /\ Upward(r) /\ EdgesIn(r) = EdgesIn(u)
      /\ \A i \in 1..Len(r.stack) : r.stack[i][1] = x \/ Above(r, x, r.stack[i][1])
      /\ \A t, q \in Tasks : Changed(r, t) /\ <<t, q>> \in EdgesIn(r) /\ <<x, q>> \notin EdgesIn(r)
                               => Settled(r, q)
  <2>1. Head(u.stack) = <<x, m[2]>>
    BY <1>2 DEF m
  <2>2. /\ r.at = u.at /\ r.t = u.t /\ r.flip = u.flip /\ r.land = u.land /\ r.kids = u.kids
        /\ \A c \in Tasks : r.ov[c] = IF c = x THEN m[2] ELSE u.ov[c]
        /\ u.stack # <<>> /\ r.stack = Tail(u.stack)
    BY <1>1
  <2> HIDE DEF x
  <2> QED BY <1>2, <1>3, <2>1, <2>2, MoveUnsettles
<1> HIDE DEF x
<1>5. ASSUME NEW q \in Tasks, <<x, q>> \in EdgesIn(r), NEW i \in 1..Len(r.stack)
      PROVE  r.stack[i][1] # q /\ Above(r, q, r.stack[i][1])
  <2> DEFINE w == r.stack[i][1]
  <2>1. w \in Tasks
    <3>1. r.stack \in Seq(Tasks \X States)
      BY DEF Transactions
    <3>2. r.stack[i] \in Tasks \X States
      BY <3>1, ElementOfSeq
    <3> QED BY <3>2
  <2>2. w = x \/ Above(r, x, w)
    BY <1>4
  <2> HIDE DEF w
  <2>3. Forested(EdgesIn(r))
    BY <1>4
  <2>4. w # q /\ Above(r, q, w)
    BY <1>2, <1>5, <2>1, <2>2, <2>3 DEF Above, Forested
  <2> QED BY <2>4 DEF w
<1> QED BY <1>1, <1>2, <1>4, <1>5, ParentRolls

-----------------------------------------------------------------------------
(* The roll-up, while no two transactions overlap *)

\* Rolling is about what a transaction sees and has to do, not about its lease.
LEMMA RollsOn ==
  ASSUME UNCHANGED rows, NEW p \in Clients, NEW s, Rolling(s),
         tx'[p].at = s.at, tx'[p].t = s.t, tx'[p].flip = s.flip, tx'[p].land = s.land,
         tx'[p].kids = s.kids, tx'[p].ov = s.ov, tx'[p].stack = s.stack
  PROVE  Rolling(tx[p])'
<1>0. UNCHANGED <<state, deleted, gated, up>>
  BY DEF rows
<1>1. EdgesIn(tx[p])' = EdgesIn(s) /\ GatedIn(tx[p])' = GatedIn(s)
  BY <1>0 DEF EdgesIn, GatedIn
<1>2. \A t : /\ StateIn(tx[p], t)' = StateIn(s, t) /\ (GoneIn(tx[p], t)' <=> GoneIn(s, t))
             /\ (Changed(tx[p], t)' <=> Changed(s, t)) /\ (Waits(tx[p], t)' <=> Waits(s, t))
  BY <1>0 DEF StateIn, GoneIn, Changed, Waits
<1>6. \A t : Children(tx[p], t)' = Children(s, t)
  BY <1>1, <1>2 DEF Children
<1>7. \A t : taskClosed(tx[p], t)' <=> taskClosed(s, t)
  BY <1>1, <1>2, <1>6 DEF taskClosed
<1>3. ASSUME NEW q PROVE Settled(tx[p], q)' <=> Settled(s, q)
  <2>1. Children(tx[p], q)' = Children(s, q)
    BY <1>6
  <2>2. {StateIn(tx[p], c) : c \in Children(tx[p], q)}' = {StateIn(s, c) : c \in Children(s, q)}
    BY <1>2, <2>1
  <2>6. (\A c \in Children(tx[p], q) : taskClosed(tx[p], c))'
           <=> (\A c \in Children(s, q) : taskClosed(s, c))
    BY <1>7, <2>1
  <2>3. containerTarget(tx[p], q)' = containerTarget(s, q)
    BY <2>2, <2>6 DEF containerTarget
  <2>4. TableIn(tx[p], q)' <=> TableIn(s, q)
    BY <1>2, <1>7, <2>1, Zenon DEF TableIn
  <2>5. Due(tx[p], q)' <=> Due(s, q)
    BY <2>3 DEF Due
  <2> QED BY <1>2, <2>4, <2>5 DEF Settled
<1>4. \A x, t : Above(tx[p], x, t)' <=> Above(s, x, t)
  BY <1>1 DEF Above
<1>5. Upward(tx[p])'
  BY <1>4 DEF Upward, Rolling
<1> QED BY <1>1, <1>2, <1>3, <1>5 DEF Rolling

LEMMA OpenRoll ==
  ASSUME IInv, NEW p \in Clients, NEW s \in Transactions, Open(p, s), UNCHANGED rows,
         ~raced /\ s.at = "open" => Rolling(s)
  PROVE  RollInv'
<1> DEFINE b == \A o \in Clients \ {p} : Idle(o)
<1>1. tx' = [q \in Clients |-> IF q = p THEN [s EXCEPT !.alone = b]
                              ELSE [tx[q] EXCEPT !.alone = FALSE]]
  BY DEF Open
<1>2. tx \in [Clients -> Transactions]
  BY DEF IInv, TypeOK
<1>3. tx'[p] = [s EXCEPT !.alone = b]
  BY <1>1
<1> HIDE DEF b
<1>4. /\ tx'[p].at = s.at /\ tx'[p].t = s.t /\ tx'[p].flip = s.flip
      /\ tx'[p].land = s.land /\ tx'[p].kids = s.kids /\ tx'[p].ov = s.ov /\ tx'[p].stack = s.stack
  BY <1>3 DEF Transactions
<1>5. \A q \in Clients \ {p} : ~tx'[q].alone
  BY <1>1, <1>2 DEF Transactions
<1>6. ~raced /\ s.at = "open" => Rolling(tx[p])'
  BY <1>4, RollsOn
<1>7. raced' = raced
  BY DEF rows
<1> QED BY <1>4, <1>5, <1>6, <1>7 DEF RollInv

LEMMA GotoRoll ==
  ASSUME IInv, ForestInv, NEW p \in Clients, NEW s, Goto(p, s), UNCHANGED rows, ~Idle(p),
         ~raced /\ s.alone /\ s.at = "open" => Rolling(s)
  PROVE  RollInv'
<1>1. tx'[p] = s /\ \A q \in Clients \ {p} : tx'[q] = tx[q]
  BY DEF Goto, IInv, TypeOK
<1>2. \A q \in Clients \ {p} : ~tx'[q].alone
  BY <1>1 DEF ForestInv, Solitude
<1>3. ~raced /\ s.alone /\ s.at = "open" => Rolling(tx[p])'
  BY <1>1, RollsOn
<1>4. raced' = raced
  BY DEF rows
<1> QED BY <1>1, <1>2, <1>3, <1>4 DEF RollInv

LEMMA GoneRoll ==
  ASSUME IInv, ForestInv, NEW p \in Clients, Goto(p, NoTx), ~Idle(p)
  PROVE  RollInv'
<1>1. tx'[p] = NoTx /\ \A q \in Clients \ {p} : tx'[q] = tx[q]
  BY GoneExclusive
<1>2. \A q \in Clients : ~tx'[q].alone
  BY <1>1 DEF ForestInv, Solitude, NoTx
<1> QED BY <1>2 DEF RollInv

LEMMA WriteRoll ==
  ASSUME IInv, ForestInv, RollInv, NEW p \in Clients, Write(p)
  PROVE  RollInv'
<1>1. PICK s \in Transactions :
        /\ Goto(p, s) /\ UNCHANGED rows /\ s.at \in {"open", "refused"}
        /\ s.alone = tx[p].alone /\ tx[p].at = "open" /\ Wrote(s, tx[p])
  BY WriteShape
<1>2. ASSUME ~raced, s.alone, s.at = "open" PROVE Rolling(s)
  <2>1. tx[p] \in Transactions /\ TxGrounded(tx[p])
    BY DEF IInv, TypeOK, Grounded
  <2>2. Rolling(tx[p]) /\ Plants(tx[p])
    BY <1>1, <1>2 DEF RollInv, ForestInv
  <2>3. Forested(EdgesIn(tx[p]))
    BY <1>1, <2>2 DEF EdgesIn, Plants
  <2> QED BY <1>1, <1>2, <2>1, <2>2, <2>3, WriteRolls
<1> QED BY <1>1, <1>2, GotoRoll DEF Idle

LEMMA BeginMoveRoll ==
  ASSUME IInv, NEW p \in Clients, NEW t \in Tasks, NEW to \in States,
         NEW lease \in {"keep", "end"}, NEW land \in {"keep", "clear"},
         BeginMove(p, t, to, lease, land)
  PROVE  RollInv'
<1> DEFINE m == <<<<t, to>>>>
           s == [NoTx EXCEPT !.at = "open", !.t = t, !.lease = lease, !.land = land,
                             !.stack = m]
<1>1. m \in Seq(Tasks \X States) /\ Len(m) = 1 /\ Open(p, s) /\ UNCHANGED rows
  BY DEF BeginMove
<1> HIDE DEF m
<1>2. s \in Transactions /\ s.stack = m /\ ~s.flip /\ \A c \in Tasks : s.ov[c] = None
  BY <1>1 DEF NoTx, Transactions
<1> HIDE DEF s
<1>3. Upward(s)
  <2>1. Len(s.stack) = 1
    BY <1>1, <1>2
  <2> QED BY <2>1 DEF Upward
<1>4. Rolling(s)
  BY <1>2, <1>3 DEF Rolling, Changed
<1> QED BY <1>1, <1>2, <1>4, OpenRoll

LEMMA LockRoll ==
  ASSUME IInv, ForestInv, NEW p \in Clients, NEW t \in Tasks, NEW to \in States,
         NEW hard \in BOOLEAN, NEW flip \in BOOLEAN, NEW lease \in {"keep", "take", "end"},
         Lock(p, t, to, hard, lease, flip), to = "draft" => state[t] = "draft"
  PROVE  RollInv'
<1>1. PICK s \in Transactions : Open(p, s) /\ UNCHANGED rows /\ Locked(s, t)
  BY LockShape
<1>2. ~raced /\ s.at = "open" => Rolling(s)
  BY <1>1, LockRolls DEF ForestInv
<1> QED BY <1>1, <1>2, OpenRoll

LEMMA DeliveryRoll ==
  ASSUME IInv, ForestInv, NEW p \in Clients, NEW t \in Tasks, NEW d \in Deliveries(t),
         NEW land \in {"keep", "gate"}, ResolveDelivery(p, t, d, land)
  PROVE  RollInv'
<1>1. PICK s \in Transactions : Open(p, s) /\ UNCHANGED rows /\ Locked(s, t)
  BY DeliveryShape
<1>2. ~raced /\ s.at = "open" => Rolling(s)
  BY <1>1, LockRolls DEF ForestInv
<1> QED BY <1>1, <1>2, OpenRoll

\* A step that opens and ends at once leaves no transaction alone.
LEMMA OnceRoll ==
  ASSUME IInv, NEW p \in Clients, Open(p, NoTx)
  PROVE  RollInv'
<1>1. tx \in [Clients -> Transactions]
  BY DEF IInv, TypeOK
<1>2. tx'[p].at = "idle" /\ \A q \in Clients \ {p} : ~tx'[q].alone
  BY <1>1 DEF Open, NoTx, Transactions
<1> QED BY <1>2 DEF RollInv

LEMMA FactsChangeRoll ==
  ASSUME IInv, NEW p \in Clients, NEW t \in Tasks, FactsChange(p, t)
  PROVE  RollInv'
BY OnceRoll DEF FactsChange

LEMMA RequestRoll ==
  ASSUME IInv, ForestInv, RollInv, NEW p \in Clients, Request(p)
  PROVE  RollInv'
<1>1. ASSUME NEW t \in Tasks, NEW to \in States, finishTask(p, t, to) PROVE RollInv'
  BY <1>1, BeginMoveRoll DEF finishTask
<1>2. ASSUME NEW t \in Tasks, applyPullRequest(p, t) PROVE RollInv'
  BY <1>2, Moves, BeginMoveRoll DEF applyPullRequest
<1>3. ASSUME NEW t \in Tasks, closeLease(p, t) PROVE RollInv'
  <2>1. CASE state[t] = "in_progress"
    BY <1>3, <2>1, BeginMoveRoll DEF closeLease, States
  <2>2. CASE state[t] # "in_progress"
    <3>1. UNCHANGED <<state, deleted, gated, up, raced, tx>>
      BY <1>3, <2>2 DEF closeLease
    <3>2. \A q \in Clients : Rolling(tx[q])' <=> Rolling(tx[q])
      BY <3>1 DEF Rolling, Upward, Above, Settled, Due, Waits, TableIn, Changed,
                  containerTarget, taskClosed, GatedIn, Children, StateIn, GoneIn, EdgesIn
    <3> QED BY <3>1, <3>2 DEF RollInv
  <2> QED BY <2>1, <2>2
<1>4. ASSUME NEW t \in Tasks, NEW to \in States, updateTask(p, t, to) PROVE RollInv'
  BY <1>4, Moves, LockRoll DEF updateTask
<1>5. ASSUME NEW t \in Tasks, Claim(p, t) PROVE RollInv'
  BY <1>5, LockRoll DEF Claim, States
<1>6. ASSUME NEW t \in Tasks, NEW d \in Deliveries(t), NEW land \in {"keep", "gate"},
             ResolveDelivery(p, t, d, land)
      PROVE  RollInv'
  BY <1>6, DeliveryRoll
<1>0. ASSUME NEW t \in Tasks, FactsChange(p, t) PROVE RollInv'
  BY <1>0, FactsChangeRoll
<1>7. ASSUME NEW t \in Tasks, DeleteTask(p, t) PROVE RollInv'
  <2> DEFINE to == IF state[t] = "in_progress" THEN "ready" ELSE state[t]
  <2>1. Lock(p, t, to, TRUE, "end", TRUE) /\ state[t] # "none"
    BY <1>7 DEF DeleteTask, Lock
  <2>2. to \in States /\ (to = "draft" => state[t] = "draft")
    BY <2>1 DEF IInv, TypeOK, States
  <2> HIDE DEF to
  <2> QED BY <2>1, <2>2, LockRoll
<1>8. ASSUME NEW t \in Tasks, UndeleteTask(p, t) PROVE RollInv'
  <2>1. Lock(p, t, state[t], TRUE, "keep", TRUE) /\ state[t] \in States
    BY <1>8 DEF UndeleteTask, Lock, IInv, TypeOK
  <2> QED BY <2>1, LockRoll
<1>9. ASSUME NEW c \in Tasks, NEW q \in Tasks, AddEdge(p, c, q) PROVE RollInv'
  <2> DEFINE s == [NoTx EXCEPT !.at = "edge", !.t = q, !.kids = {c}]
  <2>1. Open(p, s) /\ UNCHANGED rows /\ s \in Transactions /\ s.at = "edge"
    BY <1>9, NoTxGrounded DEF AddEdge, NoTx, Transactions
  <2> HIDE DEF s
  <2> QED BY <2>1, OpenRoll
<1>10. ASSUME NEW e \in up, RemoveEdge(p, e) PROVE RollInv'
  BY <1>10, OnceRoll DEF RemoveEdge
<1>11. ASSUME NEW t \in Tasks, NEW K \in SUBSET Unallocated, Decompose(p, t, K) PROVE RollInv'
  <2>1. PICK s \in Transactions : Open(p, s) /\ UNCHANGED rows /\ Split(s, t, K)
    BY <1>11, DecomposeShape
  <2>2. s.at = "open" => Rolling(s)
    BY <2>1, SplitRolls, FreshAssumption DEF Unallocated
  <2> QED BY <2>1, <2>2, OpenRoll
<1> QED BY <1>0, <1>1, <1>2, <1>3, <1>4, <1>5, <1>6, <1>7, <1>8, <1>9, <1>10, <1>11 DEF Request

LEMMA RollNext == IInv /\ ForestInv /\ RollInv /\ [Next]_vars => RollInv'
<1> SUFFICES ASSUME IInv, ForestInv, RollInv, [Next]_vars PROVE RollInv'
  OBVIOUS
<1>1. CASE UNCHANGED vars
  <2>1. UNCHANGED <<rows, tx>> /\ raced' = raced
    BY <1>1 DEF vars, rows
  <2>2. \A q \in Clients : Rolling(tx[q]) => Rolling(tx[q])'
    BY <2>1, RollsOn
  <2> QED BY <2>1, <2>2 DEF RollInv
<1>2. ASSUME NEW p \in Clients, Rollback(p) \/ EdgeCommit(p) \/ Commit(p) PROVE RollInv'
  BY <1>2, GoneRoll DEF Rollback, EdgeCommit, Commit, Idle
<1>3. ASSUME NEW p \in Clients, Step(p) PROVE RollInv'
  BY <1>2, <1>3, WriteRoll DEF Step
<1>4. ASSUME NEW p \in Clients, Request(p) PROVE RollInv'
  BY <1>4, RequestRoll
<1> QED BY <1>1, <1>3, <1>4 DEF Next

LEMMA RollInit == Init => RollInv
BY DEF Init, RollInv, NoTx

\* What a settled parent's row says once its transaction has committed.
LEMMA CommitTable ==
  ASSUME IInv, NEW p \in Clients, Commit(p), NEW q \in Tasks, TableIn(tx[p], q)
  PROVE  TableSays(q)'
<1>1. /\ \A t \in Tasks : state'[t] = StateIn(tx[p], t) /\ (deleted'[t] <=> GoneIn(tx[p], t))
      /\ up' = EdgesIn(tx[p]) /\ gated' = GatedIn(tx[p])
  BY DEF Commit
<1>2. \A t : Children(NoTx, t)' = Children(tx[p], t)
  <2>1. EdgesIn(NoTx)' = EdgesIn(tx[p])
    BY <1>1 DEF EdgesIn, NoTx
  <2>2. deleted' \in [Tasks -> BOOLEAN] /\ ~NoTx.flip
    BY DEF Commit, GoneIn, NoTx
  <2>3. \A c \in Tasks : GoneIn(NoTx, c)' <=> deleted'[c]
    BY <2>2 DEF GoneIn
  <2> QED BY <1>1, <2>1, <2>3 DEF Children
<1>3. \A c \in Tasks : taskClosed(NoTx, c)' <=> taskClosed(tx[p], c)
  <2>1. \A c \in Tasks : NoTx.ov[c] = None
    BY DEF NoTx
  <2>2. \A c \in Tasks : StateIn(NoTx, c)' = state'[c]
    BY <2>1 DEF StateIn
  <2>3. GatedIn(NoTx)' = gated'
    BY DEF GatedIn, NoTx
  <2> QED BY <1>1, <1>2, <2>2, <2>3 DEF taskClosed
<1>4. Children(tx[p], q) \subseteq Tasks
  BY DEF Children
<1>5. \A c \in Children(tx[p], q) : state'[c] = StateIn(tx[p], c) /\ (taskClosed(NoTx, c)' <=> taskClosed(tx[p], c))
  BY <1>1, <1>3, <1>4
<1>6. Children(NoTx, q)' = Children(tx[p], q)
  BY <1>2
<1> QED BY <1>1, <1>5, <1>6, Zenon DEF TableIn, TableSays

\* A transaction that no other overlaps leaves the parent of every task it moves,
\* deletes, restores or creates as the roll-up table has it, and the parent's
\* parent, by way of ready where the state machine asks for it.
THEOREM RollUpReachesTable == Spec => RolledUpAlone
<1> DEFINE A(p) == \A t \in Tasks :
             Commit(p) /\ tx[p].alone /\ ~raced /\ t \in Moved(p)
               => \A q \in Tasks : <<t, q>> \in up' => TableSays(q)'
<1>1. ASSUME IInv, RollInv, NEW p \in Clients PROVE A(p)
  <2> SUFFICES ASSUME NEW t \in Tasks, Commit(p), tx[p].alone, ~raced, t \in Moved(p),
                      NEW q \in Tasks, <<t, q>> \in up'
               PROVE  TableSays(q)'
    OBVIOUS
  <2>1. /\ tx[p].at = "open" /\ Len(tx[p].stack) = 0 /\ Rolling(tx[p])
        /\ <<t, q>> \in EdgesIn(tx[p]) /\ Changed(tx[p], t)
    BY <1>1 DEF Commit, RollInv, Moved, Changed
  <2>2. TableIn(tx[p], q)
    BY <2>1 DEF Rolling, Settled, Due
  <2> QED BY <1>1, <2>2, CommitTable
<1>2. IInv /\ RollInv => \A p \in Clients : A(p)
  BY <1>1
<1>3. IInv /\ RollInv => [\A p \in Clients : A(p)]_vars
  BY <1>2
<1> QED BY <1>3, InitInv, NextInv, ForestInit, ForestNext, RollInit, RollNext, PTL
        DEF Spec, RolledUpAlone
=============================================================================

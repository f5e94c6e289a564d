------------------------- MODULE PullApprovalProofs -------------------------
(***************************************************************************)
(* What the lock on the pull request's row and the conditions of the       *)
(* UPDATEs buy, for every number of heads, deliveries, reviews, deciders   *)
(* and requirements filed by hand: a rebinding meets the unique key only   *)
(* through a requirement filed for the same head, a re-request takes back  *)
(* no decision, and no decision is overwritten but by a GitHub review that *)
(* had read the row open; while none is, one row at most of those that     *)
(* nobody filed is open and no push leaves its head unbound.               *)
(***************************************************************************)
EXTENDS PullApproval, FiniteSetTheorems, WellFoundedInduction, TLAPS

\* A row that binds this head has been filed by hand.
OnlyFiled(h) == \A i \in Ids : rows[i].rev = h => rows[i].filed

\* One delivery holds the lock, and while it is about to rebind, only rows filed
\* by hand bind its head.
LockHeld ==
    /\ \A t, u \in ptx : t = u
    /\ \A t \in ptx : t.outcome = "rebind" => OnlyFiled(t.d.head)

PullInv == TypeOK /\ LockHeld

USE PullApprovalAssumption
    DEF Heads, NoHead, Revs, Actors, Open, Decided, Verdicts, PRKinds, Outcomes

-----------------------------------------------------------------------------
\* A function on the ids of a sequence of rows, with rows as values, is again
\* a sequence of rows, with the same ids.
LEMMA MappedRows ==
    ASSUME NEW s \in Seq(Row), NEW r \in [DOMAIN s -> Row]
    PROVE  r \in Seq(Row) /\ DOMAIN r = DOMAIN s
<1>1. DOMAIN s = 1..Len(s) /\ Len(s) \in Nat
  OBVIOUS
<1> QED BY <1>1

\* Every write of a row keeps the rows a sequence of rows and loses no id.
LEMMA Inserted ==
    ASSUME TypeOK, NEW h \in Revs, NEW f \in BOOLEAN
    PROVE  /\ InsertAwaiting(h, f) \in Seq(Row)
           /\ Ids \subseteq DOMAIN InsertAwaiting(h, f)
           /\ \A i \in Ids : InsertAwaiting(h, f)[i] = rows[i]
           /\ \A i \in DOMAIN InsertAwaiting(h, f) \ Ids :
                 /\ InsertAwaiting(h, f)[i].rev = h /\ InsertAwaiting(h, f)[i].filed = f
                 /\ i = Len(rows) + 1
<1>1. rows \in Seq(Row) BY DEF TypeOK
<1>2. CASE Bound(h) BY <1>1, <1>2 DEF InsertAwaiting, Ids
<1>3. CASE ~Bound(h)
  <2> DEFINE r == [rev |-> h, state |-> "awaiting", by |-> Nobody, crossed |-> FALSE,
                   filed |-> f]
  <2>1. r \in Row BY DEF Row
  <2>2. InsertAwaiting(h, f) = Append(rows, r) BY <1>3 DEF InsertAwaiting
  <2>4. r.rev = h /\ r.filed = f OBVIOUS
  <2> HIDE DEF r
  <2>3. /\ Append(rows, r) \in Seq(Row) /\ DOMAIN Append(rows, r) = 1..(Len(rows) + 1)
        /\ Ids = 1..Len(rows) /\ Len(rows) \in Nat
        /\ Append(rows, r)[Len(rows) + 1] = r
        /\ \A i \in 1..Len(rows) : Append(rows, r)[i] = rows[i]
    BY <1>1, <2>1 DEF Ids
  <2> QED BY <2>2, <2>3, <2>4
<1> QED BY <1>2, <1>3

\* A row of a delivery, and one that is filed.
LEMMA DeliveryInserts ==
    ASSUME TypeOK, NEW h \in Revs
    PROVE  /\ InsertAwaiting(h, FALSE) \in Seq(Row)
           /\ Ids \subseteq DOMAIN InsertAwaiting(h, FALSE)
           /\ \A i \in Ids : InsertAwaiting(h, FALSE)[i] = rows[i]
<1>1. PICK f \in BOOLEAN : f = FALSE OBVIOUS
<1>2. /\ InsertAwaiting(h, f) \in Seq(Row) /\ Ids \subseteq DOMAIN InsertAwaiting(h, f)
      /\ \A i \in Ids : InsertAwaiting(h, f)[i] = rows[i]
  BY ONLY TypeOK, h \in Revs, Inserted
<1> QED BY ONLY <1>1, <1>2

LEMMA FilingInserts ==
    ASSUME TypeOK, NEW h \in Revs
    PROVE  /\ InsertAwaiting(h, TRUE) \in Seq(Row)
           /\ Ids \subseteq DOMAIN InsertAwaiting(h, TRUE)
           /\ \A i \in Ids : InsertAwaiting(h, TRUE)[i] = rows[i]
           /\ \A i \in DOMAIN InsertAwaiting(h, TRUE) \ Ids : InsertAwaiting(h, TRUE)[i].filed
<1>1. PICK f \in BOOLEAN : f = TRUE OBVIOUS
<1>2. /\ InsertAwaiting(h, f) \in Seq(Row) /\ Ids \subseteq DOMAIN InsertAwaiting(h, f)
      /\ \A i \in Ids : InsertAwaiting(h, f)[i] = rows[i]
      /\ \A i \in DOMAIN InsertAwaiting(h, f) \ Ids : InsertAwaiting(h, f)[i].filed = f
  BY ONLY TypeOK, h \in Revs, Inserted
<1> QED BY ONLY <1>1, <1>2

LEMMA Reopened ==
    ASSUME TypeOK, NEW ids
    PROVE  /\ ReopenApproval(ids) \in Seq(Row) /\ DOMAIN ReopenApproval(ids) = Ids
           /\ \A i \in Ids : ReopenApproval(ids)[i].rev = rows[i].rev
           /\ \A i \in Ids : rows[i].state \in Decided => ReopenApproval(ids)[i] = rows[i]
           /\ \A i \in Ids : ReopenApproval(ids)[i].crossed = rows[i].crossed
           /\ \A i \in Ids : ReopenApproval(ids)[i].filed = rows[i].filed
<1>1. rows \in Seq(Row) /\ \A i \in Ids : rows[i] \in Row BY DEF TypeOK, Ids
<1>2. ReopenApproval(ids) \in [DOMAIN rows -> Row]
  BY <1>1 DEF ReopenApproval, Ids, Row
<1>3. \A i \in Ids : ReopenApproval(ids)[i].rev = rows[i].rev
  BY <1>1 DEF ReopenApproval, Ids, Row
<1>4. \A i \in Ids : rows[i].state \in Decided => ReopenApproval(ids)[i] = rows[i]
  BY <1>1 DEF ReopenApproval, Ids, Row
<1>5. \A i \in Ids : /\ ReopenApproval(ids)[i].crossed = rows[i].crossed
                     /\ ReopenApproval(ids)[i].filed = rows[i].filed
  BY <1>1 DEF ReopenApproval, Ids, Row
<1> QED BY <1>1, <1>2, <1>3, <1>4, <1>5, MappedRows DEF Ids

LEMMA Rebound ==
    ASSUME TypeOK, NEW ids, NEW h \in Heads
    PROVE  /\ Rebind(ids, h) \in Seq(Row) /\ DOMAIN Rebind(ids, h) = Ids
           /\ \A i \in Ids : Rebind(ids, h)[i].rev = IF i \in ids THEN h ELSE rows[i].rev
           /\ \A i \in Ids : Rebind(ids, h)[i].state = rows[i].state
           /\ \A i \in Ids : Rebind(ids, h)[i].by = rows[i].by
           /\ \A i \in Ids : Rebind(ids, h)[i].crossed = rows[i].crossed
           /\ \A i \in Ids : Rebind(ids, h)[i].filed = rows[i].filed
<1>1. rows \in Seq(Row) /\ \A i \in Ids : rows[i] \in Row BY DEF TypeOK, Ids
<1>2. Rebind(ids, h) \in [DOMAIN rows -> Row] BY <1>1 DEF Rebind, Ids, Row
<1>3. \A i \in Ids : Rebind(ids, h)[i].rev = IF i \in ids THEN h ELSE rows[i].rev
  BY <1>1 DEF Rebind, Ids, Row
<1>4. \A i \in Ids : /\ Rebind(ids, h)[i].state = rows[i].state
                     /\ Rebind(ids, h)[i].by = rows[i].by
                     /\ Rebind(ids, h)[i].crossed = rows[i].crossed
                     /\ Rebind(ids, h)[i].filed = rows[i].filed
  BY <1>1 DEF Rebind, Ids, Row
<1> QED BY <1>1, <1>2, <1>3, <1>4, MappedRows DEF Ids

LEMMA Resolved ==
    ASSUME TypeOK, NEW k \in Ids, NEW st \in Open \cup Decided, NEW who \in Actors
    PROVE  /\ ResolveApproval(k, st, who) \in Seq(Row)
           /\ DOMAIN ResolveApproval(k, st, who) = Ids
           /\ \A i \in Ids : ResolveApproval(k, st, who)[i].rev = rows[i].rev
           /\ \A i \in Ids : ResolveApproval(k, st, who)[i].filed = rows[i].filed
           /\ \A i \in Ids \ {k} : ResolveApproval(k, st, who)[i] = rows[i]
           /\ ResolveApproval(k, st, who)[k].state = st
           /\ ResolveApproval(k, st, who)[k].by = who
           /\ ResolveApproval(k, st, who)[k].crossed =
                 (rows[k].crossed \/ rows[k].state \in Decided)
<1> DEFINE r == ResolveApproval(k, st, who)
           w == [rev |-> rows[k].rev, state |-> st, by |-> who,
                 crossed |-> rows[k].crossed \/ rows[k].state \in Decided,
                 filed |-> rows[k].filed]
<1>1. rows \in Seq(Row) /\ \A i \in Ids : rows[i] \in Row BY DEF TypeOK, Ids
<1>2. r = [i \in Ids |-> IF i = k THEN w ELSE rows[i]]
  BY <1>1 DEF ResolveApproval, Ids
<1>3. /\ w \in Row /\ w.rev = rows[k].rev /\ w.state = st /\ w.by = who
      /\ w.filed = rows[k].filed
      /\ w.crossed = (rows[k].crossed \/ rows[k].state \in Decided)
  <2>1. (rows[k].crossed \/ rows[k].state \in Decided) \in BOOLEAN OBVIOUS
  <2>2. rows[k].rev \in Revs /\ rows[k].filed \in BOOLEAN BY <1>1 DEF Row
  <2> QED BY <2>1, <2>2 DEF Row
<1> HIDE DEF r, w
<1>4. r \in [DOMAIN rows -> Row] BY <1>1, <1>2, <1>3 DEF Ids
<1>5. r \in Seq(Row) /\ DOMAIN r = Ids BY <1>1, <1>4, MappedRows DEF Ids
<1>6. /\ \A i \in Ids : r[i].rev = rows[i].rev
      /\ \A i \in Ids : r[i].filed = rows[i].filed
      /\ \A i \in Ids \ {k} : r[i] = rows[i]
      /\ r[k].state = st /\ r[k].by = who
      /\ r[k].crossed = (rows[k].crossed \/ rows[k].state \in Decided)
  BY <1>2, <1>3
<1> QED BY <1>5, <1>6 DEF r

-----------------------------------------------------------------------------
LEMMA PullInit == Init => PullInv
<1> SUFFICES ASSUME Init PROVE PullInv OBVIOUS
<1>1. TypeOK
  BY DEF Init, TypeOK, Delivery, Row
<1>2. LockHeld BY DEF Init, LockHeld
<1> QED BY <1>1, <1>2 DEF PullInv

\* GitHub's steps touch neither the rows nor the transactions.
LEMMA SendKeeps ==
    ASSUME PullInv, NEW k \in PRKinds \cup Verdicts, NEW h \in Heads, Send(k, h),
           gh' \in [head : Heads, pushes : Nat, asks : Nat, reviews : Nat]
    PROVE  PullInv'
<1>1. [kind |-> k, head |-> h, stamp |-> Sent + 1] \in Delivery
  BY DEF PullInv, TypeOK, Delivery, Sent
<1>2. TypeOK' BY <1>1 DEF PullInv, TypeOK, Send, Ids
<1>3. LockHeld'
  BY DEF PullInv, LockHeld, OnlyFiled, Send, Ids
<1> QED BY <1>2, <1>3 DEF PullInv

\* The end of a delivery: whatever it wrote has kept the ids, and nobody holds the
\* lock after it.
LEMMA CommitKeeps ==
    ASSUME PullInv, NEW t \in ptx, Commit(t), rows' \in Seq(Row), Ids \subseteq Ids'
    PROVE  PullInv'
<1>1. ptx' = {} BY DEF Commit, PullInv, LockHeld
<1>2. t.d \in Delivery BY DEF PullInv, TypeOK
<1>3. pr' \in [head : Heads, stamp : Nat, late : BOOLEAN] BY <1>2 DEF Commit, PullInv, TypeOK, Delivery
<1>4. rtx' \subseteq [d : Delivery, id : Ids'] /\ \A x \in rtx' : x.d.kind \in Verdicts
  BY DEF Commit, PullInv, TypeOK
<1>5. page' \in [Deciders -> Ids' \cup {0}]
  BY DEF Commit, PullInv, TypeOK
<1>6. wire' \subseteq Delivery /\ gh' \in [head : Heads, pushes : Nat, asks : Nat, reviews : Nat]
  BY DEF Commit, PullInv, TypeOK
<1>7. TypeOK' BY <1>1, <1>3, <1>4, <1>5, <1>6 DEF TypeOK
<1>8. LockHeld' BY <1>1 DEF LockHeld
<1> QED BY <1>7, <1>8 DEF PullInv

\* A decision changes neither an id nor a revision; what is filed by hand may add
\* an id.
LEMMA DecisionKeeps ==
    ASSUME PullInv, rows' \in Seq(Row), Ids \subseteq Ids', UNCHANGED <<gh, pr, ptx>>,
           \A i \in Ids : rows'[i].rev = rows[i].rev /\ rows'[i].filed = rows[i].filed,
           \A i \in Ids' \ Ids : rows'[i].filed,
           wire' \subseteq wire, rtx' \subseteq rtx,
           page' \in [Deciders -> Ids \cup {0}]
    PROVE  PullInv'
<1>1. TypeOK'
  <2>1. ptx' \subseteq [d : Delivery, open : SUBSET Ids', outcome : Outcomes, again : BOOLEAN]
    BY DEF PullInv, TypeOK
  <2>2. rtx' \subseteq [d : Delivery, id : Ids'] /\ \A x \in rtx' : x.d.kind \in Verdicts
    BY DEF PullInv, TypeOK
  <2>3. page' \in [Deciders -> Ids' \cup {0}] OBVIOUS
  <2> QED BY <2>1, <2>2, <2>3 DEF PullInv, TypeOK
<1>2. \A h : OnlyFiled(h) => OnlyFiled(h)' BY DEF OnlyFiled
<1>3. LockHeld' BY <1>2 DEF PullInv, LockHeld
<1> QED BY <1>1, <1>3 DEF PullInv

-----------------------------------------------------------------------------
LEMMA PullStep == PullInv /\ [Next]_vars => PullInv'
<1> SUFFICES ASSUME PullInv, [Next]_vars PROVE PullInv' OBVIOUS
<1>0. /\ TypeOK /\ LockHeld
      /\ rows \in Seq(Row) /\ \A i \in Ids : rows[i] \in Row
  BY DEF PullInv, TypeOK, Ids
<1>1. ASSUME NEW h \in Heads, Push(h) PROVE PullInv'
  <2>0. gh \in [head : Heads, pushes : Nat, asks : Nat, reviews : Nat]
    BY <1>0 DEF TypeOK
  <2>1. gh' \in [head : Heads, pushes : Nat, asks : Nat, reviews : Nat]
    <3> DEFINE g == [gh EXCEPT !.head = h]
    <3> HIDE DEF Heads
    <3>1. g \in [head : Heads, pushes : Nat, asks : Nat, reviews : Nat] BY <2>0
    <3>2. gh' = [g EXCEPT !.pushes = gh.pushes + 1] BY <1>1 DEF Push
    <3>3. gh.pushes + 1 \in Nat BY <2>0
    <3> HIDE DEF g
    <3> QED BY <3>1, <3>2, <3>3
  <2>2. Send("synchronize", h) /\ "synchronize" \in PRKinds \cup Verdicts
    BY <1>1 DEF Push
  <2> QED BY ONLY PullInv, <2>1, <2>2, SendKeeps
<1>2. ASSUME NEW k \in {"opened", "review_requested"}, AskAgain(k) PROVE PullInv'
  <2>0. gh \in [head : Heads, pushes : Nat, asks : Nat, reviews : Nat]
    BY <1>0 DEF TypeOK
  <2>1. gh' \in [head : Heads, pushes : Nat, asks : Nat, reviews : Nat] /\ gh.head \in Heads
    <3>1. gh' = [gh EXCEPT !.asks = @ + 1] BY <1>2 DEF AskAgain
    <3> HIDE DEF Heads
    <3> QED BY <2>0, <3>1
  <2>2. Send(k, gh.head) /\ k \in PRKinds \cup Verdicts
    BY <1>2 DEF AskAgain
  <2> QED BY ONLY PullInv, <2>1, <2>2, SendKeeps
<1>3. ASSUME NEW v \in Verdicts, SubmitReview(v) PROVE PullInv'
  <2>1. gh' \in [head : Heads, pushes : Nat, asks : Nat, reviews : Nat] /\ gh.head \in Heads
    BY <1>0, <1>3 DEF SubmitReview, TypeOK
  <2>2. Send(v, gh.head) /\ v \in PRKinds \cup Verdicts
    BY <1>3 DEF SubmitReview
  <2> QED BY ONLY PullInv, <2>1, <2>2, SendKeeps
<1>4. ASSUME NEW d \in wire, BeginDelivery(d) PROVE PullInv'
  <2> DEFINE t == [d |-> d, open |-> OpenRow, outcome |-> "unread",
                   again |-> \E i \in OpenRow : rows[i].state = "changes_requested"]
  <2>1. ptx' = {t} /\ UNCHANGED <<gh, wire, pr, rows, rtx, page>>
    BY <1>4 DEF BeginDelivery
  <2>2. OpenRow \subseteq Ids BY DEF OpenRow, OpenIds
  <2>3. t \in [d : Delivery, open : SUBSET Ids, outcome : Outcomes, again : BOOLEAN]
    BY <1>0, <2>2 DEF TypeOK
  <2>4. t.open = OpenRow /\ t.outcome = "unread" OBVIOUS
  <2> HIDE DEF t
  <2>5. TypeOK' BY <1>0, <2>1, <2>3 DEF TypeOK, Ids
  <2>6. LockHeld' BY <2>1, <2>4 DEF LockHeld
  <2> QED BY <2>5, <2>6 DEF PullInv
<1>5. ASSUME NEW d \in wire, ReviewIgnored(d) PROVE PullInv'
  BY <1>0, <1>5, DecisionKeeps DEF ReviewIgnored, TypeOK, Ids
<1>6. ASSUME NEW d \in wire, BeginReview(d) PROVE PullInv'
  <2>1. PICK i \in OpenRow : rtx' = rtx \cup {[d |-> d, id |-> i]}
    BY <1>6 DEF BeginReview
  <2>2. [d |-> d, id |-> i] \in [d : Delivery, id : Ids]
    BY <1>0, <2>1 DEF TypeOK, OpenRow, OpenIds
  <2>3. TypeOK' BY <1>0, <1>6, <2>1, <2>2 DEF TypeOK, Ids, BeginReview
  <2>4. LockHeld'
    BY <1>0, <1>6 DEF BeginReview, LockHeld, OnlyFiled, Ids
  <2> QED BY <2>3, <2>4 DEF PullInv
<1>7. ASSUME NEW t \in ptx, ApplyOpened(t) PROVE PullInv'
  <2>1. t.d.head \in Revs BY <1>0 DEF TypeOK, Delivery
  <2>2. rows' \in Seq(Row) /\ Ids \subseteq Ids'
    BY <1>0, <1>7, <2>1, Inserted DEF ApplyOpened, Ids
  <2> QED BY <1>7, <2>2, CommitKeeps DEF ApplyOpened
<1>8. ASSUME NEW t \in ptx, ApplyRequested(t) PROVE PullInv'
  <2>1. rows' = rows \/ rows' = ReopenApproval(t.open) BY <1>8 DEF ApplyRequested
  <2>2. rows' \in Seq(Row) /\ Ids' = Ids BY <1>0, <2>1, Reopened DEF Ids
  <2> QED BY <1>8, <2>2, CommitKeeps DEF ApplyRequested
<1>9. ASSUME NEW t \in ptx, ReadHistory(t) PROVE PullInv'
  <2> DEFINE o == OnNewRevision(t.open, HasDecided, Bound(t.d.head))
             u == [t EXCEPT !.outcome = o]
  <2>1. o \in Outcomes /\ (o = "rebind" => OnlyFiled(t.d.head))
    BY DEF OnNewRevision, Bound, OnlyFiled
  <2>2. t \in [d : Delivery, open : SUBSET Ids, outcome : Outcomes, again : BOOLEAN]
    BY <1>0 DEF TypeOK
  <2> HIDE DEF o
  <2>3. /\ u \in [d : Delivery, open : SUBSET Ids, outcome : Outcomes, again : BOOLEAN]
        /\ u.d = t.d /\ u.open = t.open /\ u.outcome = o
    BY <2>1, <2>2
  <2>4. ptx' = {u} /\ UNCHANGED <<gh, wire, pr, rows, rtx, page>>
    BY <1>0, <1>9 DEF ReadHistory, LockHeld, o
  <2> HIDE DEF u
  <2>5. TypeOK' BY <1>0, <2>3, <2>4 DEF TypeOK, Ids
  <2>6. LockHeld' BY <1>0, <2>1, <2>3, <2>4 DEF LockHeld, OnlyFiled, Ids
  <2> QED BY <2>5, <2>6 DEF PullInv
<1>10. ASSUME NEW t \in ptx, ApplySynchronize(t) PROVE PullInv'
  <2>1. t.d.head \in Heads BY <1>0 DEF TypeOK, Delivery
  <2>2. \/ rows' = Rebind(t.open, t.d.head) \/ rows' = InsertAwaiting(t.d.head, FALSE)
        \/ rows' = rows
    BY <1>10 DEF ApplySynchronize
  <2>3. rows' \in Seq(Row) /\ Ids \subseteq Ids'
    <3>1. CASE rows' = InsertAwaiting(t.d.head, FALSE)
      BY <1>0, <2>1, <3>1, DeliveryInserts DEF Ids
    <3>2. CASE rows' = Rebind(t.open, t.d.head) BY <1>0, <2>1, <3>2, Rebound DEF Ids
    <3> QED BY <1>0, <2>2, <3>1, <3>2 DEF Ids
  <2> QED BY <1>10, <2>3, CommitKeeps DEF ApplySynchronize
<1>11. ASSUME NEW x \in rtx, CommitReview(x) PROVE PullInv'
  <2>1. x.id \in Ids /\ x.d.kind \in Verdicts
    BY <1>0 DEF TypeOK, Delivery
  <2>2. rows' = ResolveApproval(x.id, x.d.kind, Reviewer)
    BY <1>11 DEF CommitReview
  <2>3. /\ rows' \in Seq(Row) /\ Ids' = Ids
        /\ \A i \in Ids : rows'[i].rev = rows[i].rev /\ rows'[i].filed = rows[i].filed
    BY <1>0, <2>1, <2>2, Resolved DEF Ids
  <2> QED BY <1>0, <1>11, <2>3, DecisionKeeps DEF CommitReview, TypeOK
<1>12. ASSUME NEW p \in Deciders, OpenPage(p) PROVE PullInv'
  <2>1. PICK i \in OpenIds : page' = [page EXCEPT ![p] = i]
    BY <1>12 DEF OpenPage
  <2>2. i \in Ids BY <2>1 DEF OpenIds
  <2>3. page' \in [Deciders -> Ids \cup {0}]
    BY <1>0, <2>1, <2>2 DEF TypeOK
  <2>4. rows' = rows /\ Ids' = Ids BY <1>12 DEF OpenPage, Ids
  <2> QED BY <1>0, <1>12, <2>3, <2>4, DecisionKeeps DEF OpenPage
<1>13. ASSUME NEW p \in Deciders, NEW s \in Verdicts \cup {"rejected"}, Decide(p, s)
       PROVE PullInv'
  <2>1. page[p] \in Ids BY <1>0, <1>13 DEF Decide, TypeOK
  <2>2. rows' = rows \/ rows' = ResolveApproval(page[p], s, p)
    BY <1>13 DEF Decide
  <2>3. /\ rows' \in Seq(Row) /\ Ids' = Ids
        /\ \A i \in Ids : rows'[i].rev = rows[i].rev /\ rows'[i].filed = rows[i].filed
    <3>1. s \in Open \cup Decided /\ p \in Actors OBVIOUS
    <3> DEFINE k == page[p]
    <3>2. k \in Ids BY <2>1
    <3>3. CASE rows' = ResolveApproval(k, s, p)
      <4> HIDE DEF k
      <4> QED BY ONLY <1>0, <3>1, <3>2, <3>3, Resolved DEF Ids
    <3>4. CASE rows' = rows BY <1>0, <3>4 DEF Ids
    <3> QED BY <2>2, <3>3, <3>4
  <2>4. page' \in [Deciders -> Ids \cup {0}]
    BY <1>0, <1>13 DEF Decide, TypeOK
  <2> QED BY <1>0, <1>13, <2>3, <2>4, DecisionKeeps DEF Decide
<1>14. ASSUME NEW h \in Revs, RequireApproval(h) PROVE PullInv'
  <2>1. rows' = InsertAwaiting(h, TRUE) /\ UNCHANGED <<gh, wire, pr, ptx, rtx, page>>
    BY <1>14 DEF RequireApproval
  <2>2. /\ rows' \in Seq(Row) /\ Ids \subseteq Ids' /\ \A i \in Ids : rows'[i] = rows[i]
        /\ \A i \in Ids' \ Ids : rows'[i].filed
    BY <1>0, <2>1, FilingInserts DEF Ids
  <2> QED BY <1>0, <2>1, <2>2, DecisionKeeps DEF TypeOK
<1>15. ASSUME NEW t \in ptx, DeliveryAborts(t) PROVE PullInv'
  BY <1>0, <1>15 DEF DeliveryAborts, PullInv, TypeOK, LockHeld, OnlyFiled, Ids
<1>16. CASE UNCHANGED vars
  BY <1>0, <1>16 DEF vars, PullInv, TypeOK, LockHeld, OnlyFiled, Ids
<1> QED BY <1>1, <1>2, <1>3, <1>4, <1>5, <1>6, <1>7, <1>8, <1>9, <1>10, <1>11, <1>12,
           <1>13, <1>14, <1>15, <1>16 DEF Next

LEMMA PullInvariant == Spec => []PullInv
<1> QED BY PullInit, PullStep, PTL DEF Spec

\* The values of every variable stay in the types that TypeOK names.
THEOREM TypeCorrect == Spec => []TypeOK
<1>1. PullInv => TypeOK BY DEF PullInv
<1> QED BY <1>1, PullInvariant, PTL

\* Between the check that DesignateRevision makes and its UPDATE, under UpsertPR's
\* row lock, only a requirement filed by hand can bind the head, and so fail the
\* delivery on the unique key (requireApproval takes no lock).
THEOREM OnlyFilingTakesKey == Spec => []KeyFreeToRebind
<1>1. PullInv => KeyFreeToRebind BY DEF PullInv, LockHeld, OnlyFiled, KeyFreeToRebind
<1> QED BY <1>1, PullInvariant, PTL

\* No step takes a decided row back to awaiting, whatever races with it:
\* ReopenApproval tests the state in the UPDATE, and nothing else writes
\* awaiting over a row.
THEOREM DecisionsNotReopened == Spec => NoDecisionReopened
<1> DEFINE Keeps == \A i \in Ids : rows[i].state \in Decided => rows'[i].state # "awaiting"
<1>1. ASSUME PullInv, [Next]_vars PROVE [Keeps]_vars
  <2>0. /\ TypeOK /\ rows \in Seq(Row) /\ \A i \in Ids : rows[i] \in Row
    BY <1>1 DEF PullInv, TypeOK, Ids
  <2>1. CASE rows' = rows BY <2>0, <2>1
  <2>2. ASSUME NEW h \in Revs, NEW f \in BOOLEAN, rows' = InsertAwaiting(h, f) PROVE Keeps
    BY <2>0, <2>2, Inserted
  <2>3. ASSUME NEW ids, rows' = ReopenApproval(ids) PROVE Keeps
    BY <2>0, <2>3, Reopened
  <2>4. ASSUME NEW ids, NEW h \in Heads, rows' = Rebind(ids, h) PROVE Keeps
    BY <2>0, <2>4, Rebound
  <2>5. ASSUME NEW k \in Ids, NEW st \in Verdicts \cup {"rejected"}, NEW who \in Actors,
               rows' = ResolveApproval(k, st, who)
        PROVE  Keeps
    <3>1. \A i \in Ids \ {k} : rows'[i] = rows[i] BY <2>0, <2>5, Resolved
    <3>2. rows'[k].state = st BY <2>0, <2>5, Resolved
    <3> QED BY <3>1, <3>2, <2>5
  <2>6. ASSUME NEW t \in ptx, ApplyOpened(t) \/ ApplyRequested(t) \/ ReadHistory(t)
                              \/ ApplySynchronize(t) \/ DeliveryAborts(t)
        PROVE  Keeps
    <3>1. t.d.head \in Heads /\ t.d.head \in Revs BY <2>0 DEF TypeOK, Delivery
    <3>2. \/ rows' = rows \/ rows' = InsertAwaiting(t.d.head, FALSE)
          \/ rows' = ReopenApproval(t.open) \/ rows' = Rebind(t.open, t.d.head)
      BY <2>6 DEF ApplyOpened, ApplyRequested, ReadHistory, ApplySynchronize, DeliveryAborts
    <3> QED BY <3>1, <3>2, <2>1, <2>2, <2>3, <2>4
  <2>7. ASSUME NEW x \in rtx, CommitReview(x) PROVE Keeps
    <3>1. x.id \in Ids /\ x.d.kind \in Verdicts
      BY <2>0 DEF TypeOK, Delivery
    <3> QED BY <2>5, <2>7, <3>1 DEF CommitReview
  <2>8. ASSUME NEW p \in Deciders, NEW s \in Verdicts \cup {"rejected"}, Decide(p, s)
        PROVE  Keeps
    <3>1. page[p] \in Ids BY <2>0, <2>8 DEF Decide, TypeOK
    <3>2. rows' = rows \/ rows' = ResolveApproval(page[p], s, p)
      BY <2>8 DEF Decide
    <3> QED BY <2>1, <2>5, <3>1, <3>2
  <2>9. CASE UNCHANGED vars BY <2>9
  <2>10. ASSUME NEW h \in Revs, RequireApproval(h) PROVE Keeps
    BY <2>2, <2>10 DEF RequireApproval
  <2> QED BY <1>1, <2>1, <2>6, <2>7, <2>8, <2>9, <2>10
          DEF Next, Push, AskAgain, SubmitReview, Send, BeginDelivery, ReviewIgnored,
              BeginReview, OpenPage, vars
<1> QED BY <1>1, PullInvariant, PTL DEF Spec, NoDecisionReopened

\* A decided row changes its verdict or its resolving actor only under a GitHub
\* review that had read it open, against any number of deciders and deliveries:
\* that is what DecideApproval's FOR UPDATE and open check give, and what the
\* webhook's ResolveApproval by id does not.
THEOREM DecisionsKept == Spec => DecisionKept
<1> DEFINE Same(i) == rows'[i].state = rows[i].state /\ rows'[i].by = rows[i].by
           Keeps == \A i \in Ids : rows[i].state \in Decided => Same(i)
           Kept == \A i \in Ids :
                      /\ rows[i].state \in Decided
                      /\ <<rows'[i].state, rows'[i].by>> # <<rows[i].state, rows[i].by>>
                      => rows'[i].by = Reviewer /\ \E x \in rtx : x.id = i
<1>1. ASSUME PullInv, [Next]_vars PROVE [Kept]_vars
  <2>0. /\ TypeOK /\ rows \in Seq(Row) /\ \A i \in Ids : rows[i] \in Row
    BY <1>1 DEF PullInv, TypeOK, Ids
  <2>1. Keeps => Kept OBVIOUS
  <2>2. CASE rows' = rows BY <2>1, <2>2
  <2>3. ASSUME NEW t \in ptx, ApplyOpened(t) \/ ApplyRequested(t) \/ ReadHistory(t)
                              \/ ApplySynchronize(t) \/ DeliveryAborts(t)
        PROVE  Kept
    <3>1. t.d.head \in Heads /\ t.d.head \in Revs BY <2>0 DEF TypeOK, Delivery
    <3>2. \/ rows' = rows \/ rows' = InsertAwaiting(t.d.head, FALSE)
          \/ rows' = ReopenApproval(t.open) \/ rows' = Rebind(t.open, t.d.head)
      BY <2>3 DEF ApplyOpened, ApplyRequested, ReadHistory, ApplySynchronize, DeliveryAborts
    <3>3. CASE rows' = InsertAwaiting(t.d.head, FALSE) BY <2>0, <2>1, <3>1, <3>3, DeliveryInserts
    <3>4. CASE rows' = ReopenApproval(t.open) BY <2>0, <2>1, <3>4, Reopened
    <3>5. CASE rows' = Rebind(t.open, t.d.head) BY <2>0, <2>1, <3>1, <3>5, Rebound
    <3> QED BY <3>2, <3>3, <3>4, <3>5, <2>2
  <2>4. ASSUME NEW p \in Deciders, NEW s \in Verdicts \cup {"rejected"}, Decide(p, s)
        PROVE  Kept
    <3> DEFINE k == page[p]
    <3>1. k \in Ids BY <2>0, <2>4 DEF Decide, TypeOK
    <3>2. \/ rows' = rows
          \/ rows' = ResolveApproval(k, s, p) /\ rows[k].state \in Open
      BY <2>4 DEF Decide
    <3>3. CASE rows' = ResolveApproval(k, s, p) /\ rows[k].state \in Open
      <4>1. s \in Open \cup Decided /\ p \in Actors OBVIOUS
      <4> HIDE DEF k
      <4>2. \A i \in Ids \ {k} : rows'[i] = rows[i]
        BY ONLY <2>0, <3>1, <3>3, <4>1, Resolved
      <4>3. rows[k].state \notin Decided BY <3>3
      <4> QED BY <4>2, <4>3, <2>1
    <3> QED BY <2>2, <3>2, <3>3
  <2>5. ASSUME NEW x \in rtx, CommitReview(x) PROVE Kept
    <3>1. x.id \in Ids /\ x.d.kind \in Open \cup Decided /\ Reviewer \in Actors
      BY <2>0 DEF TypeOK
    <3>2. rows' = ResolveApproval(x.id, x.d.kind, Reviewer) BY <2>5 DEF CommitReview
    <3>3. (\A i \in Ids \ {x.id} : rows'[i] = rows[i]) /\ rows'[x.id].by = Reviewer
      BY ONLY <2>0, <3>1, <3>2, Resolved
    <3> QED BY <3>3
  <2>6. CASE UNCHANGED vars BY <2>6 DEF vars
  <2>7. ASSUME NEW h, Push(h) \/ AskAgain(h) \/ SubmitReview(h) PROVE rows' = rows
    BY <2>7 DEF Push, AskAgain, SubmitReview, Send
  <2>8. ASSUME NEW d, BeginDelivery(d) \/ ReviewIgnored(d) \/ BeginReview(d) \/ OpenPage(d)
        PROVE  rows' = rows
    BY <2>8 DEF BeginDelivery, ReviewIgnored, BeginReview, OpenPage
  <2>9. ASSUME NEW h \in Revs, RequireApproval(h) PROVE Kept
    BY <2>0, <2>1, <2>9, FilingInserts DEF RequireApproval
  <2> QED BY <1>1, <2>2, <2>3, <2>4, <2>5, <2>6, <2>7, <2>8, <2>9 DEF Next
<1> QED BY <1>1, PullInvariant, PTL DEF Spec, DecisionKept

-----------------------------------------------------------------------------
(* One open row *)

\* The open rows that nobody filed have one id.
OpenOwn == {i \in OpenIds : ~rows[i].filed}
OneOpen == \A i, j \in OpenOwn : i = j

\* Only a delivery adds such a row, and only one that found no row open: while it
\* holds the lock, no row but a filed one opens behind it unless a review writes
\* over a decision.
OpenInv ==
    /\ \A t \in ptx : t.outcome = "candidate" => t.open = {}
    /\ NoneCrossed => OneOpen /\ \A t \in ptx : t.open = {} => OpenOwn = {}

\* What every write of the rows respects: ids stay, a row that was written over a
\* decision stays so, no other row opens again, and who filed a row is settled.
NoneReopened ==
    /\ Ids \subseteq Ids'
    /\ \A i \in Ids : rows'[i].filed = rows[i].filed
    /\ \A i \in Ids : rows[i].crossed => rows'[i].crossed
    /\ \A i \in Ids : rows'[i].state \in Open => rows[i].state \in Open \/ rows'[i].crossed

LEMMA OpenOrDecided ==
    ASSUME TypeOK, NEW i \in Ids PROVE rows[i].state \in Open \cup Decided
<1>1. rows[i] \in Row BY DEF TypeOK, Ids
<1> QED BY <1>1 DEF Row

\* Where a row is open, the lane has a newest open row.
LEMMA NewestOpen ==
    ASSUME TypeOK, OpenIds # {} PROVE OpenRow # {}
<1> DEFINE n == Len(rows)
           S == {n - i : i \in OpenIds}
<1>0. n \in Nat /\ \A i \in OpenIds : i \in Nat /\ i <= n
  BY DEF TypeOK, OpenIds, Ids
<1>1. S \subseteq Nat /\ S # {}
  <2>1. \A i \in OpenIds : n - i \in Nat BY <1>0
  <2> HIDE DEF n
  <2> QED BY <2>1
<1>2. \E x \in S : \A y \in S : ~(<<y, x>> \in OpToRel(<, Nat))
  BY <1>1, WFMin, NatLessThanWellFounded
<1> HIDE DEF n
<1>3. PICK i \in OpenIds : \A y \in S : ~(<<y, n - i>> \in OpToRel(<, Nat))
  BY <1>2
<1>4. \A j \in OpenIds : j <= i
  <2> SUFFICES ASSUME NEW j \in OpenIds, i < j PROVE FALSE
    BY <1>0
  <2>1. n - j \in Nat /\ n - i \in Nat /\ n - j < n - i BY <1>0
  <2>2. <<n - j, n - i>> \in OpToRel(<, Nat) BY <2>1 DEF OpToRel
  <2> QED BY <1>3, <2>2
<1>5. i \in OpenRow BY <1>4 DEF OpenRow
<1> QED BY <1>5

LEMMA InsertingReopensNone ==
    ASSUME TypeOK, NEW h \in Revs, NEW f \in BOOLEAN, rows' = InsertAwaiting(h, f)
    PROVE  NoneReopened
BY Inserted DEF NoneReopened, Ids

LEMMA ReopeningReopensNone ==
    ASSUME TypeOK, NEW ids, rows' = ReopenApproval(ids) PROVE NoneReopened
<1>1. /\ DOMAIN rows' = Ids
      /\ \A i \in Ids : rows[i].state \in Decided => rows'[i] = rows[i]
      /\ \A i \in Ids : rows'[i].crossed = rows[i].crossed
      /\ \A i \in Ids : rows'[i].filed = rows[i].filed
  BY Reopened
<1>2. \A i \in Ids : rows[i].state \in Open \cup Decided BY OpenOrDecided
<1> QED BY <1>1, <1>2 DEF NoneReopened, Ids

LEMMA RebindingReopensNone ==
    ASSUME TypeOK, NEW ids, NEW h \in Heads, rows' = Rebind(ids, h) PROVE NoneReopened
BY Rebound DEF NoneReopened, Ids

LEMMA ResolvingReopensNone ==
    ASSUME TypeOK, NEW k \in Ids, NEW st \in Open \cup Decided, NEW who \in Actors,
           rows' = ResolveApproval(k, st, who)
    PROVE  NoneReopened
<1>1. /\ DOMAIN rows' = Ids
      /\ \A i \in Ids \ {k} : rows'[i] = rows[i]
      /\ \A i \in Ids : rows'[i].filed = rows[i].filed
      /\ rows'[k].crossed = (rows[k].crossed \/ rows[k].state \in Decided)
  BY Resolved
<1>2. rows[k].state \in Open \cup Decided BY OpenOrDecided
<1> QED BY <1>1, <1>2 DEF NoneReopened, Ids

\* If nothing has been crossed after such a write, nothing had been before it, and
\* the rows that are open were, unless they are new.
LEMMA OpenOnlyShrinks ==
    ASSUME NoneReopened, NoneCrossed'
    PROVE  NoneCrossed /\ \A i \in OpenOwn' : i \in Ids => i \in OpenOwn
BY DEF NoneReopened, NoneCrossed, OpenOwn, OpenIds

\* A write that adds no row but a filed one, by a step that lets no new delivery
\* begin.
LEMMA NothingAdded ==
    ASSUME OpenInv, NoneReopened, \A i \in Ids' \ Ids : rows'[i].filed, ptx' \subseteq ptx
    PROVE  OpenInv'
<1>1. \A t \in ptx' : t.outcome = "candidate" => t.open = {} BY DEF OpenInv
<1>2. ASSUME NoneCrossed'
      PROVE  OneOpen' /\ \A t \in ptx' : t.open = {} => OpenOwn' = {}
  <2>1. NoneCrossed /\ OpenOwn' \subseteq OpenOwn
    BY <1>2, OpenOnlyShrinks DEF OpenOwn, OpenIds
  <2> QED BY <2>1 DEF OpenInv, OneOpen
<1> QED BY <1>1, <1>2 DEF OpenInv

\* A delivery that adds a row has found none open.
LEMMA OneAdded ==
    ASSUME PullInv, OpenInv, NEW t \in ptx, t.open = {}, NEW h \in Heads,
           rows' = InsertAwaiting(h, FALSE), ptx' = {}
    PROVE  OpenInv'
<1>1. NoneReopened BY InsertingReopensNone DEF PullInv
<1>2. ASSUME NoneCrossed' PROVE OneOpen'
  <2>1. NoneCrossed BY <1>1, <1>2, OpenOnlyShrinks
  <2>2. OpenOwn = {} BY <2>1 DEF OpenInv
  <2>3. \A i \in OpenOwn' : i \in Ids' \ Ids
    BY <1>1, <1>2, <2>2, OpenOnlyShrinks DEF OpenOwn, OpenIds
  <2>4. \A i \in Ids' \ Ids : i = Len(rows) + 1
    BY Inserted DEF PullInv, Ids
  <2> QED BY <2>3, <2>4 DEF OneOpen
<1> QED BY <1>2 DEF OpenInv

LEMMA OpenStep == PullInv /\ OpenInv /\ [Next]_vars => OpenInv'
<1> SUFFICES ASSUME PullInv, OpenInv, [Next]_vars PROVE OpenInv' OBVIOUS
<1>0. /\ TypeOK /\ LockHeld /\ rows \in Seq(Row)
      /\ \A t \in ptx : t.d.head \in Heads
  BY DEF PullInv, TypeOK, Delivery
<1>1. CASE UNCHANGED <<rows, ptx>>
  BY <1>1 DEF OpenInv, OneOpen, OpenOwn, NoneCrossed, OpenIds, Ids
<1>2. ASSUME NEW d \in wire, BeginDelivery(d) PROVE OpenInv'
  <2> DEFINE t == [d |-> d, open |-> OpenRow, outcome |-> "unread",
                   again |-> \E i \in OpenRow : rows[i].state = "changes_requested"]
  <2>0. t.open = OpenRow /\ t.outcome = "unread" OBVIOUS
  <2>1. ptx' = {t} /\ rows' = rows BY <1>2 DEF BeginDelivery
  <2> HIDE DEF t
  <2>2. OpenRow = {} => OpenOwn = {} BY <1>0, NewestOpen DEF OpenOwn
  <2> QED BY <2>0, <2>1, <2>2 DEF OpenInv, OneOpen, OpenOwn, NoneCrossed, OpenIds, OpenRow, Ids
<1>3. ASSUME NEW t \in ptx, ReadHistory(t) PROVE OpenInv'
  <2> DEFINE o == OnNewRevision(t.open, HasDecided, Bound(t.d.head))
  <2>1. o = "candidate" => t.open = {} BY DEF OnNewRevision
  <2>2. t \in [d : Delivery, open : SUBSET Ids, outcome : Outcomes, again : BOOLEAN]
    BY <1>0 DEF TypeOK
  <2>3. rows' = rows /\ ptx' = {[t EXCEPT !.outcome = o]}
    BY <1>0, <1>3 DEF ReadHistory, LockHeld
  <2> HIDE DEF o
  <2> DEFINE u == [t EXCEPT !.outcome = o]
  <2>4. ptx' = {u} /\ u.open = t.open /\ u.outcome = o BY <2>2, <2>3
  <2> HIDE DEF u
  <2> QED BY <2>1, <2>3, <2>4 DEF OpenInv, OneOpen, OpenOwn, NoneCrossed, OpenIds, Ids
<1>4. ASSUME NEW t \in ptx, Commit(t),
             \/ rows' = rows \/ rows' = ReopenApproval(t.open) \/ rows' = Rebind(t.open, t.d.head)
      PROVE  OpenInv'
  <2>1. NoneReopened /\ Ids' = Ids
    <3>1. CASE rows' = rows BY <3>1 DEF NoneReopened, Ids
    <3>2. CASE rows' = ReopenApproval(t.open)
      BY <1>0, <3>2, Reopened, ReopeningReopensNone DEF Ids
    <3>3. CASE rows' = Rebind(t.open, t.d.head)
      BY <1>0, <3>3, Rebound, RebindingReopensNone DEF Ids
    <3> QED BY <1>4, <3>1, <3>2, <3>3
  <2> QED BY <1>4, <2>1, NothingAdded DEF Commit
<1>5. ASSUME NEW t \in ptx, Commit(t), t.open = {}, rows' = InsertAwaiting(t.d.head, FALSE)
      PROVE  OpenInv'
  <2>1. ptx' = {} BY <1>0, <1>5 DEF Commit, LockHeld
  <2> QED BY <1>0, <1>5, <2>1, OneAdded
<1>6. ASSUME NEW t \in ptx, ApplyOpened(t) \/ ApplyRequested(t) \/ ApplySynchronize(t)
      PROVE  OpenInv'
  <2>1. t.outcome = "candidate" => t.open = {} BY DEF OpenInv
  <2> QED BY <1>4, <1>5, <1>6, <2>1 DEF ApplyOpened, ApplyRequested, ApplySynchronize
<1>7. ASSUME NEW k \in Ids, NEW st \in Open \cup Decided, NEW who \in Actors,
             rows' = ResolveApproval(k, st, who), ptx' = ptx
      PROVE  OpenInv'
  <2>1. NoneReopened BY <1>0, <1>7, ResolvingReopensNone
  <2>2. Ids' = Ids BY <1>0, <1>7, Resolved DEF Ids
  <2> QED BY <1>7, <2>1, <2>2, NothingAdded
<1>8. ASSUME NEW x \in rtx, CommitReview(x) PROVE OpenInv'
  <2>1. x.id \in Ids /\ x.d.kind \in Open \cup Decided /\ Reviewer \in Actors
    BY <1>0 DEF TypeOK
  <2> QED BY <1>7, <1>8, <2>1 DEF CommitReview
<1>9. ASSUME NEW p \in Deciders, NEW s \in Verdicts \cup {"rejected"}, Decide(p, s)
      PROVE  OpenInv'
  <2>1. page[p] \in Ids /\ s \in Open \cup Decided /\ p \in Actors
    BY <1>0, <1>9 DEF Decide, TypeOK
  <2>2. ptx' = ptx /\ (rows' = rows \/ rows' = ResolveApproval(page[p], s, p))
    BY <1>9 DEF Decide
  <2> QED BY <1>1, <1>7, <2>1, <2>2
<1>10. ASSUME NEW h, Push(h) \/ AskAgain(h) \/ SubmitReview(h)
       PROVE  UNCHANGED <<rows, ptx>>
  BY <1>10 DEF Push, AskAgain, SubmitReview, Send
<1>11. ASSUME NEW d, ReviewIgnored(d) \/ BeginReview(d) \/ OpenPage(d)
       PROVE  UNCHANGED <<rows, ptx>>
  BY <1>11 DEF ReviewIgnored, BeginReview, OpenPage
<1>12. ASSUME NEW h \in Revs, RequireApproval(h) PROVE OpenInv'
  <2>1. rows' = InsertAwaiting(h, TRUE) /\ ptx' = ptx BY <1>12 DEF RequireApproval
  <2>2. NoneReopened BY <1>0, <2>1, InsertingReopensNone
  <2>3. \A i \in Ids' \ Ids : rows'[i].filed BY <1>0, <2>1, Inserted DEF Ids
  <2> QED BY <2>1, <2>2, <2>3, NothingAdded
<1>13. ASSUME NEW t \in ptx, DeliveryAborts(t) PROVE OpenInv'
  <2>1. rows' = rows /\ ptx' \subseteq ptx BY <1>13 DEF DeliveryAborts
  <2>2. NoneReopened BY <2>1 DEF NoneReopened, Ids
  <2> QED BY <2>1, <2>2, NothingAdded DEF Ids
<1> QED BY <1>1, <1>2, <1>3, <1>6, <1>8, <1>9, <1>10, <1>11, <1>12, <1>13 DEF Next, vars

\* However the deliveries of a pull request, aborted ones delivered again among
\* them, interleave with decisions, reviews and requirements filed by hand, at
\* most one of the rows that nobody filed is open, unless a GitHub review has
\* written over a decision: openApproval and DesignateRevision add a row only when
\* the delivery that holds UpsertPR's lock has found none open.
THEOREM DeliveriesOpenOne == Spec => []OneIngestedOpen
<1>1. Init => OpenInv
  BY DEF Init, OpenInv, OneOpen, OpenOwn, OpenIds, Ids
<1>2. OpenInv => OneIngestedOpen
  <2> SUFFICES ASSUME OpenInv, NoneCrossed PROVE Cardinality(OpenOwn) <= 1
    BY DEF OneIngestedOpen, OpenOwn
  <2>1. OneOpen BY DEF OpenInv
  <2>2. CASE OpenOwn = {} BY <2>2, FS_EmptySet
  <2>3. CASE OpenOwn # {}
    <3>1. PICK i : OpenOwn = {i} BY <2>1, <2>3 DEF OneOpen
    <3>2. Cardinality({i}) = 1 BY FS_Singleton
    <3>3. Cardinality(OpenOwn) = 1 BY <3>1, <3>2
    <3> QED BY <3>3
  <2> QED BY <2>2, <2>3
<1> QED BY <1>1, <1>2, OpenStep, PullInvariant, PTL DEF Spec

-----------------------------------------------------------------------------
(* The stored head is bound *)

\* The pushes on the wire that GitHub sent before stamp s.
Syncs(s) == {e \in wire : e.kind = "synchronize" /\ e.stamp < s}
\* What has been applied and what is still to come before stamp s lead to head h.
HeadAt(h, s) ==
    /\ Syncs(s) = {} => h = pr.head
    /\ \A e \in Syncs(s) : (\A f \in Syncs(s) : f.stamp <= e.stamp) => e.head = h
InOrder == ~pr.late /\ \A d \in wire : d.kind \in PRKinds => pr.stamp < d.stamp

\* Deliveries have stamps of their own, none of them the stored one; the delivery
\* that holds the lock is on the wire until it commits.
Stamped ==
    /\ pr.stamp <= Sent
    /\ \A d \in wire : 0 < d.stamp /\ d.stamp <= Sent /\ d.stamp # pr.stamp
    /\ \A d, e \in wire : d.stamp = e.stamp => d = e
    /\ \A t \in ptx : t.d \in wire /\ t.d.kind \in PRKinds

\* Until the first delivery is applied there is no row, and the opening is on the wire.
Unopened == pr.stamp = 0 => Ids = {} /\ \E d \in wire : d.kind = "opened" /\ d.stamp = 1

\* As long as nothing is applied out of order, the branch and every delivery that
\* is no push are at the head that the pushes before them lead to.
HeadsFollow ==
    InOrder => /\ HeadAt(gh.head, Sent + 1)
               /\ \A d \in wire :
                     d.kind \in {"opened", "review_requested"} => HeadAt(d.head, d.stamp)

\* A push that is about to rebind has a row for it, and one about to do nothing
\* has found its head bound.
Designated ==
    \A t \in ptx :
       /\ t.outcome = "rebind" => t.open # {}
       /\ NoneCrossed /\ InOrder /\ t.outcome = "noop" /\ pr.stamp # 0 => Bound(t.d.head)

HeadHeld == NoneCrossed /\ InOrder /\ pr.stamp # 0 => Bound(pr.head)

\* A delivery that found no row open has decided rows behind it.
DecidedBehind ==
    \A t \in ptx : NoneCrossed /\ InOrder /\ t.open = {} /\ pr.stamp # 0 => HasDecided

HeadInv == Stamped /\ Unopened /\ HeadsFollow /\ Designated /\ HeadHeld /\ DecidedBehind

\* A decided row stays decided unless it is written over.
LEMMA DecidedStays ==
    ASSUME TypeOK', NoneReopened, NoneCrossed', HasDecided PROVE HasDecided'
<1>1. PICK i \in Ids : rows[i].state \in Decided BY DEF HasDecided
<1>2. i \in Ids' /\ rows'[i] \in Row BY <1>1 DEF NoneReopened, TypeOK, Ids
<1>3. rows'[i].state \notin Open BY <1>1, <1>2 DEF NoneReopened, NoneCrossed
<1>4. rows'[i].state \in Decided BY <1>2, <1>3 DEF Row
<1> QED BY <1>2, <1>4 DEF HasDecided

LEMMA InsertedBinds ==
    ASSUME TypeOK, NEW h \in Revs, NEW f \in BOOLEAN, rows' = InsertAwaiting(h, f)
    PROVE  Bound(h)'
<1>1. CASE Bound(h) BY <1>1 DEF InsertAwaiting, Bound, Ids
<1>2. CASE ~Bound(h)
  <2> DEFINE r == [rev |-> h, state |-> "awaiting", by |-> Nobody, crossed |-> FALSE,
                   filed |-> f]
  <2>1. r \in Row /\ r.rev = h BY DEF Row
  <2>2. rows' = Append(rows, r) /\ rows \in Seq(Row) BY <1>2 DEF InsertAwaiting, TypeOK
  <2> HIDE DEF r
  <2>3. Len(rows) + 1 \in DOMAIN rows' /\ rows'[Len(rows) + 1] = r BY <2>1, <2>2
  <2> QED BY <2>1, <2>3 DEF Bound, Ids
<1> QED BY <1>1, <1>2

LEMMA StampTypes ==
    ASSUME TypeOK
    PROVE  pr.stamp \in Nat /\ Sent \in Nat /\ \A d \in wire : d.stamp \in Nat
BY DEF TypeOK, Sent, Delivery

\* Rows that keep their ids and revisions, with others filed behind them once the
\* pull request is stored, under the same stored head, wire and delivery but for
\* reviews that leave the wire and a delivery that is taken back.
LEMMA HeadUnmoved ==
    ASSUME TypeOK', HeadInv, UNCHANGED <<gh, pr>>, ptx' \subseteq ptx, NoneReopened,
           Ids' = Ids \/ pr.stamp # 0,
           \A i \in Ids : rows'[i].rev = rows[i].rev,
           wire' \subseteq wire, \A d \in wire : d.kind \in PRKinds => d \in wire'
    PROVE  HeadInv'
<1>1. \A h : Bound(h) => Bound(h)' BY DEF Bound, NoneReopened
<1>2. NoneCrossed' => NoneCrossed BY OpenOnlyShrinks
<1>3. (InOrder' => InOrder) /\ Sent' = Sent BY DEF InOrder, Sent
<1>4. ASSUME NEW h, NEW s PROVE HeadAt(h, s)' <=> HeadAt(h, s)
  <2>1. Syncs(s)' = Syncs(s) BY DEF Syncs
  <2> QED BY <2>1 DEF HeadAt
<1>5. Stamped' BY <1>3 DEF HeadInv, Stamped
<1>6. Unopened' BY DEF HeadInv, Unopened
<1>7. HeadsFollow' BY <1>3, <1>4 DEF HeadInv, HeadsFollow
<1>8. Designated' BY <1>1, <1>2, <1>3 DEF HeadInv, Designated
<1>9. HeadHeld' BY <1>1, <1>2, <1>3 DEF HeadInv, HeadHeld
<1>10. DecidedBehind' BY <1>2, <1>3, DecidedStays DEF HeadInv, DecidedBehind
<1> QED BY <1>5, <1>6, <1>7, <1>8, <1>9, <1>10 DEF HeadInv

\* A delivery that GitHub sends is the newest; a push leads to its own head and
\* anything else to the branch's.
LEMMA HeadSent ==
    ASSUME PullInv, HeadInv, NEW k \in PRKinds \cup Verdicts, NEW h \in Heads, Send(k, h),
           Sent' = Sent + 1,
           IF k = "synchronize" THEN gh'.head = h ELSE gh'.head = gh.head /\ h = gh.head
    PROVE  HeadInv'
<1> DEFINE d == [kind |-> k, head |-> h, stamp |-> Sent + 1]
<1>0. /\ pr.stamp \in Nat /\ Sent \in Nat /\ \A e \in wire : e.stamp \in Nat
      /\ Stamped /\ HeadsFollow
  BY StampTypes DEF PullInv, HeadInv
<1>1. wire' = wire \cup {d} /\ UNCHANGED <<pr, rows, ptx>> BY DEF Send
<1>2. d.kind = k /\ d.head = h /\ d.stamp = Sent + 1 OBVIOUS
<1> HIDE DEF d
<1>3. InOrder' => InOrder BY <1>1 DEF InOrder
<1>4. Stamped' BY <1>0, <1>1, <1>2 DEF Stamped
<1>5. ASSUME NEW x, NEW s \in Nat, s <= Sent + 1 PROVE HeadAt(x, s)' <=> HeadAt(x, s)
  <2>1. Syncs(s)' = Syncs(s) BY <1>0, <1>1, <1>2, <1>5 DEF Syncs
  <2> QED BY <1>1, <2>1 DEF HeadAt
<1>6. ASSUME InOrder', NEW e \in wire', e.kind \in {"opened", "review_requested"}
      PROVE  HeadAt(e.head, e.stamp)'
  <2>1. CASE e \in wire
    BY <1>0, <1>3, <1>5, <1>6, <2>1 DEF HeadsFollow, Stamped
  <2>2. CASE e = d
    <3>1. e.head = gh.head /\ e.stamp = Sent + 1 BY <1>2, <1>6, <2>2
    <3>2. HeadAt(gh.head, Sent + 1) BY <1>0, <1>3, <1>6 DEF HeadsFollow
    <3>3. HeadAt(e.head, e.stamp) BY <3>1, <3>2
    <3> QED BY <1>0, <1>5, <3>1, <3>3
  <2> QED BY <1>1, <2>1, <2>2
<1>7. ASSUME InOrder' PROVE HeadAt(gh.head, Sent + 1)'
  <2>0. HeadAt(gh.head, Sent + 1) BY <1>0, <1>3, <1>7 DEF HeadsFollow
  <2>1. CASE k = "synchronize"
    <3>1. d \in Syncs(Sent + 1)' /\ \A e \in Syncs(Sent + 1)' : e = d \/ e.stamp < d.stamp
      BY <1>0, <1>1, <1>2, <2>1 DEF Syncs, Stamped
    <3>2. \A e \in Syncs(Sent + 1)' : e.stamp \in Nat
      BY <1>0, <1>1, <1>2 DEF Syncs
    <3>3. \A e \in Syncs(Sent + 1)' :
             (\A f \in Syncs(Sent + 1)' : f.stamp <= e.stamp) => e = d
      BY <3>1, <3>2
    <3>4. gh'.head = d.head BY <1>2, <2>1
    <3> QED BY <3>1, <3>3, <3>4 DEF HeadAt
  <2>2. CASE k # "synchronize"
    <3>1. Syncs(Sent + 1)' = Syncs(Sent + 1)
      BY <1>0, <1>1, <1>2, <2>2 DEF Syncs, Stamped
    <3>2. gh'.head = gh.head BY <2>2
    <3> QED BY <1>1, <2>0, <3>1, <3>2 DEF HeadAt
  <2> QED BY <2>1, <2>2
<1>8. HeadsFollow' BY <1>6, <1>7 DEF HeadsFollow
<1>9. Unopened' /\ Designated' /\ HeadHeld' /\ DecidedBehind'
  BY <1>1, <1>3 DEF HeadInv, Unopened, Designated, HeadHeld, DecidedBehind, HasDecided,
                    NoneCrossed, Bound, Ids
<1> QED BY <1>4, <1>8, <1>9 DEF HeadInv

\* A delivery that commits in order is the oldest on the wire and newer than the
\* stored facts.
LEMMA CommittedInOrder ==
    ASSUME PullInv, Stamped, NEW t \in ptx, Commit(t), InOrder'
    PROVE  /\ InOrder /\ pr.stamp < t.d.stamp
           /\ pr'.stamp = t.d.stamp /\ pr'.head = t.d.head
           /\ \A d \in wire : d.kind \in PRKinds /\ d # t.d => t.d.stamp < d.stamp
<1>0. /\ pr \in [head : Heads, stamp : Nat, late : BOOLEAN] /\ \A d \in wire : d.stamp \in Nat
      /\ t.d \in wire /\ t.d.stamp # pr.stamp /\ wire' = wire \ {t.d}
  BY StampTypes DEF PullInv, TypeOK, Stamped, Commit
<1>1. t.d.stamp >= pr.stamp
  <2>1. SUFFICES ASSUME ~(t.d.stamp >= pr.stamp) PROVE FALSE OBVIOUS
  <2>2. pr' = [pr EXCEPT !.late = TRUE] BY <2>1 DEF Commit
  <2>3. pr'.late BY <1>0, <2>2
  <2> QED BY <2>3 DEF InOrder
<1>2. pr' = [pr EXCEPT !.head = t.d.head, !.stamp = t.d.stamp] BY <1>1 DEF Commit
<1>3. pr'.stamp = t.d.stamp /\ pr'.head = t.d.head /\ pr'.late = pr.late BY <1>0, <1>2
<1>4. \A d \in wire : d.kind \in PRKinds /\ d # t.d => t.d.stamp < d.stamp
  BY <1>0, <1>3 DEF InOrder
<1>5. pr.stamp < t.d.stamp BY <1>0, <1>1
<1>6. InOrder
  <2>1. ~pr.late BY <1>3 DEF InOrder
  <2>2. \A d \in wire : d.kind \in PRKinds => pr.stamp < d.stamp BY <1>0, <1>4, <1>5
  <2> QED BY <2>1, <2>2 DEF InOrder
<1> QED BY <1>3, <1>4, <1>5, <1>6

\* What is first applied in order is the opening.
LEMMA OpeningFirst ==
    ASSUME PullInv, HeadInv, NEW t \in ptx, Commit(t), InOrder', pr.stamp = 0
    PROVE  t.d.kind = "opened"
<1>1. PICK d \in wire : d.kind = "opened" /\ d.stamp = 1 BY DEF HeadInv, Unopened
<1>2. t.d \in wire /\ 0 < t.d.stamp BY DEF HeadInv, Stamped
<1>3. t.d.stamp \in Nat BY <1>2, StampTypes DEF PullInv
<1>4. d # t.d => t.d.stamp < d.stamp BY <1>1, CommittedInOrder DEF HeadInv
<1> QED BY <1>1, <1>2, <1>3, <1>4

\* What commits in order and is no push is at the stored head.
LEMMA NoPushNoMove ==
    ASSUME PullInv, HeadInv, NEW t \in ptx, Commit(t), InOrder', t.d.kind # "synchronize"
    PROVE  t.d.head = pr.head
<1>1. t.d \in wire /\ t.d.kind \in {"opened", "review_requested"} BY DEF HeadInv, Stamped
<1>2. HeadAt(t.d.head, t.d.stamp)
  BY <1>1, CommittedInOrder DEF HeadInv, HeadsFollow
<1>3. Syncs(t.d.stamp) = {}
  <2>1. ASSUME NEW e \in Syncs(t.d.stamp) PROVE FALSE
    <3>1. e \in wire /\ e.kind = "synchronize" /\ e.stamp < t.d.stamp BY <2>1 DEF Syncs
    <3>2. e.stamp \in Nat /\ t.d.stamp \in Nat BY <1>1, <3>1, StampTypes DEF PullInv
    <3>3. t.d.stamp < e.stamp BY <3>1, CommittedInOrder DEF HeadInv
    <3> QED BY <3>1, <3>2, <3>3
  <2> QED BY <2>1
<1> QED BY <1>2, <1>3 DEF HeadAt

LEMMA HeadCommitted ==
    ASSUME PullInv, HeadInv, NEW t \in ptx, Commit(t),
           NoneCrossed' /\ InOrder' => Bound(t.d.head)'
    PROVE  HeadInv'
<1>0. /\ pr \in [head : Heads, stamp : Nat, late : BOOLEAN]
      /\ Sent \in Nat /\ \A d \in wire : d.stamp \in Nat
      /\ Stamped /\ t.d \in wire /\ 0 < t.d.stamp /\ t.d.stamp <= Sent
  BY StampTypes DEF PullInv, TypeOK, HeadInv, Stamped
<1>1. wire' = wire \ {t.d} /\ ptx' = {} /\ gh' = gh /\ Sent' = Sent
  BY DEF Commit, PullInv, LockHeld, Sent
<1>2. pr'.stamp \in {pr.stamp, t.d.stamp} /\ pr'.stamp # 0
  <2>1. CASE t.d.stamp >= pr.stamp
    <3>1. pr' = [pr EXCEPT !.head = t.d.head, !.stamp = t.d.stamp] BY <2>1 DEF Commit
    <3>2. pr'.stamp = t.d.stamp BY <1>0, <3>1
    <3> QED BY <1>0, <3>2
  <2>2. CASE ~(t.d.stamp >= pr.stamp)
    <3>1. pr' = [pr EXCEPT !.late = TRUE] BY <2>2 DEF Commit
    <3>2. pr'.stamp = pr.stamp BY <1>0, <3>1
    <3> QED BY <1>0, <2>2, <3>2
  <2> QED BY <2>1, <2>2
<1>3. Stamped' BY <1>0, <1>1, <1>2 DEF Stamped
<1>4. Unopened' BY <1>2 DEF Unopened
<1>5. Designated' BY <1>1 DEF Designated
<1>6. HeadHeld' BY CommittedInOrder, <1>0 DEF HeadHeld
<1>7. ASSUME InOrder', NEW h, NEW s \in Nat, t.d.stamp < s, HeadAt(h, s) PROVE HeadAt(h, s)'
  <2>0. /\ InOrder /\ pr'.head = t.d.head
        /\ \A d \in wire : d.kind \in PRKinds /\ d # t.d => t.d.stamp < d.stamp
    BY <1>0, <1>7, CommittedInOrder
  <2>1. Syncs(s)' = Syncs(s) \ {t.d} BY <1>1 DEF Syncs
  <2>2. CASE t.d.kind = "synchronize"
    <3>1. t.d \in Syncs(s) BY <1>0, <1>7, <2>2 DEF Syncs
    <3>2. \A e \in Syncs(s) : e.stamp \in Nat /\ (e = t.d \/ t.d.stamp < e.stamp)
      BY <1>0, <2>0 DEF Syncs
    <3>3. ASSUME NEW e \in Syncs(s)', \A f \in Syncs(s)' : f.stamp <= e.stamp
          PROVE  e.head = h
      <4>1. \A f \in Syncs(s) : f.stamp <= e.stamp BY <1>0, <2>1, <3>2, <3>3
      <4> QED BY <1>7, <2>1, <3>3, <4>1 DEF HeadAt
    <3>4. ASSUME Syncs(s)' = {} PROVE h = t.d.head
      <4>1. \A f \in Syncs(s) : f = t.d BY <2>1, <3>4
      <4>2. \A f \in Syncs(s) : f.stamp <= t.d.stamp BY <1>0, <4>1
      <4> QED BY <1>7, <3>1, <4>2 DEF HeadAt
    <3> QED BY <2>0, <3>3, <3>4 DEF HeadAt
  <2>3. CASE t.d.kind # "synchronize"
    <3>1. pr'.head = pr.head BY <1>7, <2>0, <2>3, NoPushNoMove
    <3>2. Syncs(s)' = Syncs(s) BY <2>1, <2>3 DEF Syncs
    <3> QED BY <1>7, <3>1, <3>2 DEF HeadAt
  <2> QED BY <2>2, <2>3
<1>8. HeadsFollow'
  <2>1. SUFFICES ASSUME InOrder'
                 PROVE  /\ HeadAt(gh.head, Sent + 1)'
                        /\ \A d \in wire' : d.kind \in {"opened", "review_requested"} =>
                              HeadAt(d.head, d.stamp)'
    BY DEF HeadsFollow
  <2>2. /\ HeadAt(gh.head, Sent + 1)
        /\ \A d \in wire : d.kind \in {"opened", "review_requested"} => HeadAt(d.head, d.stamp)
    BY <1>0, <2>1, CommittedInOrder DEF HeadInv, HeadsFollow
  <2>3. HeadAt(gh.head, Sent + 1)'
    <3>1. PICK h, s : h = gh.head /\ s = Sent + 1 OBVIOUS
    <3>2. s \in Nat /\ t.d.stamp < s BY <1>0, <3>1
    <3>3. HeadAt(h, s)' BY <1>7, <2>1, <2>2, <3>1, <3>2
    <3>4. h = gh'.head /\ s = Sent' + 1 BY <1>1, <3>1
    <3> QED BY <3>3, <3>4
  <2>4. ASSUME NEW d \in wire', d.kind \in {"opened", "review_requested"}
        PROVE  HeadAt(d.head, d.stamp)'
    <3>1. d \in wire /\ d # t.d BY <1>1
    <3>2. d.stamp \in Nat /\ t.d.stamp < d.stamp
      BY <1>0, <2>1, <2>4, <3>1, CommittedInOrder
    <3> QED BY <1>7, <2>1, <2>2, <2>4, <3>1, <3>2
  <2> QED BY <2>3, <2>4
<1>9. DecidedBehind' BY <1>1 DEF DecidedBehind
<1> QED BY <1>3, <1>4, <1>5, <1>6, <1>8, <1>9 DEF HeadInv

LEMMA HeadStep == PullInv /\ HeadInv /\ [Next]_vars => HeadInv'
<1> SUFFICES ASSUME PullInv, HeadInv, [Next]_vars PROVE HeadInv' OBVIOUS
<1>00. TypeOK' BY PullStep DEF PullInv
<1>0. /\ TypeOK /\ LockHeld /\ Stamped /\ Designated /\ HeadHeld /\ DecidedBehind
      /\ \A t \in ptx : t.d.head \in Heads /\ t.open \subseteq Ids /\ t.outcome \in Outcomes
      /\ gh \in [head : Heads, pushes : Nat, asks : Nat, reviews : Nat]
  BY DEF PullInv, HeadInv, TypeOK, Delivery
<1>1. ASSUME NEW h \in Heads, Push(h) PROVE HeadInv'
  <2>1. Send("synchronize", h) BY <1>1 DEF Push
  <2>2. gh'.head = h /\ Sent' = Sent + 1 BY <1>0, <1>1 DEF Push, Sent
  <2> QED BY <2>1, <2>2, HeadSent
<1>2. ASSUME NEW k \in {"opened", "review_requested"}, AskAgain(k) PROVE HeadInv'
  <2>1. Send(k, gh.head) /\ gh.head \in Heads BY <1>0, <1>2 DEF AskAgain
  <2>2. gh'.head = gh.head /\ Sent' = Sent + 1 BY <1>0, <1>2 DEF AskAgain, Sent
  <2> QED BY <2>1, <2>2, HeadSent
<1>3. ASSUME NEW v \in Verdicts, SubmitReview(v) PROVE HeadInv'
  <2>1. Send(v, gh.head) /\ gh.head \in Heads BY <1>0, <1>3 DEF SubmitReview
  <2>2. gh'.head = gh.head /\ Sent' = Sent + 1 BY <1>0, <1>3 DEF SubmitReview, Sent
  <2> QED BY <2>1, <2>2, HeadSent
<1>4. ASSUME NEW d \in wire, BeginDelivery(d) PROVE HeadInv'
  <2> DEFINE t == [d |-> d, open |-> OpenRow, outcome |-> "unread",
                   again |-> \E i \in OpenRow : rows[i].state = "changes_requested"]
  <2>1. ptx' = {t} /\ UNCHANGED <<gh, wire, pr, rows>> /\ d.kind \in PRKinds
    BY <1>4 DEF BeginDelivery
  <2>2. t.d = d /\ t.outcome = "unread" /\ t.open = OpenRow OBVIOUS
  <2> HIDE DEF t
  <2>3. Stamped' BY <1>0, <2>1, <2>2 DEF Stamped, Sent
  <2>4. Designated' BY <2>1, <2>2 DEF Designated
  <2>5. ASSUME NoneCrossed, InOrder, OpenRow = {}, pr.stamp # 0 PROVE HasDecided
    <3>1. PICK i \in Ids : rows[i].rev = pr.head BY <1>0, <2>5 DEF HeadHeld, Bound
    <3>2. rows[i].state \in Open \cup Decided BY <1>0, OpenOrDecided
    <3>3. OpenIds = {} BY <1>0, <2>5, NewestOpen
    <3> QED BY <3>2, <3>3 DEF OpenIds, HasDecided
  <2>6. DecidedBehind'
    BY <2>1, <2>2, <2>5 DEF DecidedBehind, NoneCrossed, InOrder, HasDecided, Ids
  <2> QED BY <2>1, <2>3, <2>4, <2>6
          DEF HeadInv, Unopened, HeadsFollow, HeadHeld, InOrder, HeadAt, Syncs, Sent,
              NoneCrossed, Bound, Ids
<1>5. ASSUME NEW t \in ptx, ReadHistory(t) PROVE HeadInv'
  <2> DEFINE o == OnNewRevision(t.open, HasDecided, Bound(t.d.head))
             u == [t EXCEPT !.outcome = o]
  <2>1. o = "rebind" => t.open # {} BY DEF OnNewRevision
  <2>2. o = "noop" => Bound(t.d.head) \/ (t.open = {} /\ ~HasDecided) BY DEF OnNewRevision
  <2>3. ptx' = {u} /\ UNCHANGED <<gh, wire, pr, rows>>
    BY <1>0, <1>5 DEF ReadHistory, LockHeld
  <2>4. t \in [d : Delivery, open : SUBSET Ids, outcome : Outcomes, again : BOOLEAN]
    BY <1>0 DEF TypeOK
  <2> HIDE DEF o
  <2>5. u.d = t.d /\ u.open = t.open /\ u.outcome = o BY <2>4
  <2> HIDE DEF u
  <2>6. ASSUME NoneCrossed, InOrder, o = "noop", pr.stamp # 0 PROVE Bound(t.d.head)
    <3>1. ~(t.open = {} /\ ~HasDecided) BY <1>0, <2>6 DEF DecidedBehind
    <3> QED BY <2>2, <2>6, <3>1
  <2>7. Stamped' BY <1>0, <2>3, <2>5 DEF Stamped, Sent
  <2>8. Designated'
    BY <2>1, <2>3, <2>5, <2>6 DEF Designated, NoneCrossed, InOrder, Bound, Ids
  <2>9. DecidedBehind'
    BY <1>0, <2>3, <2>5 DEF DecidedBehind, NoneCrossed, InOrder, HasDecided, Ids
  <2> QED BY <2>3, <2>7, <2>8, <2>9
          DEF HeadInv, Unopened, HeadsFollow, HeadHeld, InOrder, HeadAt, Syncs, Sent,
              NoneCrossed, Bound, Ids
<1>6. ASSUME NEW t \in ptx, Commit(t), NoneReopened, NoneCrossed', InOrder', pr.stamp # 0
      PROVE  t.d.kind # "synchronize" => Bound(t.d.head)
  <2>1. NoneCrossed BY <1>6, OpenOnlyShrinks
  <2>2. InOrder BY <1>0, <1>6, CommittedInOrder
  <2>3. Bound(pr.head) BY <1>0, <1>6, <2>1, <2>2 DEF HeadHeld
  <2> QED BY <1>6, <2>3, NoPushNoMove
<1>7. ASSUME NEW t \in ptx, ApplyOpened(t) PROVE HeadInv'
  <2>1. Commit(t) /\ t.d.kind = "opened" BY <1>7 DEF ApplyOpened
  <2>2. CASE t.open = {}
    <3>1. rows' = InsertAwaiting(t.d.head, FALSE) /\ t.d.head \in Revs BY <1>0, <1>7, <2>2 DEF ApplyOpened
    <3>2. Bound(t.d.head)' BY <1>0, <3>1, InsertedBinds
    <3> QED BY <2>1, <3>2, HeadCommitted
  <2>3. CASE t.open # {}
    <3>1. rows' = rows BY <1>7, <2>3 DEF ApplyOpened
    <3>2. NoneReopened BY <3>1 DEF NoneReopened, Ids
    <3>3. pr.stamp # 0 BY <1>0, <2>3 DEF HeadInv, Unopened
    <3>4. NoneCrossed' /\ InOrder' => Bound(t.d.head)'
      BY <1>6, <2>1, <3>1, <3>2, <3>3 DEF Bound, Ids
    <3> QED BY <2>1, <3>4, HeadCommitted
  <2> QED BY <2>2, <2>3
<1>8. ASSUME NEW t \in ptx, ApplyRequested(t) PROVE HeadInv'
  <2>1. Commit(t) /\ t.d.kind = "review_requested" BY <1>8 DEF ApplyRequested
  <2>2. rows' = rows \/ rows' = ReopenApproval(t.open) BY <1>8 DEF ApplyRequested
  <2>3. NoneReopened
    <3>1. CASE rows' = rows BY <3>1 DEF NoneReopened, Ids
    <3>2. CASE rows' = ReopenApproval(t.open) BY <1>0, <3>2, ReopeningReopensNone
    <3> QED BY <2>2, <3>1, <3>2
  <2>4. \A h : Bound(h) => Bound(h)'
    <3>1. CASE rows' = rows BY <3>1 DEF Bound, Ids
    <3>2. CASE rows' = ReopenApproval(t.open) BY <1>0, <3>2, Reopened DEF Bound, Ids
    <3> QED BY <2>2, <3>1, <3>2
  <2>5. InOrder' => pr.stamp # 0 BY <2>1, OpeningFirst
  <2>6. NoneCrossed' /\ InOrder' => Bound(t.d.head)'
    BY <1>6, <2>1, <2>3, <2>4, <2>5
  <2> QED BY <2>1, <2>6, HeadCommitted
<1>9. ASSUME NEW t \in ptx, ApplySynchronize(t) PROVE HeadInv'
  <2>1. Commit(t) /\ t.d.kind = "synchronize" /\ t.outcome # "unread"
    BY <1>9 DEF ApplySynchronize
  <2>2. CASE t.outcome = "rebind"
    <3>1. rows' = Rebind(t.open, t.d.head) BY <1>9, <2>2 DEF ApplySynchronize
    <3>2. PICK i \in t.open : i \in Ids BY <1>0, <2>2 DEF Designated
    <3>3. i \in Ids' /\ rows'[i].rev = t.d.head BY <1>0, <3>1, <3>2, Rebound DEF Ids
    <3> QED BY <2>1, <3>3, HeadCommitted DEF Bound
  <2>3. CASE t.outcome = "candidate"
    <3>1. rows' = InsertAwaiting(t.d.head, FALSE) /\ t.d.head \in Revs BY <1>0, <1>9, <2>3 DEF ApplySynchronize
    <3>2. Bound(t.d.head)' BY <1>0, <3>1, InsertedBinds
    <3> QED BY <2>1, <3>2, HeadCommitted
  <2>4. CASE t.outcome = "noop"
    <3>1. rows' = rows BY <1>9, <2>4 DEF ApplySynchronize
    <3>2. ASSUME NoneCrossed', InOrder' PROVE Bound(t.d.head)'
      <4>1. NoneCrossed /\ InOrder
        BY <1>0, <2>1, <3>1, <3>2, CommittedInOrder DEF NoneCrossed, Ids
      <4>2. pr.stamp # 0 BY <2>1, <3>2, OpeningFirst
      <4>3. Bound(t.d.head) BY <1>0, <2>4, <4>1, <4>2 DEF Designated
      <4> QED BY <3>1, <4>3 DEF Bound, Ids
    <3> QED BY <2>1, <3>2, HeadCommitted
  <2> QED BY <1>0, <2>1, <2>2, <2>3, <2>4
<1>10. CASE UNCHANGED <<gh, pr, ptx, rows>> /\ wire' \subseteq wire
            /\ \A d \in wire : d.kind \in PRKinds => d \in wire'
  BY <1>00, <1>10, HeadUnmoved DEF NoneReopened, Ids
<1>11. ASSUME NEW k \in Ids, NEW st \in Open \cup Decided, NEW who \in Actors,
              rows' = ResolveApproval(k, st, who), UNCHANGED <<gh, pr, ptx>>,
              wire' \subseteq wire, \A d \in wire : d.kind \in PRKinds => d \in wire'
       PROVE  HeadInv'
  <2>1. NoneReopened BY <1>0, <1>11, ResolvingReopensNone
  <2>2. Ids' = Ids /\ \A i \in Ids : rows'[i].rev = rows[i].rev
    BY <1>0, <1>11, Resolved DEF Ids
  <2> QED BY <1>00, <1>11, <2>1, <2>2, HeadUnmoved
<1>12. ASSUME NEW x \in rtx, CommitReview(x) PROVE HeadInv'
  <2>1. x.id \in Ids /\ x.d.kind \in Verdicts /\ x.d.kind \in Open \cup Decided
        /\ Reviewer \in Actors
    BY <1>0 DEF TypeOK
  <2>2. wire' = wire \ {x.d} /\ UNCHANGED <<gh, pr, ptx>>
        /\ rows' = ResolveApproval(x.id, x.d.kind, Reviewer)
    BY <1>12 DEF CommitReview
  <2>3. wire' \subseteq wire /\ \A d \in wire : d.kind \in PRKinds => d \in wire'
    BY <2>1, <2>2
  <2> QED BY <1>11, <2>1, <2>2, <2>3
<1>13. ASSUME NEW p \in Deciders, NEW s \in Verdicts \cup {"rejected"}, Decide(p, s)
       PROVE  HeadInv'
  <2>1. page[p] \in Ids /\ s \in Open \cup Decided /\ p \in Actors
    BY <1>0, <1>13 DEF Decide, TypeOK
  <2>2. /\ UNCHANGED <<gh, wire, pr, ptx>>
        /\ rows' = rows \/ rows' = ResolveApproval(page[p], s, p)
    BY <1>13 DEF Decide
  <2> QED BY <1>10, <1>11, <2>1, <2>2
<1>14. ASSUME NEW d \in wire, ReviewIgnored(d) \/ BeginReview(d) PROVE HeadInv'
  BY <1>10, <1>14 DEF ReviewIgnored, BeginReview
<1>15. ASSUME NEW p, OpenPage(p) PROVE HeadInv'
  BY <1>10, <1>15 DEF OpenPage
<1>16. CASE UNCHANGED vars BY <1>10, <1>16 DEF vars
<1>17. ASSUME NEW h \in Revs, RequireApproval(h) PROVE HeadInv'
  <2>1. /\ rows' = InsertAwaiting(h, TRUE) /\ pr.stamp # 0
        /\ UNCHANGED <<gh, wire, pr, ptx>>
    BY <1>17 DEF RequireApproval
  <2>2. PICK f \in BOOLEAN : f = TRUE OBVIOUS
  <2>3. rows' = InsertAwaiting(h, f) BY ONLY <2>1, <2>2
  <2>4. NoneReopened BY ONLY <1>0, <2>3, h \in Revs, InsertingReopensNone
  <2>5. \A i \in Ids : rows'[i] = rows[i] BY <1>0, <2>1, FilingInserts
  <2> QED BY <1>00, <2>1, <2>4, <2>5, HeadUnmoved
<1>18. ASSUME NEW t \in ptx, DeliveryAborts(t) PROVE HeadInv'
  <2>1. UNCHANGED <<gh, wire, pr, rows>> /\ ptx' \subseteq ptx BY <1>18 DEF DeliveryAborts
  <2>2. NoneReopened BY <2>1 DEF NoneReopened, Ids
  <2> QED BY <1>00, <2>1, <2>2, HeadUnmoved DEF Ids
<1> QED BY <1>1, <1>2, <1>3, <1>4, <1>5, <1>7, <1>8, <1>9, <1>12, <1>13, <1>14, <1>15,
           <1>16, <1>17, <1>18 DEF Next

LEMMA HeadInit == Init => HeadInv
<1> SUFFICES ASSUME Init PROVE HeadInv OBVIOUS
<1> DEFINE d0 == [kind |-> "opened", head |-> 1, stamp |-> 1]
<1>1. /\ wire = {d0} /\ d0.kind = "opened" /\ d0.stamp = 1 /\ d0.head = 1
      /\ pr.head = 1 /\ pr.stamp = 0 /\ gh.head = 1 /\ Sent = 1 /\ ptx = {} /\ Ids = {}
  BY DEF Init, Sent, Ids
<1> HIDE DEF d0
<1>2. Stamped /\ Unopened /\ Designated /\ HeadHeld /\ DecidedBehind
  BY <1>1 DEF Stamped, Unopened, Designated, HeadHeld, DecidedBehind
<1>3. HeadsFollow
  <2>1. \A s : Syncs(s) = {} BY <1>1 DEF Syncs
  <2> QED BY <1>1, <2>1 DEF HeadsFollow, HeadAt
<1> QED BY <1>2, <1>3 DEF HeadInv

\* With every pull_request delivery applied and none of them late, the stored head
\* is the revision of some row, unless a review has written over a decision: what
\* DesignateRevision read under UpsertPR's lock is enough to never leave a push
\* without a row.
THEOREM HeadsBound == Spec => []HeadBound
<1>1. HeadInv => HeadBound BY DEF HeadInv, HeadBound, HeadHeld, InOrder, Unopened
<1> QED BY <1>1, HeadInit, HeadStep, PullInvariant, PTL DEF Spec
=============================================================================

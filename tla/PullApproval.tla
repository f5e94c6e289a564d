---------------------------- MODULE PullApproval ----------------------------
(***************************************************************************)
(* The approval rows of one task-correlated pull request, written by four  *)
(* kinds of transaction that share no lock:                                *)
(*   - pull_request deliveries (hooks/github.go applyPullRequest), which   *)
(*     UpsertPR serialises on the pull request's row;                      *)
(*   - pull_request_review deliveries (applyReview), which read the open   *)
(*     row plainly and then write it by id;                                *)
(*   - decisions from the web or the API (store.DecideApproval), which     *)
(*     lock the approval row FOR UPDATE and re-check that it is open;      *)
(*   - requirements filed by hand (api/approvals.go requireApproval), which *)
(*     insert a row and look at nothing but the unique key.                *)
(* A row is [rev, state, by] of the table approvals in lane ''; its id is  *)
(* its position in rows, and filed says that somebody filed it.  The       *)
(* fields crossed and late are history: a row that was written by id after *)
(* it had been decided, a pull request that a delivery older than the      *)
(* stored one was applied to.  PostgreSQL runs the transactions at READ    *)
(* COMMITTED, so each SELECT is a step of its own and a transaction's      *)
(* writes are one.                                                         *)
(***************************************************************************)
EXTENDS Integers, Sequences, FiniteSets

CONSTANTS
    NHeads,      \* commits the branch may point at
    MaxPushes,   \* bound: pushes to the branch
    MaxAsks,     \* bound: times a review is asked for after the opening
    MaxReviews,  \* bound: reviews submitted on GitHub
    Overlap,     \* bound: review deliveries being applied at once
    MaxFiled,    \* bound: requirements filed by hand
    Deciders,    \* actors who may decide here: they hold the role, none is the author
    Reviewer,    \* the actor of the GitHub login that reviews
    Nobody       \* the NULL of resolving_actor

ASSUME PullApprovalAssumption ==
    /\ NHeads \in Nat \ {0} /\ MaxPushes \in Nat /\ MaxAsks \in Nat
    /\ MaxReviews \in Nat /\ Overlap \in Nat /\ MaxFiled \in Nat
    /\ Nobody \notin Deciders /\ Reviewer \notin Deciders /\ Nobody # Reviewer

VARIABLES
    gh,     \* GitHub's side: the branch's head and what has happened so far
    wire,   \* deliveries not applied yet
    pr,     \* the github_pull_requests row: [head, stamp, late], stamp 0 before its insert
    rows,   \* the approvals rows of this pull request, by id
    ptx,    \* the pull_request delivery that holds the row lock: a set of at most one
    rtx,    \* review deliveries that have read the open row: [d, id]
    page    \* the row each decider's approval page is about, 0 for none

vars == <<gh, wire, pr, rows, ptx, rtx, page>>

Heads    == 1..NHeads
NoHead   == 0                 \* the revision '' of a requirement that names none
Revs     == Heads \cup {NoHead}
Actors   == Deciders \cup {Nobody, Reviewer}
Open     == {"awaiting", "changes_requested"}
Decided  == {"approved", "rejected"}
Verdicts == {"approved", "changes_requested"}
PRKinds  == {"opened", "review_requested", "synchronize"}
Outcomes == {"unread", "noop", "rebind", "candidate"}
Delivery == [kind : PRKinds \cup Verdicts, head : Heads, stamp : Nat]
Row      == [rev : Revs, state : Open \cup Decided, by : Actors, crossed : BOOLEAN,
             filed : BOOLEAN]

Ids        == DOMAIN rows
OpenIds    == {i \in Ids : rows[i].state \in Open}
\* OpenApprovalForLane: the newest open row of the lane; empty for ErrNotFound
OpenRow    == {i \in OpenIds : \A j \in OpenIds : j <= i}
Bound(h)   == \E i \in Ids : rows[i].rev = h
HasDecided == \E i \in Ids : rows[i].state \in Decided

\* InsertAwaitingApproval: ON CONFLICT (revision, lane, kind) DO NOTHING
InsertAwaiting(h, byHand) ==
    IF Bound(h) THEN rows
    ELSE Append(rows, [rev |-> h, state |-> "awaiting", by |-> Nobody, crossed |-> FALSE,
                       filed |-> byHand])
\* ResolveApproval: an UPDATE by id, with no condition on the state
ResolveApproval(i, state, who) ==
    [rows EXCEPT ![i] = [rev |-> @.rev, state |-> state, by |-> who,
                         crossed |-> @.crossed \/ @.state \in Decided,
                         filed |-> @.filed]]
\* An UPDATE by id alone.
ReopenApprovalById(ids) ==
    [i \in Ids |-> IF i \in ids
                   THEN [rows[i] EXCEPT !.state = "awaiting", !.by = Nobody] ELSE rows[i]]

\* ReopenApproval: the UPDATE takes the row only in changes_requested
ReopenApproval(ids) ==
    [i \in Ids |-> IF i \in ids /\ rows[i].state = "changes_requested"
                   THEN [rows[i] EXCEPT !.state = "awaiting", !.by = Nobody] ELSE rows[i]]
\* DesignateRevision's UPDATE by id, with no condition on the state either
Rebind(ids, h) ==
    [i \in Ids |-> IF i \in ids THEN [rows[i] EXCEPT !.rev = h] ELSE rows[i]]
\* An open row moves before anyone asks who binds the revision.
OnNewRevisionOpenFirst(open, hasDecided, boundAlready) ==
    CASE open # {} -> "rebind"
      [] open = {} /\ ~boundAlready /\ hasDecided -> "candidate"
      [] OTHER -> "noop"
\* Decided history asks for a candidate, open row or not.
OnNewRevisionDecidedFirst(open, hasDecided, boundAlready) ==
    CASE boundAlready -> "noop"
      [] ~boundAlready /\ hasDecided -> "candidate"
      [] ~boundAlready /\ ~hasDecided /\ open # {} -> "rebind"
      [] OTHER -> "noop"
\* A decided pull request is left alone.
OnNewRevisionNoCandidate(open, hasDecided, boundAlready) ==
    IF ~boundAlready /\ open # {} THEN "rebind" ELSE "noop"

\* OnNewRevision, on what DesignateRevision's two SELECTs returned
OnNewRevision(open, hasDecided, boundAlready) ==
    CASE boundAlready -> "noop"
      [] ~boundAlready /\ open # {} -> "rebind"
      [] ~boundAlready /\ open = {} /\ hasDecided -> "candidate"
      [] OTHER -> "noop"

Init ==
    /\ gh = [head |-> 1, pushes |-> 0, asks |-> 0, reviews |-> 0]
    /\ wire = {[kind |-> "opened", head |-> 1, stamp |-> 1]}
    /\ pr = [head |-> 1, stamp |-> 0, late |-> FALSE]
    /\ rows = <<>> /\ ptx = {} /\ rtx = {}
    /\ page = [p \in Deciders |-> 0]

-----------------------------------------------------------------------------
\* GitHub: the branch is pushed, a review is asked for or submitted.
Sent == 1 + gh.pushes + gh.asks + gh.reviews
Send(kind, h) ==
    /\ wire' = wire \cup {[kind |-> kind, head |-> h, stamp |-> Sent + 1]}
    /\ UNCHANGED <<pr, rows, ptx, rtx, page>>
Push(h) ==
    /\ gh.pushes < MaxPushes /\ h # gh.head
    /\ gh' = [gh EXCEPT !.head = h, !.pushes = @ + 1]
    /\ Send("synchronize", h)
\* review_requested, or ready_for_review, which is handled like opened
AskAgain(kind) ==
    /\ gh.asks < MaxAsks
    /\ gh' = [gh EXCEPT !.asks = @ + 1]
    /\ Send(kind, gh.head)
SubmitReview(verdict) ==
    /\ gh.reviews < MaxReviews
    /\ gh' = [gh EXCEPT !.reviews = @ + 1]
    /\ Send(verdict, gh.head)

-----------------------------------------------------------------------------
\* applyPullRequest: UpsertPR takes the pull request's row, then the handler
\* of the action reads the open approval.
BeginDelivery(d) ==
    /\ d.kind \in PRKinds /\ ptx = {}
    /\ ptx' = {[d |-> d, open |-> OpenRow, outcome |-> "unread",
                again |-> \E i \in OpenRow : rows[i].state = "changes_requested"]}
    /\ UNCHANGED <<gh, wire, pr, rows, rtx, page>>

\* The facts land unless the delivery is older than the stored one, and the
\* lock goes with the commit.
Commit(t) ==
    /\ pr' = IF t.d.stamp >= pr.stamp
             THEN [pr EXCEPT !.head = t.d.head, !.stamp = t.d.stamp]
             ELSE [pr EXCEPT !.late = TRUE]
    /\ wire' = wire \ {t.d} /\ ptx' = ptx \ {t}
    /\ UNCHANGED <<gh, rtx, page>>

\* openApproval: an open row stands for every revision, so it gets no second one.
ApplyOpened(t) ==
    /\ t.d.kind = "opened"
    /\ rows' = IF t.open = {} THEN InsertAwaiting(t.d.head, FALSE) ELSE rows
    /\ Commit(t)
\* reopenApproval
ApplyRequested(t) ==
    /\ t.d.kind = "review_requested"
    /\ rows' = IF t.again THEN ReopenApproval(t.open) ELSE rows
    /\ Commit(t)
\* DesignateRevision: the second SELECT, then the write it decides on
ReadHistory(t) ==
    /\ t.d.kind = "synchronize" /\ t.outcome = "unread"
    /\ ptx' = (ptx \ {t}) \cup {[t EXCEPT !.outcome = OnNewRevision(t.open, HasDecided, Bound(t.d.head))]}
    /\ UNCHANGED <<gh, wire, pr, rows, rtx, page>>
\* The rebinding UPDATE has no ON CONFLICT: another row that binds the head by
\* then, and the unique key fails it.
KeyTaken(t) == \E i \in Ids \ t.open : rows[i].rev = t.d.head
ApplySynchronize(t) ==
    /\ t.d.kind = "synchronize" /\ t.outcome # "unread"
    /\ t.outcome = "rebind" => ~KeyTaken(t)
    /\ rows' = CASE t.outcome = "rebind"    -> Rebind(t.open, t.d.head)
                 [] t.outcome = "candidate" -> InsertAwaiting(t.d.head, FALSE)
                 [] OTHER                   -> rows
    /\ Commit(t)

\* A failed statement, or a crash, takes the whole delivery back, the facts with
\* it; GitHub may be asked to deliver it again.
DeliveryAborts(t) ==
    /\ ptx' = ptx \ {t}
    /\ UNCHANGED <<gh, wire, pr, rows, rtx, page>>

-----------------------------------------------------------------------------
\* applyReview: without a pull request or an open row it changes nothing here.
ReviewIgnored(d) ==
    /\ d.kind \in Verdicts /\ \A x \in rtx : x.d # d
    /\ pr.stamp = 0 \/ OpenRow = {}
    /\ wire' = wire \ {d}
    /\ UNCHANGED <<gh, pr, rows, ptx, rtx, page>>
BeginReview(d) ==
    /\ d.kind \in Verdicts /\ \A x \in rtx : x.d # d
    /\ pr.stamp # 0 /\ Cardinality(rtx) < Overlap
    /\ \E i \in OpenRow : rtx' = rtx \cup {[d |-> d, id |-> i]}
    /\ UNCHANGED <<gh, wire, pr, rows, ptx, page>>
CommitReview(x) ==
    /\ rows' = ResolveApproval(x.id, x.d.kind, Reviewer)
    /\ rtx' = rtx \ {x} /\ wire' = wire \ {x.d}
    /\ UNCHANGED <<gh, pr, ptx, page>>

\* requireApproval: a row of any revision, or of none, once the pull request is
\* stored; a repeated call finds its row.  Neither the pull request's row nor an
\* approval's is locked.
RequireApproval(h) ==
    /\ pr.stamp # 0 /\ Cardinality({i \in Ids : rows[i].filed}) < MaxFiled
    /\ rows' = InsertAwaiting(h, TRUE)
    /\ UNCHANGED <<gh, wire, pr, ptx, rtx, page>>

\* A decider loads an approval's page; the form it posts names the row only.
OpenPage(p) ==
    /\ page[p] = 0
    /\ \E i \in OpenIds : page' = [page EXCEPT ![p] = i]
    /\ UNCHANGED <<gh, wire, pr, rows, ptx, rtx>>
\* No check that the row is still open.
DecideUnchecked(p, state) ==
    /\ page[p] # 0
    /\ rows' = ResolveApproval(page[p], state, p)
    /\ page' = [page EXCEPT ![p] = 0]
    /\ UNCHANGED <<gh, wire, pr, ptx, rtx>>

\* DecideApproval: SELECT ... FOR UPDATE, the open check, ResolveApproval; a row
\* already decided is ErrApprovalResolved, one of no revision ErrNoRevision.
Decide(p, state) ==
    /\ page[p] # 0
    /\ rows' = IF rows[page[p]].state \in Open /\ rows[page[p]].rev # NoHead
               THEN ResolveApproval(page[p], state, p) ELSE rows
    /\ page' = [page EXCEPT ![p] = 0]
    /\ UNCHANGED <<gh, wire, pr, ptx, rtx>>

Next ==
    \/ \E h \in Heads : Push(h)
    \/ \E k \in {"opened", "review_requested"} : AskAgain(k)
    \/ \E v \in Verdicts : SubmitReview(v)
    \/ \E d \in wire : BeginDelivery(d) \/ ReviewIgnored(d) \/ BeginReview(d)
    \/ \E t \in ptx : ApplyOpened(t) \/ ApplyRequested(t) \/ ReadHistory(t)
                      \/ ApplySynchronize(t) \/ DeliveryAborts(t)
    \/ \E x \in rtx : CommitReview(x)
    \/ \E h \in Revs : RequireApproval(h)
    \/ \E p \in Deciders : OpenPage(p) \/ \E s \in Verdicts \cup {"rejected"} : Decide(p, s)

Spec == Init /\ [][Next]_vars

-----------------------------------------------------------------------------
TypeOK ==
    /\ gh \in [head : Heads, pushes : Nat, asks : Nat, reviews : Nat]
    /\ wire \subseteq Delivery
    /\ pr \in [head : Heads, stamp : Nat, late : BOOLEAN]
    /\ rows \in Seq(Row)
    /\ ptx \subseteq [d : Delivery, open : SUBSET Ids, outcome : Outcomes, again : BOOLEAN]
    /\ rtx \subseteq [d : Delivery, id : Ids] /\ \A x \in rtx : x.d.kind \in Verdicts
    /\ page \in [Deciders -> Ids \cup {0}]

\* The rebinding UPDATE of DesignateRevision, which has no ON CONFLICT, fails a
\* delivery on the unique key only where somebody has filed a requirement for the
\* same head by hand: the other deliveries, GitHub reviews and decisions never
\* come between the check and the write.
KeyFreeToRebind ==
    \A t \in ptx : t.outcome = "rebind" =>
       \A i \in Ids : rows[i].rev = t.d.head => rows[i].filed

\* Asking for a review again never takes back a decision: ReopenApproval's
\* condition stands against an approval that lands after the handler has read
\* the row as changes_requested.
NoDecisionReopened ==
    [][\A i \in Ids : rows[i].state \in Decided => rows'[i].state # "awaiting"]_vars

\* Decisions made here never overwrite a decision (DecideApproval: the second
\* sees the resolved state rather than overwriting it), nor does any other
\* transaction: a decided row changes its verdict or its actor only under a
\* GitHub review that had read it open.
DecisionKept ==
    [][\A i \in Ids :
          /\ rows[i].state \in Decided
          /\ <<rows'[i].state, rows'[i].by>> # <<rows[i].state, rows[i].by>>
          => rows'[i].by = Reviewer /\ \E x \in rtx : x.id = i]_vars

\* No decided row has been written over.
NoneCrossed == \A i \in Ids : ~rows[i].crossed

\* A pull request that already has an open row gets no second one from its
\* deliveries, in whatever order they come and however often they are taken back
\* and delivered again: of the rows that nobody filed at most one is open, unless
\* a review has written over a decision.  Of two, OpenApprovalForLane would read
\* the newer and leave the older to stand.
OneIngestedOpen == NoneCrossed => Cardinality({i \in OpenIds : ~rows[i].filed}) <= 1

\* With every pull_request delivery applied, none of them after a newer one, the
\* head that was stored is the revision of some approval row: a push leaves no
\* head without a review asked of it, whatever is decided or filed meanwhile (but
\* not by a review that writes over a decision).
HeadBound ==
    NoneCrossed /\ ~pr.late /\ (\A d \in wire : d.kind \notin PRKinds) => Bound(pr.head)
=============================================================================

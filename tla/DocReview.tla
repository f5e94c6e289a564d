----------------------------- MODULE DocReview ------------------------------
(***************************************************************************)
(* A document from its draft to its acceptance and the amendments after    *)
(* it, as far as people decide about it: the roster (doc_reviewers), the   *)
(* approval lanes, one per reviewer and version and an unlaned one, the    *)
(* review with its rounds and threads, and the patched marks of sections.  *)
(* The writers hold different rows: the document (lockDoc: AcceptDoc,      *)
(* PatchDoc, SetDocReviewers, OpenReview), the review (lockReview: rounds, *)
(* threads, CloseReview) or one approval (DecideApproval); requests for    *)
(* approval hold none.  An operation is one step when nothing it reads can *)
(* change before it commits, and a Begin and a Commit otherwise.           *)
(* The document is a spec or an ADR; a plan's acceptance mints tasks.      *)
(***************************************************************************)
EXTENDS Integers, FiniteSets

CONSTANTS
    Reviewers,   \* actors a roster may name
    Intents,     \* thread intents opened: subset of {"change_request", "question"}
    Unlaned,     \* the lane '' of a submission's row
    MaxVersion,  \* bound: versions of the document
    MaxReviews,  \* bound: reviews opened
    MaxRosters,  \* bound: changes of the roster
    Deciding     \* bound: decisions under way at once

ASSUME DocReviewAssumption ==
    /\ Unlaned \notin Reviewers
    /\ Intents \subseteq {"change_request", "question"}
    /\ MaxVersion \in Nat \ {0} /\ MaxReviews \in Nat /\ MaxRosters \in Nat
    /\ Deciding \in Nat

Versions == 1..MaxVersion
Lanes    == Reviewers \cup {Unlaned}
Open     == {"awaiting", "changes_requested"}
States   == Open \cup {"approved", "rejected"}
Verdicts == {"approved", "changes_requested"}

VARIABLES
    doc,      \* the docs row: [version, status]
    roster,   \* doc_reviewers
    rosters,  \* changes of the roster so far
    lane,     \* the approvals rows: lane and version to state, "none" for no row
    marks,    \* last_revised_in of the sections that are marked patched
    review,   \* the newest review: [n, state, base], n 0 before the first
    verdict,  \* its rounds: each reviewer's latest verdict at each version
    threads,  \* intents of its open threads
    docTx,    \* the transaction that holds the document's row
    revTx,    \* the transaction that holds the review's row
    dec,      \* decisions under way, each holding its approval's row
    raced     \* history: versions decided on twice at once, or settled while a patch
              \* had marks up to them in hand

vars == <<doc, roster, rosters, lane, marks, review, verdict, threads, docTx, revTx,
          dec, raced>>

\* docTx and revTx are sets of at most one transaction.  Of a decision, or a round
\* that decides, settled says that it found every other row approved, and found is
\* what its clearing UPDATE found then: the marks up to its version.
Decision     == [lane : Lanes, version : Versions, state : States \ {"awaiting"},
                 settled : BOOLEAN, found : SUBSET Versions]
Round        == [op : {"round", "author"}, who : Lanes, version : Versions,
                 verdict : Verdicts, decides : BOOLEAN, settled : BOOLEAN,
                 found : SUBSET Versions]

Idle == docTx = {} /\ revTx = {} /\ dec = {}

Has(l, v) == lane[l][v] # "none"
\* InsertAwaitingApproval: ON CONFLICT DO NOTHING
InsertAwaiting(ls, v) ==
    lane' = [l \in Lanes |-> [lane[l] EXCEPT ![v] = IF l \in ls /\ @ = "none"
                                                   THEN "awaiting" ELSE @]]
\* openDocApprovals, the count behind the gate and OpenApprovalBound
OpenAt(v) == {l \in Lanes : lane[l][v] \in Open}
\* clearPatchedOnFullApproval's count, by the transaction that approves l
SettledBy(l, v) == \A m \in Lanes \ {l} : lane[m][v] \in {"none", "approved"}
\* A mutant: only the unnamed half.
GateUnnamed(v) == OpenAt(v) = {}
\* checkDocReviewerGate, its named half and then its unnamed half
Gate(v) == /\ \A r \in roster : lane[r][v] = "approved"
           /\ OpenAt(v) = {}
\* A mutant: the sections amended at the version itself are kept.
FoundBefore(v, settled) == IF settled THEN {m \in marks : m < v} ELSE {}
\* ClearPatchedSections: the rows its UPDATE finds committed, and locks
FoundMarks(v, settled) == IF settled THEN {m \in marks : m <= v} ELSE {}
\* The rows are unlocked, or gone, and whoever waits for them finds them no more.
Lose(ms, ts) == {[t EXCEPT !.found = @ \ ms] : t \in ts}
\* The UPDATE waits for the patch that has deleted the rows it found.
SectionsStored == \A t \in docTx : ~t.rebuilt
\* Nobody holds a section's row.
SectionsFree == \A t \in dec \cup revTx : t.found = {}
\* review.State
ReviewState(vs, base, ths) ==
    CASE \E r \in roster : vs[r][base] = "changes_requested" -> "changes_requested"
      [] roster # {} /\ (\A r \in roster : vs[r][base] = "approved")
         /\ "change_request" \notin ths -> "approved"
      [] OTHER -> "open"

Init ==
    /\ doc = [version |-> 1, status |-> "draft"]
    /\ roster = {} /\ rosters = 0
    /\ lane = [l \in Lanes |-> [v \in Versions |-> "none"]]
    /\ marks = {}
    /\ review = [n |-> 0, state |-> "closed", base |-> 1]
    /\ verdict = [r \in Reviewers |-> [v \in Versions |-> "none"]]
    /\ threads = {}
    /\ docTx = {} /\ revTx = {} /\ dec = {} /\ raced = {}

-----------------------------------------------------------------------------
(* Writers of the document's row *)

\* UpdateDocBody: every edit of a draft is its next version.
EditDraft ==
    /\ docTx = {}
    /\ doc.status = "draft" /\ doc.version < MaxVersion
    /\ doc' = [doc EXCEPT !.version = @ + 1]
    /\ UNCHANGED <<roster, rosters, lane, marks, review, verdict, threads, docTx,
                   revTx, dec, raced>>

SetDocReviewers(rs) ==
    /\ docTx = {} /\ rosters < MaxRosters /\ rs # roster
    /\ roster' = rs /\ rosters' = rosters + 1
    /\ UNCHANGED <<doc, lane, marks, review, verdict, threads, docTx, revTx, dec,
                   raced>>

\* OpenReview: the unique index refuses a second open one.
OpenReview ==
    /\ docTx = {}
    /\ roster # {} /\ review.state = "closed" /\ review.n < MaxReviews
    /\ review' = [n |-> review.n + 1, state |-> "open", base |-> doc.version]
    /\ verdict' = [r \in Reviewers |-> [v \in Versions |-> "none"]]
    /\ threads' = {}
    /\ InsertAwaiting(roster, doc.version)
    /\ UNCHANGED <<doc, roster, rosters, marks, docTx, revTx, dec, raced>>

\* AcceptDoc: the gate is asked about the version found under the lock.
BeginAccept ==
    /\ docTx = {}
    /\ doc.status = "draft" /\ Gate(doc.version)
    /\ docTx' = {[op |-> "accept", version |-> doc.version, marks |-> {}, rebuilt |-> FALSE]}
    /\ UNCHANGED <<doc, roster, rosters, lane, marks, review, verdict, threads,
                   revTx, dec, raced>>
\* A mutant: the review is closed without its lock.
CommitAcceptUnlocked(t) ==
    /\ t.op = "accept"
    /\ doc' = [doc EXCEPT !.status = "accepted"]
    /\ review' = [review EXCEPT !.state = "closed"]
    /\ docTx' = {}
    /\ UNCHANGED <<roster, rosters, lane, marks, verdict, threads, revTx, dec, raced>>
\* closeDocReview waits for whoever holds the review.
CommitAccept(t) ==
    /\ t.op = "accept"
    /\ review.state # "closed" => revTx = {}
    /\ doc' = [doc EXCEPT !.status = "accepted"]
    /\ review' = [review EXCEPT !.state = "closed"]
    /\ docTx' = {}
    /\ UNCHANGED <<roster, rosters, lane, marks, verdict, threads, revTx, dec, raced>>

\* PatchDoc on an accepted document: it reads the sections' marks (priorSections),
\* deletes the sections, waiting for whoever clears them, and writes them all again
\* (rebuildSectionsFrom).  A changed section moves to the new version and is marked
\* if the patch is substantive; emptied are the versions with no other marked
\* section left.
BeginPatch ==
    /\ docTx = {}
    /\ doc.status = "accepted" /\ doc.version < MaxVersion
    /\ docTx' = {[op |-> "patch", version |-> doc.version + 1, marks |-> marks,
                  rebuilt |-> FALSE]}
    /\ raced' = raced \cup {t.version : t \in {u \in dec \cup revTx :
                                u.settled /\ \E m \in marks : m <= u.version}}
    /\ UNCHANGED <<doc, roster, rosters, lane, marks, review, verdict, threads,
                   revTx, dec>>
RebuildSections(t) ==
    /\ t.op = "patch" /\ ~t.rebuilt /\ SectionsFree
    /\ docTx' = {[t EXCEPT !.rebuilt = TRUE]}
    /\ UNCHANGED <<doc, roster, rosters, lane, marks, review, verdict, threads,
                   revTx, dec, raced>>
CommitPatch(t, emptied, amended, substantive) ==
    /\ t.op = "patch" /\ t.rebuilt
    /\ substantive => roster # {}
    /\ emptied # {} => amended
    /\ amended => substantive \/ t.marks # {}
    /\ doc' = [doc EXCEPT !.version = t.version]
    /\ marks' = (t.marks \ emptied) \cup (IF amended THEN {t.version} ELSE {})
    /\ InsertAwaiting(IF substantive THEN roster ELSE {}, t.version)
    /\ docTx' = {} /\ dec' = Lose(Versions, dec) /\ revTx' = Lose(Versions, revTx)
    /\ UNCHANGED <<roster, rosters, review, verdict, threads, raced>>

\* AcceptRevision: the candidate's text replaces the marked one, whose sections it
\* deletes.
AcceptRevision ==
    /\ docTx = {} /\ SectionsFree
    /\ doc.status = "accepted" /\ doc.version < MaxVersion
    /\ doc' = [doc EXCEPT !.version = @ + 1]
    /\ marks' = {}
    /\ UNCHANGED <<roster, rosters, lane, review, verdict, threads, docTx, revTx,
                   dec, raced>>

-----------------------------------------------------------------------------
(* Requests that read the version before their transaction: v may be old *)

\* requestDocApproval, RequestDocApproval
RequestApproval(v) ==
    /\ roster # {} /\ v <= doc.version
    /\ InsertAwaiting(roster, v)
    /\ UNCHANGED <<doc, roster, rosters, marks, review, verdict, threads, docTx,
                   revTx, dec, raced>>
\* requireApproval: a row in any lane, filed by hand
RequireApproval(l, v) ==
    /\ v <= doc.version
    /\ InsertAwaiting({l}, v)
    /\ UNCHANGED <<doc, roster, rosters, marks, review, verdict, threads, docTx,
                   revTx, dec, raced>>
\* materializeDocApproval, for the doc-lifecycle watcher on a submission.  The
\* watcher asks for open rows of the version before its transaction begins, and by
\* the insert there may be some: the row comes like one that is filed by hand.
MaterializeApproval(v) == RequireApproval(Unlaned, v)

-----------------------------------------------------------------------------
(* Decisions: web page and API *)

\* A decision on a row of the version is under way.
UnderWay(v) == \/ \E d \in dec : d.version = v
               \/ \E t \in revTx : t.decides /\ t.version = v
\* The version is settled while a patch has marks up to it in hand.
Settling(v, settled) == IF settled /\ (\E t \in docTx : \E m \in t.marks : m <= v) THEN {v} ELSE {}

Locked(l, v) ==
    \/ \E d \in dec : d.lane = l /\ d.version = v
    \/ \E t \in revTx : t.decides /\ t.who = l /\ t.version = v
\* DecideApproval locks the row, checks that it is open, writes it, counts what is
\* not approved at its version among the rows it sees committed, and clears.
BeginDecision(l, v, s) ==
    LET settled == s = "approved" /\ SettledBy(l, v) IN
    /\ Cardinality(dec) < Deciding
    /\ lane[l][v] \in Open /\ ~Locked(l, v)
    /\ dec' = dec \cup {[lane |-> l, version |-> v, state |-> s, settled |-> settled,
                         found |-> FoundMarks(v, settled)]}
    /\ raced' = raced \cup Settling(v, settled) \cup (IF UnderWay(v) THEN {v} ELSE {})
    /\ UNCHANGED <<doc, roster, rosters, lane, marks, review, verdict, threads,
                   docTx, revTx>>
CommitDecision(d) ==
    /\ d.found # {} => SectionsStored
    /\ dec' = Lose(d.found, dec \ {d}) /\ revTx' = Lose(d.found, revTx)
    /\ lane' = [lane EXCEPT ![d.lane][d.version] = d.state]
    /\ marks' = marks \ d.found
    /\ UNCHANGED <<doc, roster, rosters, review, verdict, threads, docTx, raced>>

-----------------------------------------------------------------------------
(* Writers of the review's row *)

Reviewing == review.state # "closed" /\ revTx = {}

\* OpenThread and ResolveThread leave the state of the review as it is.
OpenThread(i) ==
    /\ Reviewing /\ threads' = threads \cup {i}
    /\ UNCHANGED <<doc, roster, rosters, lane, marks, review, verdict, docTx, revTx,
                   dec, raced>>
ResolveThread(i) ==
    /\ Reviewing /\ i \in threads /\ threads' = threads \ {i}
    /\ UNCHANGED <<doc, roster, rosters, lane, marks, review, verdict, docTx, revTx,
                   dec, raced>>

\* SubmitReviewerRound: the roster, the approval gate, and decideReviewerLane at
\* the review's base, which inserts a missing row, leaves one that is in the
\* verdict's state and fails on one that is decided otherwise.
BeginRound(r, v) ==
    LET decides == lane[r][review.base] # v
        settled == decides /\ v = "approved" /\ SettledBy(r, review.base)
    IN
    /\ Reviewing /\ r \in roster
    /\ v = "approved" => "change_request" \notin threads
    /\ ~Locked(r, review.base)
    /\ lane[r][review.base] \in {"none", v} \cup Open
    /\ revTx' = {[op |-> "round", who |-> r, version |-> review.base, verdict |-> v,
                  decides |-> decides, settled |-> settled,
                  found |-> FoundMarks(review.base, settled)]}
    /\ raced' = raced \cup Settling(review.base, settled)
                      \cup (IF decides /\ UnderWay(review.base) THEN {review.base} ELSE {})
    /\ UNCHANGED <<doc, roster, rosters, lane, marks, review, verdict, threads,
                   docTx, dec>>
\* A mutant: the lane is decided at the newest version.
CommitRoundNewest(t) ==
    /\ t.op = "round" /\ (t.found # {} => SectionsStored)
    /\ verdict' = [verdict EXCEPT ![t.who][t.version] = t.verdict]
    /\ review' = [review EXCEPT !.state = ReviewState(verdict', t.version, threads)]
    /\ lane' = [lane EXCEPT ![t.who][doc.version] = IF t.decides THEN t.verdict ELSE @]
    /\ marks' = marks \ t.found
    /\ revTx' = {} /\ dec' = Lose(t.found, dec)
    /\ UNCHANGED <<doc, roster, rosters, threads, docTx, raced>>
CommitRound(t) ==
    /\ t.op = "round" /\ (t.found # {} => SectionsStored)
    /\ verdict' = [verdict EXCEPT ![t.who][t.version] = t.verdict]
    /\ review' = [review EXCEPT !.state = ReviewState(verdict', t.version, threads)]
    /\ lane' = [lane EXCEPT ![t.who][t.version] = IF t.decides THEN t.verdict ELSE @]
    /\ marks' = marks \ t.found
    /\ revTx' = {} /\ dec' = Lose(t.found, dec)
    /\ UNCHANGED <<doc, roster, rosters, threads, docTx, raced>>

\* SubmitAuthorRound: the document's version is read without its lock.
BeginAuthorRound ==
    /\ Reviewing
    /\ "question" \notin threads /\ doc.version # review.base /\ roster # {}
    /\ revTx' = {[op |-> "author", who |-> Unlaned, version |-> doc.version,
                  verdict |-> "approved", decides |-> FALSE, settled |-> FALSE,
                  found |-> {}]}
    /\ UNCHANGED <<doc, roster, rosters, lane, marks, review, verdict, threads,
                   docTx, dec, raced>>
CommitAuthorRound(t) ==
    /\ t.op = "author"
    /\ review' = [review EXCEPT !.base = t.version, !.state = "open"]
    /\ InsertAwaiting(roster, t.version)
    /\ revTx' = {}
    /\ UNCHANGED <<doc, roster, rosters, marks, verdict, threads, docTx, dec, raced>>

Next ==
    \/ EditDraft \/ OpenReview \/ BeginAccept \/ BeginPatch \/ AcceptRevision
    \/ BeginAuthorRound
    \/ \E rs \in SUBSET Reviewers : SetDocReviewers(rs)
    \/ \E v \in Versions : \/ RequestApproval(v) \/ MaterializeApproval(v)
                          \/ \E r \in Reviewers : RequireApproval(r, v)
    \/ \E t \in docTx : \/ CommitAccept(t) \/ RebuildSections(t)
                        \/ \E ms \in SUBSET t.marks, m, s \in BOOLEAN : CommitPatch(t, ms, m, s)
    \/ \E l \in Lanes, v \in Versions, s \in States \ {"awaiting"} : BeginDecision(l, v, s)
    \/ \E d \in dec : CommitDecision(d)
    \/ \E i \in Intents : OpenThread(i) \/ ResolveThread(i)
    \/ \E r \in Reviewers, v \in Verdicts : BeginRound(r, v)
    \/ \E t \in revTx : CommitRound(t) \/ CommitAuthorRound(t)

Spec == Init /\ [][Next]_vars

-----------------------------------------------------------------------------
TypeOK ==
    /\ doc \in [version : Versions, status : {"draft", "accepted"}]
    /\ roster \subseteq Reviewers /\ rosters \in Nat
    /\ lane \in [Lanes -> [Versions -> States \cup {"none"}]]
    /\ marks \subseteq Versions
    /\ review \in [n : Nat, state : {"open", "changes_requested", "approved", "closed"},
                   base : Versions]
    /\ verdict \in [Reviewers -> [Versions -> Verdicts \cup {"none"}]]
    /\ threads \subseteq Intents
    /\ docTx \subseteq [op : {"accept", "patch"}, version : Versions, marks : SUBSET Versions,
                        rebuilt : BOOLEAN]
    /\ revTx \subseteq Round
    /\ dec \subseteq Decision
    /\ raced \subseteq Versions

\* A document is accepted only when every reviewer on its roster has an approved
\* lane at the version that is accepted (WL-REQ-1324), although lanes are decided
\* and requested without the document's lock.
AcceptedIsApproved ==
    [][doc'.status # doc.status =>
          \A r \in roster' : lane'[r][doc'.version] = "approved"]_vars

\* A closed review stays as it was closed: no round that was under way when the
\* document was accepted opens it again.
ClosedStays ==
    [][review.state = "closed" /\ review'.n = review.n => review' = review]_vars

\* An approving round stands for an approved lane at the version it reviewed.
RoundsHoldLanes ==
    \A r \in Reviewers, v \in Versions : verdict[r][v] = "approved" => lane[r][v] = "approved"

SettledVersion(v) == /\ \E l \in Lanes : Has(l, v)
                     /\ \A l \in Lanes : lane[l][v] \in {"none", "approved"}

\* Once every row of a version reads approved, no section amended up to it is
\* still marked patched, in whatever order decisions on it and on other versions
\* and patches clear, find cleared and write back what they had read, except at
\* versions where two decisions were made at once or a patch had such marks in
\* hand while the version was settled.
SettledClears ==
    \A v \in Versions \ raced : SettledVersion(v) => \A m \in marks : m > v

\* The same of every version: the patched marks come off a document once its
\* reviewers have settled the version that carries them
\* (clearPatchedOnFullApproval, internal/store/approvals.go:659-662).
MarksComeOff ==
    Idle => \A v \in Versions : SettledVersion(v) => \A m \in marks : m > v
=============================================================================

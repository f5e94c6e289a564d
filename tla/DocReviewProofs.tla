-------------------------- MODULE DocReviewProofs ---------------------------
(***************************************************************************)
(* What the rows' locks buy, for every number of reviewers, versions and   *)
(* reviews: a document is accepted only with its roster's lanes approved,  *)
(* an approving round stands for an approved lane, a closed review is not  *)
(* opened again by a round that was under way, and a version that has been *)
(* settled keeps no mark unless transactions crossed on it.                *)
(***************************************************************************)
EXTENDS DocReview, TLAPS

Asks(v) == \/ RequestApproval(v) \/ MaterializeApproval(v)
           \/ \E r \in Reviewers : RequireApproval(r, v)

\* One transaction holds the document, one the review, and a review that is held
\* is not closed.
LockHeld ==
    /\ \A t, u \in docTx : t = u
    /\ \A t, u \in revTx : t = u
    /\ revTx # {} => review.state # "closed"

\* What a transaction under way has found cannot be taken from it: the gate of an
\* acceptance, the openness of a row about to be decided, the approval that an
\* approving round found there already.
Found ==
    /\ \A t \in docTx : t.op = "accept" => \A r \in roster : lane[r][doc.version] = "approved"
    /\ \A d \in dec : lane[d.lane][d.version] \in Open
    /\ \A t \in revTx :
          /\ t.decides => t.op = "round" /\ lane[t.who][t.version] # "approved"
          /\ t.op = "round" => t.who \in Reviewers
          /\ t.op = "round" /\ ~t.decides /\ t.verdict = "approved" =>
                lane[t.who][t.version] = "approved"

\* A row is decided by one transaction at a time.
RowHeld ==
    /\ \A d, e \in dec : d.lane = e.lane /\ d.version = e.version => d = e
    /\ \A d \in dec, t \in revTx : t.decides => ~(d.lane = t.who /\ d.version = t.version)

DocInv == TypeOK /\ LockHeld /\ Found /\ RowHeld /\ RoundsHoldLanes

\* Rows, reviews, rounds and patches are of versions that the document has
\* reached, a patch under way of the next one.
RowsReached == \A l \in Lanes, v \in Versions : Has(l, v) => v <= doc.version
TxReached ==
    /\ review.base <= doc.version
    /\ \A t \in revTx : t.version <= doc.version
    /\ \A t \in docTx : t.op = "patch" => t.version = doc.version + 1
VersionsReached == RowsReached /\ TxReached

\* A version on which two decisions were never under way at once has one at most.
OneDecides ==
    /\ \A d, e \in dec : d.version = e.version /\ d.version \notin raced => d = e
    /\ \A d \in dec, t \in revTx : t.decides /\ d.version = t.version => d.version \in raced

\* An approval that did not find its version settled leaves a row that is not
\* approved beside it.
OthersOpen ==
    /\ \A d \in dec : d.state = "approved" /\ ~d.settled /\ d.version \notin raced =>
          \E m \in Lanes \ {d.lane} : lane[m][d.version] \notin {"none", "approved"}
    /\ \A t \in revTx :
          t.decides /\ t.verdict = "approved" /\ ~t.settled /\ t.version \notin raced =>
             \E m \in Lanes \ {t.who} : lane[m][t.version] \notin {"none", "approved"}

\* The marks of the document, and those a patch has in hand, are all later than a
\* settled version.
MarksLater ==
    \A v \in Versions \ raced : SettledVersion(v) =>
        /\ \A m \in marks : m > v
        /\ \A t \in docTx : t.op = "patch" => \A m \in t.marks : m > v

\* A decision, or a round, that has settled its version has found whatever marks
\* there are up to it, and no patch has such marks in hand.
FoundsAll(settled, v, found) ==
    settled /\ v \notin raced =>
        /\ \A m \in marks : m <= v => m \in found
        /\ \A t \in docTx : t.op = "patch" => \A m \in t.marks : m > v
FoundUpTo(x) == FoundsAll(x.settled, x.version, x.found)
FoundAll == \A x \in dec \cup revTx : FoundUpTo(x)

MarksInv == VersionsReached /\ OneDecides /\ OthersOpen /\ FoundAll /\ MarksLater

LaneType == [Lanes -> [Versions -> States \cup {"none"}]]

\* No step takes an approval back: only open rows and missing ones are written.
ApprovalsStay ==
    \A l \in Lanes, v \in Versions : lane[l][v] = "approved" => lane'[l][v] = "approved"

USE DocReviewAssumption DEF Versions, Lanes, Open, States, Verdicts

-----------------------------------------------------------------------------
(* What the steps do to the lanes *)

\* An insertion writes missing rows only.
LEMMA Inserted ==
    ASSUME TypeOK, NEW ls, NEW v \in Versions, InsertAwaiting(ls, v)
    PROVE  /\ lane' \in LaneType
           /\ \A l \in Lanes, w \in Versions :
                 \/ lane'[l][w] = lane[l][w]
                 \/ lane[l][w] = "none" /\ lane'[l][w] = "awaiting" /\ w = v
<1>1. lane \in LaneType BY DEF TypeOK, LaneType
<1>2. ASSUME NEW l \in Lanes
      PROVE  /\ lane'[l] \in [Versions -> States \cup {"none"}]
             /\ \A w \in Versions : \/ lane'[l][w] = lane[l][w]
                                    \/ /\ lane[l][w] = "none"
                                       /\ lane'[l][w] = "awaiting" /\ w = v
  <2>1. lane[l] \in [Versions -> States \cup {"none"}] BY <1>1 DEF LaneType
  <2>2. lane'[l] = [lane[l] EXCEPT ![v] = IF l \in ls /\ @ = "none" THEN "awaiting" ELSE @]
    BY DEF InsertAwaiting
  <2> QED BY <2>1, <2>2
<1>3. lane' = [l \in Lanes |-> lane'[l]] BY DEF InsertAwaiting
<1> QED BY <1>2, <1>3 DEF LaneType

\* The end of a round in terms of the row it writes.
LEMMA RoundWrites ==
    ASSUME TypeOK, NEW t \in revTx, CommitRound(t)
    PROVE  /\ lane' \in LaneType
           /\ lane'[t.who][t.version] = IF t.decides THEN t.verdict
                                        ELSE lane[t.who][t.version]
           /\ \A m \in Lanes, w \in Versions :
                 m # t.who \/ w # t.version => lane'[m][w] = lane[m][w]
<1>1. /\ t.who \in Lanes /\ t.version \in Versions /\ t.verdict \in Verdicts
      /\ lane \in LaneType
  BY DEF TypeOK, Round, LaneType
<1>2. CASE t.decides
  <2>1. lane' = [lane EXCEPT ![t.who][t.version] = t.verdict]
    BY <1>1, <1>2 DEF CommitRound, LaneType
  <2>2. t.verdict \in States \cup {"none"} BY <1>1
  <2> QED BY <1>1, <1>2, <2>1, <2>2 DEF LaneType
<1>3. CASE ~t.decides
  <2>1. lane' = lane BY <1>1, <1>3 DEF CommitRound, LaneType
  <2> QED BY <1>1, <1>3, <2>1
<1> QED BY <1>2, <1>3

LEMMA DecisionWrites ==
    ASSUME TypeOK, NEW d \in dec, CommitDecision(d)
    PROVE  /\ lane' \in LaneType /\ lane'[d.lane][d.version] = d.state
           /\ \A m \in Lanes, w \in Versions :
                 m # d.lane \/ w # d.version => lane'[m][w] = lane[m][w]
<1>1. /\ d.lane \in Lanes /\ d.version \in Versions /\ d.state \in States
      /\ lane \in LaneType
  BY DEF TypeOK, Decision, LaneType
<1>2. lane' = [lane EXCEPT ![d.lane][d.version] = d.state] BY DEF CommitDecision
<1> QED BY <1>1, <1>2 DEF LaneType

\* What is left of decisions and rounds when others have taken ms off the marks:
\* each is one of them that finds ms no more.
DecLeft(us, ts, ms) == \A u \in us : \E t \in ts :
    /\ u = [t EXCEPT !.found = @ \ ms] /\ u.found = t.found \ ms
    /\ u.lane = t.lane /\ u.version = t.version /\ u.state = t.state
    /\ u.settled = t.settled
RevLeft(us, ts, ms) == \A u \in us : \E t \in ts :
    /\ u = [t EXCEPT !.found = @ \ ms] /\ u.found = t.found \ ms
    /\ u.op = t.op /\ u.who = t.who /\ u.version = t.version
    /\ u.verdict = t.verdict /\ u.decides = t.decides /\ u.settled = t.settled

LEMMA LostByDecisions ==
    ASSUME NEW ms, NEW ts \in SUBSET Decision
    PROVE  Lose(ms, ts) \subseteq Decision /\ DecLeft(Lose(ms, ts), ts, ms)
<1> SUFFICES ASSUME NEW u \in Lose(ms, ts)
             PROVE  /\ u \in Decision
                    /\ \E t \in ts :
                          /\ u = [t EXCEPT !.found = @ \ ms] /\ u.found = t.found \ ms
                          /\ u.lane = t.lane /\ u.version = t.version /\ u.state = t.state
                          /\ u.settled = t.settled
  BY DEF DecLeft
<1>1. PICK t \in ts : u = [t EXCEPT !.found = @ \ ms] BY DEF Lose
<1>2. t \in Decision OBVIOUS
<1>3. /\ u.found = t.found \ ms /\ u.lane = t.lane /\ u.version = t.version
      /\ u.state = t.state /\ u.settled = t.settled /\ u \in Decision
  BY <1>1, <1>2 DEF Decision
<1> QED BY <1>1, <1>3

LEMMA LostByRounds ==
    ASSUME NEW ms, NEW ts \in SUBSET Round
    PROVE  Lose(ms, ts) \subseteq Round /\ RevLeft(Lose(ms, ts), ts, ms)
<1> SUFFICES ASSUME NEW u \in Lose(ms, ts)
             PROVE  /\ u \in Round
                    /\ \E t \in ts :
                          /\ u = [t EXCEPT !.found = @ \ ms] /\ u.found = t.found \ ms
                          /\ u.op = t.op /\ u.who = t.who /\ u.version = t.version
                          /\ u.verdict = t.verdict /\ u.decides = t.decides
                          /\ u.settled = t.settled
  BY DEF RevLeft
<1>1. PICK t \in ts : u = [t EXCEPT !.found = @ \ ms] BY DEF Lose
<1>2. t \in Round OBVIOUS
<1>3. /\ u.found = t.found \ ms /\ u.op = t.op /\ u.who = t.who /\ u.version = t.version
      /\ u.verdict = t.verdict /\ u.decides = t.decides /\ u.settled = t.settled
      /\ u \in Round
  BY <1>1, <1>2 DEF Round
<1> QED BY <1>1, <1>3

\* The commits that take marks off.
Takes == \/ \E d \in dec : CommitDecision(d)
         \/ \E t \in revTx : CommitRound(t)
         \/ \E t \in docTx : \E ms \in SUBSET t.marks, m, s \in BOOLEAN : CommitPatch(t, ms, m, s)

\* In their other fields what is left of them is as before.
DecFrom(us, ts) == \A u \in us : \E t \in ts :
    u.lane = t.lane /\ u.version = t.version /\ u.state = t.state /\ u.settled = t.settled
RevFrom(us, ts) == \A u \in us : \E t \in ts :
    /\ u.op = t.op /\ u.who = t.who /\ u.version = t.version
    /\ u.verdict = t.verdict /\ u.decides = t.decides /\ u.settled = t.settled

LEMMA FoundLost ==
    ASSUME TypeOK, Takes
    PROVE  /\ \E ms : DecLeft(dec', dec, ms) /\ RevLeft(revTx', revTx, ms)
           /\ DecFrom(dec', dec) /\ RevFrom(revTx', revTx)
<1>0. dec \in SUBSET Decision /\ revTx \in SUBSET Round BY DEF TypeOK
<1>1. ASSUME NEW d \in dec, CommitDecision(d)
      PROVE  DecLeft(dec', dec, d.found) /\ RevLeft(revTx', revTx, d.found)
  <2>1. dec' = Lose(d.found, dec \ {d}) /\ revTx' = Lose(d.found, revTx)
    BY <1>1 DEF CommitDecision
  <2>2. dec \ {d} \in SUBSET Decision BY <1>0
  <2>3. DecLeft(dec', dec \ {d}, d.found) BY <2>1, <2>2, LostByDecisions
  <2>4. RevLeft(revTx', revTx, d.found) BY <1>0, <2>1, LostByRounds
  <2> QED BY <2>3, <2>4 DEF DecLeft
<1>2. ASSUME NEW t \in revTx, CommitRound(t)
      PROVE  DecLeft(dec', dec, t.found) /\ RevLeft(revTx', revTx, t.found)
  <2>1. dec' = Lose(t.found, dec) /\ revTx' = {} BY <1>2 DEF CommitRound
  <2>2. DecLeft(dec', dec, t.found) BY <1>0, <2>1, LostByDecisions
  <2> QED BY <2>1, <2>2 DEF RevLeft
<1>3. ASSUME NEW t \in docTx, NEW ms \in SUBSET t.marks, NEW m \in BOOLEAN, NEW s \in BOOLEAN,
             CommitPatch(t, ms, m, s)
      PROVE  DecLeft(dec', dec, Versions) /\ RevLeft(revTx', revTx, Versions)
  <2>1. dec' = Lose(Versions, dec) /\ revTx' = Lose(Versions, revTx) BY <1>3 DEF CommitPatch
  <2> QED BY <1>0, <2>1, LostByDecisions, LostByRounds
<1>4. PICK ms : DecLeft(dec', dec, ms) /\ RevLeft(revTx', revTx, ms)
  BY <1>1, <1>2, <1>3 DEF Takes
<1>5. DecFrom(dec', dec) BY <1>4 DEF DecFrom, DecLeft
<1>6. RevFrom(revTx', revTx) BY <1>4 DEF RevFrom, RevLeft
<1> QED BY <1>4, <1>5, <1>6

LEMMA DecisionLeft ==
    ASSUME TypeOK, NEW d \in dec, CommitDecision(d)
    PROVE  /\ \A e \in dec' : \E t \in dec \ {d} :
                 /\ e.lane = t.lane /\ e.version = t.version /\ e.state = t.state
                 /\ e.settled = t.settled
           /\ RevFrom(revTx', revTx)
<1>1. dec' = Lose(d.found, dec \ {d}) BY DEF CommitDecision
<1>2. dec \ {d} \in SUBSET Decision BY DEF TypeOK
<1>3. DecLeft(dec', dec \ {d}, d.found) BY <1>1, <1>2, LostByDecisions
<1>4. RevFrom(revTx', revTx) BY FoundLost DEF Takes
<1> QED BY <1>3, <1>4 DEF DecLeft

\* The round and the decision that begin.
Submitted(r, v) ==
    LET decides == lane[r][review.base] # v
        settled == decides /\ v = "approved" /\ SettledBy(r, review.base)
    IN  [op |-> "round", who |-> r, version |-> review.base, verdict |-> v,
         decides |-> decides, settled |-> settled,
         found |-> FoundMarks(review.base, settled)]
Decided(l, v, s) ==
    LET settled == s = "approved" /\ SettledBy(l, v) IN
    [lane |-> l, version |-> v, state |-> s, settled |-> settled,
     found |-> FoundMarks(v, settled)]

\* A patch that has deleted the sections is the same patch.
LEMMA Rebuilt ==
    ASSUME TypeOK, NEW t \in docTx, RebuildSections(t)
    PROVE  \A u \in docTx' : u.op = "patch" /\ u.version = t.version /\ u.marks = t.marks
<1>1. docTx' = {[t EXCEPT !.rebuilt = TRUE]} /\ t.op = "patch" BY DEF RebuildSections
<1>2. t \in [op : {"accept", "patch"}, version : Versions, marks : SUBSET Versions,
             rebuilt : BOOLEAN]
  BY DEF TypeOK
<1> QED BY <1>1, <1>2

-----------------------------------------------------------------------------
(* Type correctness *)

LEMMA TypeInit == Init => TypeOK
<1> SUFFICES ASSUME Init PROVE TypeOK OBVIOUS
<1>1. 1 \in Versions OBVIOUS
<1> QED BY <1>1 DEF Init, TypeOK, Decision, Round

\* The state the roster and the rounds give a review.
LEMMA StateType ==
    ASSUME NEW vs, NEW b, NEW ths
    PROVE  ReviewState(vs, b, ths) \in {"open", "changes_requested", "approved", "closed"}
<1>1. CASE \E r \in roster : vs[r][b] = "changes_requested" BY <1>1 DEF ReviewState
<1>2. CASE /\ ~\E r \in roster : vs[r][b] = "changes_requested"
           /\ roster # {} /\ (\A r \in roster : vs[r][b] = "approved")
           /\ "change_request" \notin ths
  BY <1>2 DEF ReviewState
<1>3. CASE /\ ~\E r \in roster : vs[r][b] = "changes_requested"
           /\ ~(/\ roster # {} /\ (\A r \in roster : vs[r][b] = "approved")
                /\ "change_request" \notin ths)
  BY <1>3 DEF ReviewState
<1> QED BY <1>1, <1>2, <1>3

LEMMA TypeStep == TypeOK /\ [Next]_vars => TypeOK'
<1> SUFFICES ASSUME TypeOK, [Next]_vars PROVE TypeOK' OBVIOUS
<1> USE DEF TypeOK
<1>1. CASE EditDraft
  <2>1. doc.version + 1 \in Versions BY <1>1 DEF EditDraft
  <2> QED BY <1>1, <2>1 DEF EditDraft
<1>2. ASSUME NEW rs \in SUBSET Reviewers, SetDocReviewers(rs) PROVE TypeOK'
  BY <1>2 DEF SetDocReviewers
<1>3. CASE OpenReview
  <2>1. doc.version \in Versions OBVIOUS
  <2>2. lane' \in LaneType BY <1>3, <2>1, Inserted DEF OpenReview
  <2>3. /\ verdict' \in [Reviewers -> [Versions -> Verdicts \cup {"none"}]]
        /\ threads' \subseteq Intents
        /\ review' \in [n : Nat, base : Versions,
              state : {"open", "changes_requested", "approved", "closed"}]
    BY <1>3, <2>1 DEF OpenReview
  <2> QED BY <1>3, <2>2, <2>3 DEF OpenReview, LaneType
<1>4. CASE BeginAccept
  <2>1. [op |-> "accept", version |-> doc.version, marks |-> {}, rebuilt |-> FALSE] \in
           [op : {"accept", "patch"}, version : Versions, marks : SUBSET Versions,
            rebuilt : BOOLEAN]
    OBVIOUS
  <2> QED BY <1>4, <2>1 DEF BeginAccept
<1>5. ASSUME NEW t \in docTx, CommitAccept(t) PROVE TypeOK'
  BY <1>5 DEF CommitAccept
<1>6. CASE BeginPatch
  <2>1. doc.version + 1 \in Versions BY <1>6 DEF BeginPatch
  <2>2. raced' \subseteq Versions
    <3>1. \A u \in dec \cup revTx : u.version \in Versions BY DEF Decision, Round
    <3>2. raced' \subseteq raced \cup {u.version : u \in dec \cup revTx} BY <1>6 DEF BeginPatch
    <3> QED BY <3>1, <3>2
  <2> QED BY <1>6, <2>1, <2>2 DEF BeginPatch
<1>7. ASSUME NEW t \in docTx, NEW ms \in SUBSET t.marks, NEW m \in BOOLEAN, NEW s \in BOOLEAN,
             CommitPatch(t, ms, m, s)
      PROVE  TypeOK'
  <2>1. t.version \in Versions /\ t.marks \subseteq Versions OBVIOUS
  <2>2. lane' \in LaneType BY <1>7, <2>1, Inserted DEF CommitPatch
  <2>3. marks' \subseteq Versions BY <1>7, <2>1 DEF CommitPatch
  <2>4. dec' \subseteq Decision /\ revTx' \subseteq Round
    BY <1>7, LostByDecisions, LostByRounds DEF CommitPatch
  <2> QED BY <1>7, <2>1, <2>2, <2>3, <2>4 DEF CommitPatch, LaneType
<1>8. CASE AcceptRevision
  <2>1. doc.version + 1 \in Versions BY <1>8 DEF AcceptRevision
  <2> QED BY <1>8, <2>1 DEF AcceptRevision
<1>9. ASSUME NEW v \in Versions, RequestApproval(v) PROVE TypeOK'
  <2>1. lane' \in LaneType BY <1>9, Inserted DEF RequestApproval
  <2> QED BY <1>9, <2>1 DEF RequestApproval, LaneType
<1>10. ASSUME NEW v \in Versions, NEW l \in Lanes, RequireApproval(l, v) PROVE TypeOK'
  <2>1. lane' \in LaneType BY <1>10, Inserted DEF RequireApproval
  <2> QED BY <1>10, <2>1 DEF RequireApproval, LaneType
<1>11. ASSUME NEW t \in docTx, RebuildSections(t) PROVE TypeOK'
  BY <1>11 DEF RebuildSections
<1>12. ASSUME NEW l \in Lanes, NEW v \in Versions, NEW s \in States \ {"awaiting"},
              BeginDecision(l, v, s)
       PROVE  TypeOK'
  <2> DEFINE settled == s = "approved" /\ SettledBy(l, v)
  <2>1. FoundMarks(v, settled) \in SUBSET Versions BY DEF FoundMarks
  <2>2. settled \in BOOLEAN OBVIOUS
  <2>3. raced' \subseteq Versions BY <1>12 DEF BeginDecision, Settling
  <2>4. /\ dec' = dec \cup {[lane |-> l, version |-> v, state |-> s, settled |-> settled,
                              found |-> FoundMarks(v, settled)]}
        /\ UNCHANGED <<doc, roster, rosters, lane, marks, review, verdict, threads, docTx, revTx>>
    BY <1>12 DEF BeginDecision
  <2> HIDE DEF settled
  <2>5. dec' \subseteq Decision BY <2>1, <2>2, <2>4 DEF Decision
  <2> QED BY <2>3, <2>4, <2>5
<1>13. ASSUME NEW d \in dec, CommitDecision(d) PROVE TypeOK'
  <2>1. lane' \in LaneType BY <1>13, DecisionWrites
  <2>2. marks' \subseteq Versions BY <1>13 DEF CommitDecision
  <2>3. dec' \subseteq Decision /\ revTx' \subseteq Round
    BY <1>13, LostByDecisions, LostByRounds DEF CommitDecision
  <2> QED BY <1>13, <2>1, <2>2, <2>3 DEF CommitDecision, LaneType
<1>14. ASSUME NEW i \in Intents, OpenThread(i) PROVE TypeOK'
  BY <1>14 DEF OpenThread
<1>15. ASSUME NEW i \in Intents, ResolveThread(i) PROVE TypeOK'
  BY <1>15 DEF ResolveThread
<1>16. ASSUME NEW r \in Reviewers, NEW v \in Verdicts, BeginRound(r, v) PROVE TypeOK'
  <2> DEFINE decides == lane[r][review.base] # v
             settled == decides /\ v = "approved" /\ SettledBy(r, review.base)
  <2>1. FoundMarks(review.base, settled) \in SUBSET Versions BY DEF FoundMarks
  <2>2. settled \in BOOLEAN /\ decides \in BOOLEAN OBVIOUS
  <2>3. raced' \subseteq Versions BY <1>16 DEF BeginRound, Settling
  <2>4. /\ revTx' = {[op |-> "round", who |-> r, version |-> review.base, verdict |-> v,
                       decides |-> decides, settled |-> settled,
                       found |-> FoundMarks(review.base, settled)]}
        /\ UNCHANGED <<doc, roster, rosters, lane, marks, review, verdict, threads, docTx, dec>>
    BY <1>16 DEF BeginRound
  <2> HIDE DEF settled, decides
  <2>5. revTx' \subseteq Round BY <2>1, <2>2, <2>4 DEF Round
  <2> QED BY <2>3, <2>4, <2>5
<1>17. ASSUME NEW t \in revTx, CommitRound(t) PROVE TypeOK'
  <2>1. lane' \in LaneType BY <1>17, RoundWrites
  <2>2. marks' \subseteq Versions BY <1>17 DEF CommitRound
  <2>3. t.version \in Versions /\ t.verdict \in Verdicts BY DEF Round
  <2>4. verdict' \in [Reviewers -> [Versions -> Verdicts \cup {"none"}]]
    BY <1>17, <2>3 DEF CommitRound
  <2>5. ReviewState(verdict', t.version, threads) \in
           {"open", "changes_requested", "approved", "closed"}
    BY StateType DEF ReviewState
  <2>6. dec' \subseteq Decision BY <1>17, LostByDecisions DEF CommitRound
  <2> QED BY <1>17, <2>1, <2>2, <2>4, <2>5, <2>6 DEF CommitRound, LaneType
<1>18. CASE BeginAuthorRound
  <2>1. doc.version \in Versions OBVIOUS
  <2> QED BY <1>18, <2>1 DEF BeginAuthorRound, Round
<1>19. ASSUME NEW t \in revTx, CommitAuthorRound(t) PROVE TypeOK'
  <2>1. t.version \in Versions BY DEF Round
  <2>2. lane' \in LaneType BY <1>19, <2>1, Inserted DEF CommitAuthorRound
  <2> QED BY <1>19, <2>1, <2>2 DEF CommitAuthorRound, LaneType
<1>20. CASE UNCHANGED vars BY <1>20 DEF vars
<1> HIDE DEF TypeOK
<1> QED BY <1>1, <1>2, <1>3, <1>4, <1>5, <1>6, <1>7, <1>8, <1>9, <1>10, <1>11,
           <1>12, <1>13, <1>14, <1>15, <1>16, <1>17, <1>18, <1>19, <1>20
           DEF Next, MaterializeApproval

-----------------------------------------------------------------------------
(* The locks *)

\* Only a Begin fills docTx or revTx, and it finds it empty.
LEMMA HeldStep == TypeOK /\ LockHeld /\ [Next]_vars => LockHeld'
<1> SUFFICES ASSUME TypeOK, LockHeld, [Next]_vars PROVE LockHeld' OBVIOUS
<1> USE DEF LockHeld
<1>21. ASSUME Takes, docTx' \subseteq docTx, review' = review PROVE LockHeld'
  <2>1. PICK ms : RevLeft(revTx', revTx, ms) BY <1>21, FoundLost
  <2> QED BY <1>21, <2>1 DEF RevLeft
<1>1. CASE EditDraft BY <1>1 DEF EditDraft
<1>2. ASSUME NEW rs \in SUBSET Reviewers, SetDocReviewers(rs) PROVE LockHeld'
  BY <1>2 DEF SetDocReviewers
<1>3. CASE OpenReview BY <1>3 DEF OpenReview
<1>4. CASE BeginAccept BY <1>4 DEF BeginAccept
<1>5. ASSUME NEW t \in docTx, CommitAccept(t) PROVE LockHeld'
  BY <1>5 DEF CommitAccept
<1>6. CASE BeginPatch BY <1>6 DEF BeginPatch
<1>7. ASSUME NEW t \in docTx, NEW ms \in SUBSET t.marks, NEW m \in BOOLEAN, NEW s \in BOOLEAN,
             CommitPatch(t, ms, m, s)
      PROVE  LockHeld'
  <2>1. Takes BY <1>7 DEF Takes
  <2>2. docTx' = {} /\ review' = review BY <1>7 DEF CommitPatch
  <2> QED BY <1>21, <2>1, <2>2
<1>8. CASE AcceptRevision BY <1>8 DEF AcceptRevision
<1>9. ASSUME NEW v \in Versions, RequestApproval(v) PROVE LockHeld'
  BY <1>9 DEF RequestApproval
<1>10. ASSUME NEW v \in Versions, NEW l \in Lanes, RequireApproval(l, v) PROVE LockHeld'
  BY <1>10 DEF RequireApproval
<1>11. ASSUME NEW t \in docTx, RebuildSections(t) PROVE LockHeld'
  BY <1>11 DEF RebuildSections
<1>12. ASSUME NEW l \in Lanes, NEW v \in Versions, NEW s \in States \ {"awaiting"},
              BeginDecision(l, v, s)
       PROVE  LockHeld'
  BY <1>12 DEF BeginDecision
<1>13. ASSUME NEW d \in dec, CommitDecision(d) PROVE LockHeld'
  <2>1. Takes BY <1>13 DEF Takes
  <2> QED BY <1>13, <1>21, <2>1 DEF CommitDecision
<1>14. ASSUME NEW i \in Intents, OpenThread(i) PROVE LockHeld' BY <1>14 DEF OpenThread
<1>15. ASSUME NEW i \in Intents, ResolveThread(i) PROVE LockHeld' BY <1>15 DEF ResolveThread
<1>16. ASSUME NEW r \in Reviewers, NEW v \in Verdicts, BeginRound(r, v) PROVE LockHeld'
  BY <1>16 DEF BeginRound, Reviewing
<1>17. ASSUME NEW t \in revTx, CommitRound(t) PROVE LockHeld' BY <1>17 DEF CommitRound
<1>18. CASE BeginAuthorRound BY <1>18 DEF BeginAuthorRound, Reviewing
<1>19. ASSUME NEW t \in revTx, CommitAuthorRound(t) PROVE LockHeld'
  BY <1>19 DEF CommitAuthorRound
<1>20. CASE UNCHANGED vars BY <1>20 DEF vars
<1> QED BY <1>1, <1>2, <1>3, <1>4, <1>5, <1>6, <1>7, <1>8, <1>9, <1>10, <1>11,
           <1>12, <1>13, <1>14, <1>15, <1>16, <1>17, <1>18, <1>19, <1>20
           DEF Next, MaterializeApproval

LEMMA RowHeldStep == TypeOK /\ LockHeld /\ RowHeld /\ [Next]_vars => RowHeld'
<1> SUFFICES ASSUME TypeOK, LockHeld, RowHeld, [Next]_vars PROVE RowHeld' OBVIOUS
<1>1. ASSUME dec' \subseteq dec, revTx' \subseteq revTx PROVE RowHeld'
  BY <1>1 DEF RowHeld
<1>2. ASSUME NEW l \in Lanes, NEW v \in Versions, NEW s \in States \ {"awaiting"},
             BeginDecision(l, v, s)
      PROVE  RowHeld'
  BY <1>2 DEF BeginDecision, Locked, RowHeld
<1>3. ASSUME NEW r \in Reviewers, NEW v \in Verdicts, BeginRound(r, v) PROVE RowHeld'
  BY <1>3 DEF BeginRound, Reviewing, Locked, RowHeld
<1>4. CASE BeginAuthorRound BY <1>4 DEF BeginAuthorRound, RowHeld
<1>5. CASE \/ EditDraft \/ OpenReview \/ BeginPatch \/ AcceptRevision
           \/ UNCHANGED vars
  BY <1>1, <1>5 DEF EditDraft, OpenReview, BeginPatch, AcceptRevision, vars
<1>6. CASE \/ \E rs \in SUBSET Reviewers : SetDocReviewers(rs)
           \/ BeginAccept
           \/ \E v \in Versions : Asks(v)
           \/ \E t \in docTx : CommitAccept(t) \/ RebuildSections(t)
  BY <1>1, <1>6 DEF SetDocReviewers, BeginAccept, RequestApproval, MaterializeApproval,
                    RequireApproval, Asks,
                    CommitAccept, RebuildSections
<1>7. CASE \/ \E i \in Intents : OpenThread(i) \/ ResolveThread(i)
           \/ \E t \in revTx : CommitAuthorRound(t)
  BY <1>1, <1>7 DEF OpenThread, ResolveThread, CommitAuthorRound
<1>8. CASE Takes
  <2>1. PICK ms : DecLeft(dec', dec, ms) /\ RevLeft(revTx', revTx, ms)
    BY <1>8, FoundLost
  <2>2. ASSUME NEW d \in dec', NEW e \in dec', d.lane = e.lane, d.version = e.version
        PROVE  d = e
    <3>1. PICK t \in dec :
             d = [t EXCEPT !.found = @ \ ms] /\ d.lane = t.lane /\ d.version = t.version
      BY <2>1 DEF DecLeft
    <3>2. PICK u \in dec :
             e = [u EXCEPT !.found = @ \ ms] /\ e.lane = u.lane /\ e.version = u.version
      BY <2>1 DEF DecLeft
    <3>3. t = u BY <2>2, <3>1, <3>2 DEF RowHeld
    <3> QED BY <3>1, <3>2, <3>3
  <2>3. DecFrom(dec', dec) /\ RevFrom(revTx', revTx) BY <1>8, FoundLost
  <2>4. \A d \in dec', t \in revTx' : t.decides => ~(d.lane = t.who /\ d.version = t.version)
    BY <2>3 DEF RowHeld, DecFrom, RevFrom
  <2> QED BY <2>2, <2>4 DEF RowHeld
<1> QED BY <1>2, <1>3, <1>4, <1>5, <1>6, <1>7, <1>8 DEF Next, Asks, Takes

-----------------------------------------------------------------------------
(* Approvals are not taken back *)

\* A decision that is under way finds its row open, a round's its own not approved.
LEMMA ApprovalsStep == TypeOK /\ Found /\ [Next]_vars => ApprovalsStay
<1> SUFFICES ASSUME TypeOK, Found, [Next]_vars PROVE ApprovalsStay OBVIOUS
<1>1. ASSUME lane' = lane PROVE ApprovalsStay BY <1>1 DEF ApprovalsStay
<1>2. ASSUME NEW ls, NEW v \in Versions, InsertAwaiting(ls, v) PROVE ApprovalsStay
  <2>1. \A l \in Lanes, w \in Versions :
           \/ lane'[l][w] = lane[l][w]
           \/ lane[l][w] = "none" /\ lane'[l][w] = "awaiting"
    BY <1>2, Inserted
  <2> QED BY <2>1 DEF ApprovalsStay
<1>3. ASSUME NEW d \in dec, CommitDecision(d) PROVE ApprovalsStay
  <2>1. \A m \in Lanes, w \in Versions :
           m # d.lane \/ w # d.version => lane'[m][w] = lane[m][w]
    BY <1>3, DecisionWrites
  <2>2. lane[d.lane][d.version] # "approved" BY DEF Found
  <2> QED BY <2>1, <2>2 DEF ApprovalsStay
<1>4. ASSUME NEW t \in revTx, CommitRound(t) PROVE ApprovalsStay
  <2>1. /\ \A m \in Lanes, w \in Versions :
              m # t.who \/ w # t.version => lane'[m][w] = lane[m][w]
        /\ ~t.decides => lane'[t.who][t.version] = lane[t.who][t.version]
    BY <1>4, RoundWrites
  <2>2. t.decides => lane[t.who][t.version] # "approved" BY DEF Found
  <2>3. t.decides \in BOOLEAN BY DEF TypeOK, Round
  <2> QED BY <2>1, <2>2, <2>3 DEF ApprovalsStay
<1>5. CASE OpenReview BY <1>2, <1>5 DEF OpenReview, TypeOK
<1>6. ASSUME NEW t \in docTx, NEW ms \in SUBSET t.marks, NEW m \in BOOLEAN, NEW s \in BOOLEAN,
             CommitPatch(t, ms, m, s)
      PROVE  ApprovalsStay
  <2>1. t.version \in Versions BY DEF TypeOK
  <2> QED BY <1>2, <1>6, <2>1 DEF CommitPatch
<1>7. ASSUME NEW v \in Versions, Asks(v)
      PROVE  ApprovalsStay
  BY <1>2, <1>7 DEF RequestApproval, MaterializeApproval, RequireApproval, Asks
<1>8. ASSUME NEW t \in revTx, CommitAuthorRound(t) PROVE ApprovalsStay
  <2>1. t.version \in Versions BY DEF TypeOK, Round
  <2> QED BY <1>2, <1>8, <2>1 DEF CommitAuthorRound
<1>9. CASE \/ EditDraft \/ BeginPatch \/ AcceptRevision \/ BeginAuthorRound \/ UNCHANGED vars
           \/ \E rs \in SUBSET Reviewers : SetDocReviewers(rs)
           \/ BeginAccept
           \/ \E t \in docTx : CommitAccept(t) \/ RebuildSections(t)
  BY <1>1, <1>9 DEF EditDraft, BeginPatch, AcceptRevision, BeginAuthorRound, vars,
                    SetDocReviewers, BeginAccept, CommitAccept, RebuildSections
<1>10. CASE \/ \E l \in Lanes, v \in Versions, s \in States \ {"awaiting"} :
                  BeginDecision(l, v, s)
            \/ \E i \in Intents : OpenThread(i) \/ ResolveThread(i)
            \/ \E r \in Reviewers, v \in Verdicts : BeginRound(r, v)
  BY <1>1, <1>10 DEF BeginDecision, OpenThread, ResolveThread, BeginRound
<1> QED BY <1>3, <1>4, <1>5, <1>6, <1>7, <1>8, <1>9, <1>10 DEF Next, Asks

-----------------------------------------------------------------------------
(* What transactions under way have found stays true *)

GateHolds ==
    \A t \in docTx : t.op = "accept" => \A r \in roster : lane[r][doc.version] = "approved"
RowsOpen == \A d \in dec : lane[d.lane][d.version] \in Open
RoundFits ==
    \A t \in revTx :
          /\ t.decides => t.op = "round" /\ lane[t.who][t.version] # "approved"
          /\ t.op = "round" => t.who \in Reviewers
          /\ t.op = "round" /\ ~t.decides /\ t.verdict = "approved" =>
                lane[t.who][t.version] = "approved"

\* The roster and the version wait for the document's lock, approvals stay.
LEMMA GateStep == DocInv /\ [Next]_vars => GateHolds'
<1> SUFFICES ASSUME DocInv, [Next]_vars PROVE GateHolds' OBVIOUS
<1>1. TypeOK /\ LockHeld /\ GateHolds /\ ApprovalsStay
  BY ApprovalsStep DEF DocInv, Found, GateHolds
<1>2. ASSUME docTx' = docTx, roster' = roster, doc' = doc PROVE GateHolds'
  <2>1. doc.version \in Versions /\ roster \subseteq Lanes BY <1>1 DEF TypeOK
  <2> QED BY <1>1, <1>2, <2>1 DEF GateHolds, ApprovalsStay
<1>3. ASSUME docTx' = {} PROVE GateHolds' BY <1>3 DEF GateHolds
<1>4. CASE BeginAccept BY <1>4 DEF BeginAccept, Gate, GateHolds
<1>5. CASE BeginPatch BY <1>5 DEF BeginPatch, GateHolds
<1>6. CASE \/ EditDraft \/ AcceptRevision \/ \E rs \in SUBSET Reviewers : SetDocReviewers(rs)
           \/ \E t \in docTx : \/ CommitAccept(t)
                              \/ \E ms \in SUBSET t.marks, m, s \in BOOLEAN : CommitPatch(t, ms, m, s)
  BY <1>3, <1>6 DEF EditDraft, AcceptRevision, SetDocReviewers, CommitAccept, CommitPatch
<1>7. CASE \/ OpenReview \/ BeginAuthorRound \/ UNCHANGED vars
           \/ \E v \in Versions : Asks(v)
           \/ \E l \in Lanes, v \in Versions, s \in States \ {"awaiting"} :
                 BeginDecision(l, v, s)
  BY <1>2, <1>7 DEF OpenReview, BeginAuthorRound, vars, RequestApproval,
                    MaterializeApproval, RequireApproval, Asks, BeginDecision
<1>8. CASE \/ \E d \in dec : CommitDecision(d)
           \/ \E i \in Intents : OpenThread(i) \/ ResolveThread(i)
           \/ \E r \in Reviewers, v \in Verdicts : BeginRound(r, v)
           \/ \E t \in revTx : CommitRound(t) \/ CommitAuthorRound(t)
  BY <1>2, <1>8 DEF CommitDecision, OpenThread, ResolveThread, BeginRound, CommitRound,
                    CommitAuthorRound
<1>9. ASSUME NEW t \in docTx, RebuildSections(t) PROVE GateHolds'
  BY <1>1, <1>9, Rebuilt DEF GateHolds
<1> QED BY <1>9, <1>4, <1>5, <1>6, <1>7, <1>8 DEF Next, Asks

\* A row about to be decided is written by nobody else.
LEMMA RowsStep == DocInv /\ [Next]_vars => RowsOpen'
<1> SUFFICES ASSUME DocInv, [Next]_vars PROVE RowsOpen' OBVIOUS
<1>1. TypeOK /\ RowHeld /\ RowsOpen BY DEF DocInv, Found, RowsOpen
<1>2. \A d \in dec : d.lane \in Lanes /\ d.version \in Versions
  BY <1>1 DEF TypeOK, Decision
<1>3. ASSUME DecFrom(dec', dec), NEW ls, NEW v \in Versions, InsertAwaiting(ls, v) PROVE RowsOpen'
  <2>1. \A l \in Lanes, w \in Versions :
           \/ lane'[l][w] = lane[l][w]
           \/ lane[l][w] = "none" /\ lane'[l][w] = "awaiting"
    BY <1>1, <1>3, Inserted
  <2> QED BY <1>1, <1>2, <1>3, <2>1 DEF RowsOpen, DecFrom
<1>4. ASSUME NEW l \in Lanes, NEW v \in Versions, NEW s \in States \ {"awaiting"},
             BeginDecision(l, v, s)
      PROVE  RowsOpen'
  BY <1>1, <1>4 DEF BeginDecision, RowsOpen
<1>5. ASSUME NEW d \in dec, CommitDecision(d) PROVE RowsOpen'
  <2>1. \A m \in Lanes, w \in Versions :
           m # d.lane \/ w # d.version => lane'[m][w] = lane[m][w]
    BY <1>1, <1>5, DecisionWrites
  <2>2. \A e \in dec' : \E t \in dec \ {d} : e.lane = t.lane /\ e.version = t.version
    BY <1>1, <1>5, DecisionLeft
  <2>3. \A e \in dec \ {d} : e.lane # d.lane \/ e.version # d.version
    BY <1>1 DEF RowHeld
  <2>4. \A e \in dec \ {d} : lane'[e.lane][e.version] \in Open
    BY <1>1, <1>2, <2>1, <2>3 DEF RowsOpen
  <2> QED BY <2>2, <2>4 DEF RowsOpen
<1>6. ASSUME NEW t \in revTx, CommitRound(t) PROVE RowsOpen'
  <2>1. /\ \A m \in Lanes, w \in Versions :
              m # t.who \/ w # t.version => lane'[m][w] = lane[m][w]
        /\ ~t.decides => lane'[t.who][t.version] = lane[t.who][t.version]
    BY <1>1, <1>6, RoundWrites
  <2>2. DecFrom(dec', dec) BY <1>1, <1>6, FoundLost DEF Takes
  <2>3. \A d \in dec : lane'[d.lane][d.version] = lane[d.lane][d.version]
    BY <1>1, <1>2, <2>1 DEF RowHeld
  <2> QED BY <1>1, <2>2, <2>3 DEF RowsOpen, DecFrom
<1>7. CASE OpenReview BY <1>1, <1>3, <1>7 DEF OpenReview, TypeOK, DecFrom
<1>8. ASSUME NEW t \in docTx, NEW ms \in SUBSET t.marks, NEW m \in BOOLEAN, NEW s \in BOOLEAN,
             CommitPatch(t, ms, m, s)
      PROVE  RowsOpen'
  <2>1. t.version \in Versions BY <1>1 DEF TypeOK
  <2>2. DecFrom(dec', dec) BY <1>1, <1>8, FoundLost DEF Takes
  <2> QED BY <1>3, <1>8, <2>1, <2>2 DEF CommitPatch
<1>9. ASSUME NEW v \in Versions, Asks(v) PROVE RowsOpen'
  BY <1>3, <1>9 DEF RequestApproval, MaterializeApproval, RequireApproval, Asks, DecFrom
<1>10. ASSUME NEW t \in revTx, CommitAuthorRound(t) PROVE RowsOpen'
  <2>1. t.version \in Versions BY <1>1 DEF TypeOK, Round
  <2> QED BY <1>3, <1>10, <2>1 DEF CommitAuthorRound, DecFrom
<1>11. ASSUME dec' = dec, lane' = lane PROVE RowsOpen' BY <1>1, <1>11 DEF RowsOpen
<1>12. CASE \/ EditDraft \/ BeginPatch \/ AcceptRevision \/ BeginAuthorRound
            \/ UNCHANGED vars
            \/ \E rs \in SUBSET Reviewers : SetDocReviewers(rs)
           \/ BeginAccept
            \/ \E t \in docTx : CommitAccept(t) \/ RebuildSections(t)
  BY <1>11, <1>12 DEF EditDraft, BeginPatch, AcceptRevision, BeginAuthorRound, vars,
                      SetDocReviewers, BeginAccept, CommitAccept, RebuildSections
<1>13. CASE \/ \E i \in Intents : OpenThread(i) \/ ResolveThread(i)
            \/ \E r \in Reviewers, v \in Verdicts : BeginRound(r, v)
  BY <1>11, <1>13 DEF OpenThread, ResolveThread, BeginRound
<1> QED BY <1>4, <1>5, <1>6, <1>7, <1>8, <1>9, <1>10, <1>12, <1>13 DEF Next, Asks

\* A round in flight keeps its row: a missing one may appear, an approved one stays.
LEMMA RoundStep == DocInv /\ [Next]_vars => RoundFits'
<1> SUFFICES ASSUME DocInv, [Next]_vars PROVE RoundFits' OBVIOUS
<1>1. TypeOK /\ LockHeld /\ RowHeld /\ RoundFits /\ ApprovalsStay
  BY ApprovalsStep DEF DocInv, Found, RoundFits
<1>2. \A t \in revTx : t.who \in Lanes /\ t.version \in Versions BY <1>1 DEF TypeOK, Round
<1>3. ASSUME revTx' = {} PROVE RoundFits' BY <1>3 DEF RoundFits
<1>4. ASSUME RevFrom(revTx', revTx), NEW ls, NEW v \in Versions, InsertAwaiting(ls, v)
      PROVE  RoundFits'
  <2>1. \A l \in Lanes, w \in Versions :
           \/ lane'[l][w] = lane[l][w]
           \/ lane[l][w] = "none" /\ lane'[l][w] = "awaiting"
    BY <1>1, <1>4, Inserted
  <2>2. \A t \in revTx :
           /\ t.decides => t.op = "round" /\ lane'[t.who][t.version] # "approved"
           /\ t.op = "round" => t.who \in Reviewers
           /\ t.op = "round" /\ ~t.decides /\ t.verdict = "approved" =>
                lane'[t.who][t.version] = "approved"
    BY <1>1, <1>2, <2>1 DEF RoundFits
  <2> QED BY <1>4, <2>2 DEF RoundFits, RevFrom
<1>5. ASSUME NEW d \in dec, CommitDecision(d) PROVE RoundFits'
  <2>1. \A m \in Lanes, w \in Versions :
           m # d.lane \/ w # d.version => lane'[m][w] = lane[m][w]
    BY <1>1, <1>5, DecisionWrites
  <2>2. RevFrom(revTx', revTx) BY <1>1, <1>5, DecisionLeft
  <2>3. \A t \in revTx : t.decides => lane'[t.who][t.version] = lane[t.who][t.version]
    BY <1>1, <1>2, <2>1 DEF RowHeld
  <2>4. \A t \in revTx : lane[t.who][t.version] = "approved" =>
                            lane'[t.who][t.version] = "approved"
    BY <1>1, <1>2 DEF ApprovalsStay
  <2>5. \A t \in revTx :
           /\ t.decides => t.op = "round" /\ lane'[t.who][t.version] # "approved"
           /\ t.op = "round" => t.who \in Reviewers
           /\ t.op = "round" /\ ~t.decides /\ t.verdict = "approved" =>
                lane'[t.who][t.version] = "approved"
    BY <1>1, <2>3, <2>4 DEF RoundFits
  <2> QED BY <2>2, <2>5 DEF RoundFits, RevFrom
<1>6. ASSUME NEW r \in Reviewers, NEW v \in Verdicts, BeginRound(r, v) PROVE RoundFits'
  <2> DEFINE t == Submitted(r, v)
  <2>1. revTx' = {t} /\ lane' = lane BY <1>6 DEF BeginRound, Submitted
  <2>2. lane[r][review.base] \in {"none", v} \cup Open BY <1>6 DEF BeginRound
  <2>3. /\ t.op = "round" /\ t.who = r /\ t.version = review.base /\ t.verdict = v
        /\ t.decides = (lane[r][review.base] # v)
    BY DEF Submitted
  <2> HIDE DEF t
  <2>4. t.decides => lane[r][review.base] # "approved"
    BY <2>2, <2>3
  <2>5. ~t.decides /\ t.verdict = "approved" => lane[r][review.base] = "approved"
    BY <2>3
  <2> QED BY <2>1, <2>3, <2>4, <2>5 DEF RoundFits
<1>7. CASE BeginAuthorRound BY <1>7 DEF BeginAuthorRound, RoundFits
<1>8. ASSUME NEW t \in revTx, CommitRound(t) \/ CommitAuthorRound(t) PROVE RoundFits'
  BY <1>3, <1>8 DEF CommitRound, CommitAuthorRound
<1>9. CASE OpenReview BY <1>1, <1>4, <1>9 DEF OpenReview, TypeOK, RevFrom
<1>10. ASSUME NEW t \in docTx, NEW ms \in SUBSET t.marks, NEW m \in BOOLEAN, NEW s \in BOOLEAN,
             CommitPatch(t, ms, m, s)
       PROVE  RoundFits'
  <2>1. t.version \in Versions BY <1>1 DEF TypeOK
  <2>2. RevFrom(revTx', revTx) BY <1>1, <1>10, FoundLost DEF Takes
  <2> QED BY <1>4, <1>10, <2>1, <2>2 DEF CommitPatch
<1>11. ASSUME NEW v \in Versions, Asks(v) PROVE RoundFits'
  BY <1>4, <1>11 DEF RequestApproval, MaterializeApproval, RequireApproval, Asks, RevFrom
<1>12. ASSUME revTx' = revTx, lane' = lane PROVE RoundFits' BY <1>1, <1>12 DEF RoundFits
<1>13. CASE \/ EditDraft \/ BeginPatch \/ AcceptRevision \/ UNCHANGED vars
            \/ \E rs \in SUBSET Reviewers : SetDocReviewers(rs)
           \/ BeginAccept
            \/ \E t \in docTx : CommitAccept(t) \/ RebuildSections(t)
  BY <1>12, <1>13 DEF EditDraft, BeginPatch, AcceptRevision, vars, SetDocReviewers,
                      BeginAccept, CommitAccept, RebuildSections
<1>14. CASE \/ \E i \in Intents : OpenThread(i) \/ ResolveThread(i)
            \/ \E l \in Lanes, v \in Versions, s \in States \ {"awaiting"} :
                  BeginDecision(l, v, s)
  BY <1>12, <1>14 DEF OpenThread, ResolveThread, BeginDecision
<1> QED BY <1>5, <1>6, <1>7, <1>8, <1>9, <1>10, <1>11, <1>13, <1>14 DEF Next, Asks

-----------------------------------------------------------------------------
(* Rounds and lanes *)

LEMMA LanesStep == DocInv /\ [Next]_vars => RoundsHoldLanes'
<1> SUFFICES ASSUME DocInv, [Next]_vars PROVE RoundsHoldLanes' OBVIOUS
<1>1. TypeOK /\ RoundFits /\ RoundsHoldLanes /\ ApprovalsStay
  BY ApprovalsStep DEF DocInv, Found, RoundFits
<1>2. ASSUME verdict' = verdict PROVE RoundsHoldLanes'
  BY <1>1, <1>2 DEF RoundsHoldLanes, ApprovalsStay
<1>3. CASE OpenReview
  <2>1. \A r \in Reviewers, v \in Versions : verdict'[r][v] = "none" BY <1>3 DEF OpenReview
  <2> QED BY <2>1 DEF RoundsHoldLanes
<1>4. ASSUME NEW t \in revTx, CommitRound(t) PROVE RoundsHoldLanes'
  <2>1. /\ t.op = "round" /\ t.who \in Reviewers /\ t.version \in Versions
        /\ t.verdict \in Verdicts /\ t.decides \in BOOLEAN
    BY <1>1, <1>4 DEF CommitRound, RoundFits, TypeOK, Round
  <2>2. lane'[t.who][t.version] = IF t.decides THEN t.verdict ELSE lane[t.who][t.version]
    BY <1>1, <1>4, RoundWrites
  <2>3. t.verdict = "approved" => lane'[t.who][t.version] = "approved"
    BY <1>1, <2>1, <2>2 DEF RoundFits
  <2>4. verdict' = [verdict EXCEPT ![t.who][t.version] = t.verdict]
    BY <1>4 DEF CommitRound
  <2>5. /\ verdict'[t.who][t.version] = t.verdict
        /\ \A r \in Reviewers, v \in Versions :
              r # t.who \/ v # t.version => verdict'[r][v] = verdict[r][v]
    BY <1>1, <2>1, <2>4 DEF TypeOK
  <2> SUFFICES ASSUME NEW r \in Reviewers, NEW v \in Versions, verdict'[r][v] = "approved"
               PROVE  lane'[r][v] = "approved"
    BY DEF RoundsHoldLanes
  <2>6. CASE r = t.who /\ v = t.version BY <2>3, <2>5, <2>6
  <2>7. CASE ~(r = t.who /\ v = t.version)
    BY <1>1, <2>5, <2>7 DEF RoundsHoldLanes, ApprovalsStay
  <2> QED BY <2>6, <2>7
<1>5. CASE \/ EditDraft \/ BeginPatch \/ AcceptRevision \/ BeginAuthorRound \/ UNCHANGED vars
           \/ \E rs \in SUBSET Reviewers : SetDocReviewers(rs)
           \/ BeginAccept
           \/ \E v \in Versions : Asks(v)
           \/ \E t \in docTx : \/ CommitAccept(t) \/ RebuildSections(t)
                              \/ \E ms \in SUBSET t.marks, m, s \in BOOLEAN : CommitPatch(t, ms, m, s)
  BY <1>2, <1>5 DEF EditDraft, BeginPatch, AcceptRevision, BeginAuthorRound, vars,
                    SetDocReviewers, BeginAccept, RebuildSections, RequestApproval,
                    MaterializeApproval, RequireApproval, Asks,
                    CommitAccept, CommitPatch
<1>6. CASE \/ \E l \in Lanes, v \in Versions, s \in States \ {"awaiting"} :
                 BeginDecision(l, v, s)
           \/ \E d \in dec : CommitDecision(d)
           \/ \E i \in Intents : OpenThread(i) \/ ResolveThread(i)
           \/ \E r \in Reviewers, v \in Verdicts : BeginRound(r, v)
           \/ \E t \in revTx : CommitAuthorRound(t)
  BY <1>2, <1>6 DEF BeginDecision, CommitDecision, OpenThread, ResolveThread,
                    BeginRound, CommitAuthorRound
<1> QED BY <1>3, <1>4, <1>5, <1>6 DEF Next, Asks

-----------------------------------------------------------------------------
(* The theorems *)

LEMMA InvInit == Init => DocInv
<1> SUFFICES ASSUME Init PROVE DocInv OBVIOUS
<1>1. TypeOK BY TypeInit
<1>2. LockHeld /\ RowHeld /\ Found BY DEF Init, LockHeld, RowHeld, Found
<1>3. RoundsHoldLanes BY DEF Init, RoundsHoldLanes
<1> QED BY <1>1, <1>2, <1>3 DEF DocInv

LEMMA InvStep == DocInv /\ [Next]_vars => DocInv'
<1> SUFFICES ASSUME DocInv, [Next]_vars PROVE DocInv' OBVIOUS
<1>1. TypeOK' BY TypeStep DEF DocInv
<1>2. LockHeld' BY HeldStep DEF DocInv
<1>3. RowHeld' BY RowHeldStep DEF DocInv
<1>4. Found' BY GateStep, RowsStep, RoundStep DEF Found, GateHolds, RowsOpen, RoundFits
<1>5. RoundsHoldLanes' BY LanesStep
<1> QED BY <1>1, <1>2, <1>3, <1>4, <1>5 DEF DocInv

LEMMA Inductive == Spec => []DocInv
<1> QED BY InvInit, InvStep, PTL DEF Spec

\* Every reachable state has its types, the transactions under way included.
THEOREM TypeCorrect == Spec => []TypeOK
<1>1. DocInv => TypeOK BY DEF DocInv
<1> QED BY <1>1, Inductive, PTL

\* SubmitReviewerRound leaves no approving round whose lane is not approved,
\* whoever else decides that lane or requests it again.
THEOREM RoundsHold == Spec => []RoundsHoldLanes
<1>1. DocInv => RoundsHoldLanes BY DEF DocInv
<1> QED BY <1>1, Inductive, PTL

\* AcceptDoc accepts no document before each reviewer on its roster has approved
\* the accepted version: gate, roster and version are under the document's lock,
\* and the lanes, which are not, only ever gain approvals.
THEOREM AcceptanceGated == Spec => AcceptedIsApproved
<1>1. ASSUME DocInv, [Next]_vars, doc'.status # doc.status
      PROVE  \A r \in roster' : lane'[r][doc'.version] = "approved"
  <2>1. TypeOK BY <1>1 DEF DocInv
  <2>2. PICK t \in docTx : CommitAccept(t)
    <3>1. \/ \E t \in docTx : CommitAccept(t)
          \/ doc' = doc
          \/ \E v : doc' = [doc EXCEPT !.version = v]
      BY <1>1 DEF Next, vars, EditDraft, OpenReview, BeginPatch, AcceptRevision,
                  BeginAuthorRound, SetDocReviewers, BeginAccept, RebuildSections, RequestApproval,
                  MaterializeApproval, RequireApproval, Asks, CommitAccept, CommitPatch,
                  BeginDecision, CommitDecision, OpenThread, ResolveThread, BeginRound,
                  CommitRound, CommitAuthorRound
    <3>2. ASSUME NEW v, doc' = [doc EXCEPT !.version = v] PROVE doc'.status = doc.status
      BY <2>1, <3>2 DEF TypeOK
    <3> QED BY <1>1, <3>1, <3>2
  <2>3. roster' = roster /\ lane' = lane /\ doc'.version = doc.version /\ t.op = "accept"
    BY <2>1, <2>2 DEF CommitAccept, TypeOK
  <2>4. \A r \in roster : lane[r][doc.version] = "approved"
    BY <1>1, <2>2, <2>3 DEF DocInv, Found
  <2> QED BY <2>3, <2>4
<1>2. DocInv /\ [Next]_vars => [doc'.status # doc.status =>
          \A r \in roster' : lane'[r][doc'.version] = "approved"]_vars
  BY <1>1
<1> QED BY <1>2, Inductive, PTL DEF Spec, AcceptedIsApproved

\* closeDocReview waits for the round that holds the review, and no round begins
\* on a closed one: what was closed stays as it was closed.
THEOREM ClosedForGood == Spec => ClosedStays
<1>1. ASSUME DocInv, [Next]_vars, review.state = "closed", review'.n = review.n
      PROVE  review' = review
  <2>1. TypeOK /\ revTx = {} BY <1>1 DEF DocInv, LockHeld
  <2>2. CASE OpenReview
    <3>1. review'.n = review.n + 1 BY <2>2 DEF OpenReview
    <3>2. review.n \in Nat BY <2>1 DEF TypeOK
    <3> QED BY <1>1, <3>1, <3>2
  <2>3. ASSUME NEW t \in docTx, CommitAccept(t) PROVE review' = review
    <3>1. review' = [review EXCEPT !.state = "closed"] BY <2>3 DEF CommitAccept
    <3> QED BY <1>1, <2>1, <3>1 DEF TypeOK
  <2>4. CASE \/ EditDraft \/ BeginPatch \/ AcceptRevision \/ BeginAuthorRound
             \/ UNCHANGED vars
             \/ \E rs \in SUBSET Reviewers : SetDocReviewers(rs)
             \/ BeginAccept
             \/ \E v \in Versions : Asks(v)
             \/ \E t \in docTx : RebuildSections(t)
             \/ \E t \in docTx : \E ms \in SUBSET t.marks, m, s \in BOOLEAN : CommitPatch(t, ms, m, s)
    BY <2>4 DEF EditDraft, BeginPatch, AcceptRevision, BeginAuthorRound, vars,
                SetDocReviewers, BeginAccept, RebuildSections, RequestApproval,
                MaterializeApproval, RequireApproval, Asks,
                CommitPatch
  <2>5. CASE \/ \E l \in Lanes, v \in Versions, s \in States \ {"awaiting"} :
                   BeginDecision(l, v, s)
             \/ \E d \in dec : CommitDecision(d)
             \/ \E i \in Intents : OpenThread(i) \/ ResolveThread(i)
             \/ \E r \in Reviewers, v \in Verdicts : BeginRound(r, v)
    BY <2>5 DEF BeginDecision, CommitDecision, OpenThread, ResolveThread,
                BeginRound
  <2> QED BY <1>1, <2>1, <2>2, <2>3, <2>4, <2>5 DEF Next, Asks
<1>2. DocInv /\ [Next]_vars =>
         [review.state = "closed" /\ review'.n = review.n => review' = review]_vars
  BY <1>1
<1> QED BY <1>2, Inductive, PTL DEF Spec, ClosedStays

-----------------------------------------------------------------------------
(* The marks of a settled version *)

LEMMA RacedStep == [Next]_vars => raced \subseteq raced'
BY DEF Next, vars, EditDraft, OpenReview, BeginPatch, AcceptRevision, BeginAuthorRound,
       SetDocReviewers, BeginAccept, RebuildSections, RequestApproval, MaterializeApproval,
       RequireApproval, Asks, CommitAccept,
       CommitPatch, BeginDecision, CommitDecision, OpenThread, ResolveThread, BeginRound,
       CommitRound, CommitAuthorRound

\* An insertion settles nothing.
LEMMA InsertedUnsettled ==
    ASSUME TypeOK, NEW ls, NEW v \in Versions, InsertAwaiting(ls, v),
           NEW w \in Versions, SettledVersion(w)'
    PROVE  SettledVersion(w) /\ \A l \in Lanes : lane'[l][w] = lane[l][w]
<1>1. \A l \in Lanes : lane'[l][w] = lane[l][w]
  BY Inserted DEF SettledVersion
<1> QED BY <1>1 DEF SettledVersion, Has

LEMMA TxReachedStep == DocInv /\ VersionsReached /\ [Next]_vars => TxReached'
<1> SUFFICES ASSUME DocInv, VersionsReached, [Next]_vars PROVE TxReached' OBVIOUS
<1>1. TypeOK /\ TxReached BY DEF DocInv, VersionsReached, TxReached
<1>2. doc.version \in Nat /\ \A t \in revTx \cup docTx : t.version \in Nat
  BY <1>1 DEF TypeOK, Round
<1>3. ASSUME doc' = doc, docTx' \subseteq docTx, RevFrom(revTx', revTx),
             review'.base = review.base
      PROVE  TxReached'
  BY <1>1, <1>3 DEF TxReached, RevFrom
<1>4. CASE EditDraft \/ AcceptRevision
  <2>1. doc'.version = doc.version + 1 /\ docTx' = {} /\ revTx' = revTx /\ review' = review
    BY <1>1, <1>4 DEF EditDraft, AcceptRevision, TypeOK
  <2>2. review.base \in Nat BY <1>1 DEF TypeOK
  <2> QED BY <1>1, <1>2, <2>1, <2>2 DEF TxReached
<1>5. CASE OpenReview
  <2>1. review'.base = doc.version /\ doc' = doc /\ docTx' = docTx /\ revTx' = revTx
    BY <1>5 DEF OpenReview
  <2> QED BY <1>1, <1>2, <2>1 DEF TxReached
<1>6. CASE BeginAccept BY <1>1, <1>6 DEF BeginAccept, TxReached
<1>7. CASE BeginPatch BY <1>1, <1>7 DEF BeginPatch, TxReached
<1>8. ASSUME NEW t \in docTx, NEW ms \in SUBSET t.marks, NEW m \in BOOLEAN, NEW s \in BOOLEAN,
             CommitPatch(t, ms, m, s)
      PROVE  TxReached'
  <2>1. doc'.version = doc.version + 1 /\ docTx' = {} /\ review' = review
    BY <1>1, <1>8 DEF CommitPatch, TxReached, TypeOK
  <2>2. review.base \in Nat BY <1>1 DEF TypeOK
  <2>3. RevFrom(revTx', revTx) BY <1>1, <1>8, FoundLost DEF Takes
  <2>4. \A t1 \in revTx' : t1.version <= doc'.version
    BY <1>1, <1>2, <2>1, <2>3 DEF TxReached, RevFrom
  <2> QED BY <1>1, <1>2, <2>1, <2>2, <2>4 DEF TxReached
<1>9. ASSUME NEW t \in docTx, CommitAccept(t) PROVE TxReached'
  <2>1. /\ doc'.version = doc.version /\ docTx' = {} /\ revTx' = revTx
        /\ review'.base = review.base
    BY <1>1, <1>9 DEF CommitAccept, TypeOK
  <2> QED BY <1>1, <2>1 DEF TxReached
<1>10. ASSUME NEW r \in Reviewers, NEW v \in Verdicts, BeginRound(r, v) PROVE TxReached'
  <2>1. revTx' = {Submitted(r, v)} /\ UNCHANGED <<doc, docTx, review>>
    BY <1>10 DEF BeginRound, Submitted
  <2>2. Submitted(r, v).version = review.base BY DEF Submitted
  <2> HIDE DEF Submitted
  <2> QED BY <1>1, <2>1, <2>2 DEF TxReached
<1>11. CASE BeginAuthorRound BY <1>1, <1>2, <1>11 DEF BeginAuthorRound, TxReached
<1>12. ASSUME NEW t \in revTx, CommitRound(t) PROVE TxReached'
  <2>1. review'.base = review.base BY <1>1, <1>12 DEF CommitRound, TypeOK
  <2> QED BY <1>3, <1>12, <2>1 DEF CommitRound, RevFrom
<1>13. ASSUME NEW t \in revTx, CommitAuthorRound(t) PROVE TxReached'
  <2>1. review'.base = t.version BY <1>1, <1>13 DEF CommitAuthorRound, TypeOK
  <2> QED BY <1>1, <1>13, <2>1 DEF CommitAuthorRound, TxReached
<1>14. CASE \/ UNCHANGED vars
            \/ \E rs \in SUBSET Reviewers : SetDocReviewers(rs)
            \/ \E v \in Versions : Asks(v)
            \/ \E i \in Intents : OpenThread(i) \/ ResolveThread(i)
            \/ \E l \in Lanes, v \in Versions, s \in States \ {"awaiting"} :
                  BeginDecision(l, v, s)
  BY <1>3, <1>14 DEF vars, SetDocReviewers, RequestApproval, MaterializeApproval,
                     RequireApproval, Asks,
                     OpenThread, ResolveThread, BeginDecision, RevFrom
<1>15. ASSUME NEW d \in dec, CommitDecision(d) PROVE TxReached'
  BY <1>1, <1>3, <1>15, DecisionLeft DEF CommitDecision
<1>16. ASSUME NEW t \in docTx, RebuildSections(t) PROVE TxReached'
  <2>1. doc' = doc /\ revTx' = revTx /\ review' = review /\ t.op = "patch"
    BY <1>16 DEF RebuildSections
  <2> QED BY <1>1, <1>16, <2>1, Rebuilt DEF TxReached
<1> QED BY <1>4, <1>5, <1>6, <1>7, <1>8, <1>9, <1>10, <1>11, <1>12, <1>13, <1>14, <1>15,
           <1>16
        DEF Next, Asks

LEMMA RowsReachedStep == DocInv /\ VersionsReached /\ [Next]_vars => RowsReached'
<1> SUFFICES ASSUME DocInv, VersionsReached, [Next]_vars PROVE RowsReached' OBVIOUS
<1>1. TypeOK /\ RowsReached /\ TxReached /\ RowsOpen
  BY DEF DocInv, Found, RowsOpen, VersionsReached
<1>2. doc.version \in Nat BY <1>1 DEF TypeOK
<1>3. ASSUME lane' = lane, doc'.version \in Nat, doc.version <= doc'.version
      PROVE  RowsReached'
  BY <1>1, <1>2, <1>3 DEF RowsReached, Has
<1>4. ASSUME NEW ls, NEW v \in Versions, InsertAwaiting(ls, v), doc'.version \in Nat,
             doc.version <= doc'.version, v <= doc'.version
      PROVE  RowsReached'
  <2>1. \A l \in Lanes, w \in Versions :
           lane'[l][w] = lane[l][w] \/ (lane[l][w] = "none" /\ lane'[l][w] = "awaiting" /\ w = v)
    BY <1>1, <1>4, Inserted
  <2> QED BY <1>1, <1>2, <1>4, <2>1 DEF RowsReached, Has
<1>5. ASSUME NEW d \in dec, CommitDecision(d) PROVE RowsReached'
  <2>1. \A m \in Lanes, w \in Versions :
           m # d.lane \/ w # d.version => lane'[m][w] = lane[m][w]
    BY <1>1, <1>5, DecisionWrites
  <2>2. d.lane \in Lanes /\ d.version \in Versions /\ lane[d.lane][d.version] # "none"
    BY <1>1 DEF TypeOK, Decision, RowsOpen
  <2>3. doc' = doc BY <1>5 DEF CommitDecision
  <2> QED BY <1>1, <2>1, <2>2, <2>3 DEF RowsReached, Has
<1>6. ASSUME NEW t \in revTx, CommitRound(t) PROVE RowsReached'
  <2>1. \A m \in Lanes, w \in Versions :
           m # t.who \/ w # t.version => lane'[m][w] = lane[m][w]
    BY <1>1, <1>6, RoundWrites
  <2>2. doc' = doc /\ t.version <= doc.version BY <1>1, <1>6 DEF CommitRound, TxReached
  <2> QED BY <1>1, <2>1, <2>2 DEF RowsReached, Has
<1>7. CASE OpenReview BY <1>1, <1>2, <1>4, <1>7 DEF OpenReview, TypeOK
<1>8. ASSUME NEW t \in docTx, NEW ms \in SUBSET t.marks, NEW m \in BOOLEAN, NEW s \in BOOLEAN,
             CommitPatch(t, ms, m, s)
      PROVE  RowsReached'
  <2>1. t.version \in Versions /\ doc'.version = t.version /\ t.version = doc.version + 1
    BY <1>1, <1>8 DEF CommitPatch, TxReached, TypeOK
  <2> QED BY <1>2, <1>4, <1>8, <2>1 DEF CommitPatch
<1>9. ASSUME NEW v \in Versions, Asks(v) PROVE RowsReached'
  <2>1. PICK ls : InsertAwaiting(ls, v) /\ v <= doc.version /\ doc' = doc
    BY <1>9 DEF RequestApproval, MaterializeApproval, RequireApproval, Asks
  <2> QED BY <1>2, <1>4, <2>1
<1>10. ASSUME NEW t \in revTx, CommitAuthorRound(t) PROVE RowsReached'
  <2>1. t.version \in Versions /\ t.version <= doc.version BY <1>1 DEF TypeOK, Round, TxReached
  <2> QED BY <1>2, <1>4, <1>10, <2>1 DEF CommitAuthorRound
<1>11. CASE EditDraft \/ AcceptRevision
  <2>1. doc'.version = doc.version + 1 /\ lane' = lane
    BY <1>1, <1>11 DEF EditDraft, AcceptRevision, TypeOK
  <2> QED BY <1>2, <1>3, <2>1
<1>12. ASSUME NEW t \in docTx, CommitAccept(t) PROVE RowsReached'
  <2>1. doc'.version = doc.version /\ lane' = lane BY <1>1, <1>12 DEF CommitAccept, TypeOK
  <2> QED BY <1>2, <1>3, <2>1
<1>13. CASE \/ BeginPatch \/ BeginAccept \/ BeginAuthorRound \/ UNCHANGED vars
            \/ \E rs \in SUBSET Reviewers : SetDocReviewers(rs)
            \/ \E t \in docTx : RebuildSections(t)
            \/ \E i \in Intents : OpenThread(i) \/ ResolveThread(i)
            \/ \E l \in Lanes, v \in Versions, s \in States \ {"awaiting"} :
                  BeginDecision(l, v, s)
            \/ \E r \in Reviewers, v \in Verdicts : BeginRound(r, v)
  BY <1>2, <1>3, <1>13 DEF BeginPatch, BeginAccept, BeginAuthorRound, vars, SetDocReviewers,
                           RebuildSections, OpenThread, ResolveThread, BeginDecision,
                           BeginRound
<1> QED BY <1>5, <1>6, <1>7, <1>8, <1>9, <1>10, <1>11, <1>12, <1>13 DEF Next, Asks

LEMMA OneDecidesStep == DocInv /\ OneDecides /\ [Next]_vars => OneDecides'
<1> SUFFICES ASSUME DocInv, OneDecides, [Next]_vars PROVE OneDecides' OBVIOUS
<1>1. TypeOK /\ LockHeld /\ raced \subseteq raced' BY RacedStep DEF DocInv
<1>2. ASSUME dec' \subseteq dec, revTx' \subseteq revTx PROVE OneDecides'
  BY <1>1, <1>2 DEF OneDecides
<1>3. ASSUME NEW l \in Lanes, NEW v \in Versions, NEW s \in States \ {"awaiting"},
             BeginDecision(l, v, s)
      PROVE  OneDecides'
  <2> DEFINE n == Decided(l, v, s)
  <2>1. n.version = v BY DEF Decided
  <2>2. dec' = dec \cup {n} /\ revTx' = revTx BY <1>3 DEF BeginDecision, Decided
  <2>3. \/ v \in raced'
        \/ /\ \A d \in dec : d.version # v
           /\ \A t \in revTx : t.decides => t.version # v
    BY <1>3 DEF BeginDecision, UnderWay
  <2> HIDE DEF n
  <2> QED BY <1>1, <2>1, <2>2, <2>3 DEF OneDecides
<1>4. ASSUME NEW r \in Reviewers, NEW v \in Verdicts, BeginRound(r, v) PROVE OneDecides'
  <2> DEFINE t == Submitted(r, v)
  <2>1. t.version = review.base /\ t.decides = (lane[r][review.base] # v)
    BY DEF Submitted
  <2>2. revTx' = {t} /\ dec' = dec BY <1>4 DEF BeginRound, Submitted
  <2>3. t.decides => review.base \in raced' \/ \A d \in dec : d.version # review.base
    BY <1>4, <2>1 DEF BeginRound, UnderWay
  <2> HIDE DEF t
  <2> QED BY <1>1, <2>1, <2>2, <2>3 DEF OneDecides
<1>5. CASE BeginAuthorRound BY <1>5 DEF BeginAuthorRound, OneDecides
<1>6. CASE \/ EditDraft \/ OpenReview \/ BeginPatch \/ AcceptRevision \/ BeginAccept
           \/ UNCHANGED vars
           \/ \E rs \in SUBSET Reviewers : SetDocReviewers(rs)
           \/ \E v \in Versions : Asks(v)
           \/ \E t \in docTx : CommitAccept(t) \/ RebuildSections(t)
  BY <1>2, <1>6 DEF EditDraft, OpenReview, BeginPatch, AcceptRevision, BeginAccept, vars,
                    SetDocReviewers, RequestApproval, MaterializeApproval,
       RequireApproval, Asks, CommitAccept,
                    RebuildSections
<1>7. CASE \/ \E i \in Intents : OpenThread(i) \/ ResolveThread(i)
           \/ \E t \in revTx : CommitAuthorRound(t)
  BY <1>2, <1>7 DEF OpenThread, ResolveThread, CommitAuthorRound
<1>8. CASE Takes
  <2>1. PICK ms : DecLeft(dec', dec, ms) /\ RevLeft(revTx', revTx, ms)
    BY <1>1, <1>8, FoundLost
  <2>2. ASSUME NEW d \in dec', NEW e \in dec', d.version = e.version, d.version \notin raced
        PROVE  d = e
    <3>1. PICK t \in dec : d = [t EXCEPT !.found = @ \ ms] /\ d.version = t.version
      BY <2>1 DEF DecLeft
    <3>2. PICK u \in dec : e = [u EXCEPT !.found = @ \ ms] /\ e.version = u.version
      BY <2>1 DEF DecLeft
    <3>3. t = u BY <2>2, <3>1, <3>2 DEF OneDecides
    <3> QED BY <3>1, <3>2, <3>3
  <2>4. DecFrom(dec', dec) /\ RevFrom(revTx', revTx) BY <1>1, <1>8, FoundLost
  <2>3. \A d \in dec', t \in revTx' : t.decides /\ d.version = t.version => d.version \in raced
    BY <2>4 DEF OneDecides, DecFrom, RevFrom
  <2> QED BY <1>1, <2>2, <2>3 DEF OneDecides
<1> QED BY <1>3, <1>4, <1>5, <1>6, <1>7, <1>8 DEF Next, Asks, Takes

\* The row beside a decision stays as it is: whoever decides it races.
LEMMA OthersStep == DocInv /\ OneDecides /\ OthersOpen /\ [Next]_vars => OthersOpen'
<1> SUFFICES ASSUME DocInv, OneDecides, OthersOpen, [Next]_vars PROVE OthersOpen' OBVIOUS
<1>1. TypeOK /\ LockHeld /\ RowHeld /\ raced \subseteq raced' BY RacedStep DEF DocInv
<1>2. /\ \A d \in dec : d.lane \in Lanes /\ d.version \in Versions
      /\ \A t \in revTx : t.who \in Lanes /\ t.version \in Versions
  BY <1>1 DEF TypeOK, Decision, Round
<1>3. ASSUME lane' = lane, dec' \subseteq dec, revTx' \subseteq revTx PROVE OthersOpen'
  BY <1>1, <1>3 DEF OthersOpen
<1>15. ASSUME DecFrom(dec', dec), RevFrom(revTx', revTx),
              \A d \in dec' : d.version \notin raced =>
                 \A m \in Lanes : lane[m][d.version] \notin {"none", "approved"} =>
                    lane'[m][d.version] \notin {"none", "approved"},
              \A t \in revTx' : t.decides /\ t.version \notin raced =>
                 \A m \in Lanes : lane[m][t.version] \notin {"none", "approved"} =>
                    lane'[m][t.version] \notin {"none", "approved"}
       PROVE  OthersOpen'
  <2>1. \A d \in dec' : d.state = "approved" /\ ~d.settled /\ d.version \notin raced =>
           \E m \in Lanes \ {d.lane} : lane[m][d.version] \notin {"none", "approved"}
    BY <1>15 DEF OthersOpen, DecFrom
  <2>2. \A t \in revTx' :
           t.decides /\ t.verdict = "approved" /\ ~t.settled /\ t.version \notin raced =>
              \E m \in Lanes \ {t.who} : lane[m][t.version] \notin {"none", "approved"}
    BY <1>15 DEF OthersOpen, RevFrom
  <2> QED BY <1>1, <1>15, <2>1, <2>2 DEF OthersOpen
<1>4. ASSUME NEW ls, NEW v \in Versions, InsertAwaiting(ls, v), DecFrom(dec', dec),
             RevFrom(revTx', revTx)
      PROVE  OthersOpen'
  <2>1. \A l \in Lanes, w \in Versions :
           lane'[l][w] = lane[l][w] \/ (lane[l][w] = "none" /\ lane'[l][w] = "awaiting" /\ w = v)
    BY <1>1, <1>4, Inserted
  <2>2. /\ \A d \in dec' : d.version \in Versions
        /\ \A t \in revTx' : t.version \in Versions
    BY <1>2, <1>4 DEF DecFrom, RevFrom
  <2> QED BY <1>4, <1>15, <2>1, <2>2
<1>5. ASSUME NEW l \in Lanes, NEW v \in Versions, NEW s \in States \ {"awaiting"},
             BeginDecision(l, v, s)
      PROVE  OthersOpen'
  <2> DEFINE n == Decided(l, v, s)
  <2>1. /\ n.lane = l /\ n.version = v /\ n.state = s
        /\ n.settled = (s = "approved" /\ SettledBy(l, v))
    BY DEF Decided
  <2>2. dec' = dec \cup {n} /\ revTx' = revTx /\ lane' = lane BY <1>5 DEF BeginDecision, Decided
  <2> HIDE DEF n
  <2>3. n.state = "approved" /\ ~n.settled =>
           \E m \in Lanes \ {n.lane} : lane[m][n.version] \notin {"none", "approved"}
    BY <2>1 DEF SettledBy
  <2> QED BY <1>1, <2>2, <2>3 DEF OthersOpen
<1>6. ASSUME NEW r \in Reviewers, NEW v \in Verdicts, BeginRound(r, v) PROVE OthersOpen'
  <2> DEFINE t == Submitted(r, v)
  <2>1. /\ t.who = r /\ t.version = review.base /\ t.verdict = v
        /\ t.settled = (t.decides /\ v = "approved" /\ SettledBy(r, review.base))
    BY DEF Submitted
  <2>2. revTx' = {t} /\ dec' = dec /\ lane' = lane BY <1>6 DEF BeginRound, Submitted
  <2> HIDE DEF t
  <2>3. t.decides /\ t.verdict = "approved" /\ ~t.settled =>
           \E m \in Lanes \ {t.who} : lane[m][t.version] \notin {"none", "approved"}
    BY <2>1 DEF SettledBy
  <2> QED BY <1>1, <2>2, <2>3 DEF OthersOpen
<1>7. CASE BeginAuthorRound BY <1>1, <1>7 DEF BeginAuthorRound, OthersOpen
<1>8. ASSUME NEW d \in dec, CommitDecision(d) PROVE OthersOpen'
  <2>1. \A m \in Lanes, w \in Versions :
           m # d.lane \/ w # d.version => lane'[m][w] = lane[m][w]
    BY <1>1, <1>8, DecisionWrites
  <2>2. /\ \A e \in dec \ {d} : e.version \notin raced => e.version # d.version
        /\ \A t \in revTx : t.decides /\ t.version \notin raced => t.version # d.version
    BY DEF OneDecides
  <2>3. /\ \A e \in dec' : \E t \in dec \ {d} : e.version = t.version
        /\ RevFrom(revTx', revTx)
    BY <1>1, <1>8, DecisionLeft
  <2>4. DecFrom(dec', dec) BY <1>1, <1>8, FoundLost DEF Takes
  <2>5. \A e \in dec' : e.version \notin raced =>
           \A m \in Lanes : lane'[m][e.version] = lane[m][e.version]
    BY <1>2, <2>1, <2>2, <2>3
  <2>6. \A t \in revTx' : t.decides /\ t.version \notin raced =>
           \A m \in Lanes : lane'[m][t.version] = lane[m][t.version]
    BY <1>2, <2>1, <2>2, <2>3 DEF RevFrom
  <2> QED BY <1>15, <2>3, <2>4, <2>5, <2>6
<1>9. ASSUME NEW t \in revTx, CommitRound(t) PROVE OthersOpen'
  <2>1. /\ \A m \in Lanes, w \in Versions :
              m # t.who \/ w # t.version => lane'[m][w] = lane[m][w]
        /\ ~t.decides => lane'[t.who][t.version] = lane[t.who][t.version]
    BY <1>1, <1>9, RoundWrites
  <2>2. revTx' = {} BY <1>9 DEF CommitRound
  <2>3. \A d \in dec : t.decides /\ d.version \notin raced => d.version # t.version
    BY DEF OneDecides
  <2>4. \A d \in dec, m \in Lanes :
           d.version \notin raced => lane'[m][d.version] = lane[m][d.version]
    BY <1>2, <2>1, <2>3
  <2>5. DecFrom(dec', dec) /\ RevFrom(revTx', revTx) BY <1>1, <1>9, FoundLost DEF Takes
  <2>6. \A d \in dec', m \in Lanes :
           d.version \notin raced => lane'[m][d.version] = lane[m][d.version]
    BY <2>4, <2>5 DEF DecFrom
  <2> QED BY <1>15, <2>2, <2>5, <2>6
<1>10. CASE OpenReview BY <1>1, <1>4, <1>10 DEF OpenReview, TypeOK, DecFrom, RevFrom
<1>11. ASSUME NEW t \in docTx, NEW ms \in SUBSET t.marks, NEW m \in BOOLEAN, NEW s \in BOOLEAN,
              CommitPatch(t, ms, m, s)
       PROVE  OthersOpen'
  <2>1. t.version \in Versions BY <1>1 DEF TypeOK
  <2>2. DecFrom(dec', dec) /\ RevFrom(revTx', revTx) BY <1>1, <1>11, FoundLost DEF Takes
  <2> QED BY <1>4, <1>11, <2>1, <2>2 DEF CommitPatch
<1>12. ASSUME NEW v \in Versions, Asks(v) PROVE OthersOpen'
  BY <1>4, <1>12 DEF RequestApproval, MaterializeApproval, RequireApproval, Asks, DecFrom,
                     RevFrom
<1>13. ASSUME NEW t \in revTx, CommitAuthorRound(t) PROVE OthersOpen'
  BY <1>2, <1>4, <1>13 DEF CommitAuthorRound, DecFrom, RevFrom
<1>14. CASE \/ EditDraft \/ BeginPatch \/ AcceptRevision \/ BeginAccept \/ UNCHANGED vars
            \/ \E rs \in SUBSET Reviewers : SetDocReviewers(rs)
            \/ \E t \in docTx : CommitAccept(t) \/ RebuildSections(t)
            \/ \E i \in Intents : OpenThread(i) \/ ResolveThread(i)
  BY <1>3, <1>14 DEF EditDraft, BeginPatch, AcceptRevision, BeginAccept, vars,
                     SetDocReviewers, CommitAccept, RebuildSections, OpenThread, ResolveThread
<1> QED BY <1>5, <1>6, <1>7, <1>8, <1>9, <1>10, <1>11, <1>12, <1>13, <1>14 DEF Next, Asks

\* What is settled stays so when marks only go, or are taken by those who commit.
LEMMA FoundStep == DocInv /\ MarksInv /\ [Next]_vars => FoundAll'
<1> SUFFICES ASSUME DocInv, MarksInv, [Next]_vars PROVE FoundAll' OBVIOUS
<1>1. /\ TypeOK /\ LockHeld /\ raced \subseteq raced' /\ RowsOpen
      /\ RowsReached /\ TxReached /\ FoundAll
  BY RacedStep DEF DocInv, Found, RowsOpen, MarksInv, VersionsReached
<1>2. ASSUME dec' \subseteq dec, revTx' \subseteq revTx, marks' = marks,
             \A u \in docTx' : u.op = "patch" => \E t \in docTx : t.op = "patch" /\ u.marks = t.marks
      PROVE  FoundAll'
  <2> SUFFICES ASSUME NEW x \in dec \cup revTx, x.settled, x.version \notin raced'
               PROVE  /\ \A m \in marks' : m <= x.version => m \in x.found
                      /\ \A t \in docTx' : t.op = "patch" => \A m \in t.marks : m > x.version
    BY <1>2 DEF FoundAll, FoundUpTo, FoundsAll
  <2>1. /\ \A m \in marks : m <= x.version => m \in x.found
        /\ \A t \in docTx : t.op = "patch" => \A m \in t.marks : m > x.version
    BY <1>1 DEF FoundAll, FoundUpTo, FoundsAll
  <2> QED BY <1>2, <2>1
<1>3. ASSUME docTx' = docTx, NEW ms, marks' = marks \ ms,
             \A u \in dec' \cup revTx' : \E x \in dec \cup revTx :
                u.found = x.found \ ms /\ u.version = x.version /\ u.settled = x.settled
      PROVE  FoundAll'
  <2> SUFFICES ASSUME NEW u \in dec' \cup revTx', u.settled, u.version \notin raced'
               PROVE  /\ \A m \in marks' : m <= u.version => m \in u.found
                      /\ \A t \in docTx' : t.op = "patch" => \A m \in t.marks : m > u.version
    BY DEF FoundAll, FoundUpTo, FoundsAll
  <2>1. PICK x \in dec \cup revTx :
           u.found = x.found \ ms /\ u.version = x.version /\ u.settled = x.settled
    BY <1>3
  <2>2. /\ \A m \in marks : m <= x.version => m \in x.found
        /\ \A t \in docTx : t.op = "patch" => \A m \in t.marks : m > x.version
    BY <1>1, <2>1 DEF FoundAll, FoundUpTo, FoundsAll
  <2> QED BY <1>3, <2>1, <2>2
<1>4. ASSUME NEW n, UNCHANGED <<marks, docTx>>,
             \A u \in dec' \cup revTx' : u \in dec \cup revTx \/ u = n,
             n.found = FoundMarks(n.version, n.settled),
             Settling(n.version, n.settled) \subseteq raced'
      PROVE  FoundAll'
  <2> SUFFICES ASSUME NEW u \in dec' \cup revTx', u.settled, u.version \notin raced'
               PROVE  /\ \A m \in marks : m <= u.version => m \in u.found
                      /\ \A t \in docTx : t.op = "patch" => \A m \in t.marks : m > u.version
    BY <1>4 DEF FoundAll, FoundUpTo, FoundsAll
  <2>1. CASE u \in dec \cup revTx BY <1>1, <2>1 DEF FoundAll, FoundUpTo, FoundsAll
  <2>2. CASE u = n
    <3>1. \A m \in marks : m <= u.version => m \in u.found BY <1>4, <2>2 DEF FoundMarks
    <3>2. \A t \in docTx : \A m \in t.marks : ~(m <= u.version) BY <1>4, <2>2 DEF Settling
    <3>3. u.version \in Nat /\ \A t \in docTx : t.marks \subseteq Nat
      <4>1. TypeOK' BY <1>1, TypeStep
      <4> QED BY <1>1, <4>1 DEF TypeOK, Decision, Round
    <3> QED BY <3>1, <3>2, <3>3
  <2> QED BY <1>4, <2>1, <2>2
<1>5. ASSUME NEW l \in Lanes, NEW v \in Versions, NEW s \in States \ {"awaiting"},
             BeginDecision(l, v, s)
      PROVE  FoundAll'
  <2> DEFINE n == Decided(l, v, s)
  <2>1. n.version = v /\ n.found = FoundMarks(v, n.settled) BY DEF Decided
  <2>2. /\ dec' = dec \cup {n} /\ UNCHANGED <<revTx, marks, docTx>>
        /\ Settling(v, n.settled) \subseteq raced'
    BY <1>5 DEF BeginDecision, Decided
  <2> HIDE DEF n
  <2> QED BY <1>4, <2>1, <2>2
<1>6. ASSUME NEW r \in Reviewers, NEW v \in Verdicts, BeginRound(r, v) PROVE FoundAll'
  <2> DEFINE n == Submitted(r, v)
  <2>1. n.version = review.base /\ n.found = FoundMarks(review.base, n.settled)
    BY DEF Submitted
  <2>2. /\ revTx' = {n} /\ UNCHANGED <<dec, marks, docTx>>
        /\ Settling(review.base, n.settled) \subseteq raced'
    BY <1>6 DEF BeginRound, Submitted
  <2> HIDE DEF n
  <2> QED BY <1>4, <2>1, <2>2
<1>7. CASE BeginAuthorRound
  <2>1. /\ \A u \in revTx' : ~u.settled
        /\ UNCHANGED <<dec, marks, docTx, raced>>
    BY <1>7 DEF BeginAuthorRound
  <2> QED BY <1>1, <2>1 DEF FoundAll, FoundUpTo, FoundsAll
<1>8. CASE BeginPatch
  <2>1. /\ \A t \in docTx' : t.marks = marks
        /\ UNCHANGED <<dec, revTx, marks>>
        /\ \A x \in dec \cup revTx : x.settled /\ (\E m \in marks : m <= x.version) =>
              x.version \in raced'
    BY <1>8 DEF BeginPatch
  <2>2. marks \subseteq Nat /\ \A x \in dec \cup revTx : x.version \in Nat
    BY <1>1 DEF TypeOK, Decision, Round
  <2>3. \A x \in dec \cup revTx : x.settled /\ x.version \notin raced' =>
           \A m \in marks : m > x.version
    BY <2>1, <2>2
  <2> QED BY <2>1, <2>2, <2>3 DEF FoundAll, FoundUpTo, FoundsAll
<1>9. CASE AcceptRevision BY <1>9 DEF AcceptRevision, FoundAll, FoundUpTo, FoundsAll
<1>10. CASE BeginAccept
  <2>1. \A t \in docTx' : t.op = "accept" BY <1>10 DEF BeginAccept
  <2> QED BY <1>2, <1>10, <2>1 DEF BeginAccept
<1>11. ASSUME NEW t \in docTx, NEW ms \in SUBSET t.marks, NEW m \in BOOLEAN, NEW s \in BOOLEAN,
              CommitPatch(t, ms, m, s)
       PROVE  FoundAll'
  <2>1. /\ t.op = "patch" /\ t.version = doc.version + 1 /\ doc.version \in Nat
        /\ docTx' = {} /\ marks' \subseteq t.marks \cup {t.version}
    BY <1>1, <1>11 DEF CommitPatch, TxReached, TypeOK
  <2>2. DecFrom(dec', dec) /\ RevFrom(revTx', revTx) BY <1>1, <1>11, FoundLost DEF Takes
  <2>3. \A x \in dec \cup revTx : x.version \in Nat /\ x.version <= doc.version
    <3>1. \A d \in dec : d.lane \in Lanes /\ d.version \in Versions /\ Has(d.lane, d.version)
      BY <1>1 DEF TypeOK, Decision, RowsOpen, Has
    <3>2. \A d \in dec : d.version <= doc.version BY <1>1, <3>1 DEF RowsReached
    <3>3. \A x \in revTx : x.version \in Nat /\ x.version <= doc.version
      BY <1>1 DEF TypeOK, Round, TxReached
    <3> QED BY <3>1, <3>2, <3>3
  <2>4. \A x \in dec \cup revTx : x.settled /\ x.version \notin raced =>
           \A k \in marks' : k > x.version
    BY <1>1, <2>1, <2>3 DEF FoundAll, FoundUpTo, FoundsAll
  <2>5. \A u \in dec' \cup revTx' : \E x \in dec \cup revTx :
           u.version = x.version /\ u.settled = x.settled
    BY <2>2 DEF DecFrom, RevFrom
  <2>6. marks' \subseteq Nat /\ \A x \in dec \cup revTx : x.version \in Nat
    <3>1. t.marks \subseteq Nat BY <1>1 DEF TypeOK
    <3> QED BY <2>1, <2>3, <3>1
  <2>7. \A u \in dec' \cup revTx' : u.settled /\ u.version \notin raced' =>
           \A k \in marks' : k > u.version /\ ~(k <= u.version)
    BY <1>1, <2>4, <2>5, <2>6
  <2> QED BY <2>1, <2>7 DEF FoundAll, FoundUpTo, FoundsAll
<1>12. ASSUME NEW d \in dec, CommitDecision(d) PROVE FoundAll'
  <2>1. /\ dec' = Lose(d.found, dec \ {d}) /\ revTx' = Lose(d.found, revTx)
        /\ docTx' = docTx /\ marks' = marks \ d.found
    BY <1>12 DEF CommitDecision
  <2>2. dec \ {d} \in SUBSET Decision /\ revTx \in SUBSET Round BY <1>1 DEF TypeOK
  <2>3. DecLeft(dec', dec \ {d}, d.found) /\ RevLeft(revTx', revTx, d.found)
    BY <2>1, <2>2, LostByDecisions, LostByRounds
  <2>4. \A u \in dec' : \E x \in dec :
           u.found = x.found \ d.found /\ u.version = x.version /\ u.settled = x.settled
    BY <2>3 DEF DecLeft
  <2>5. \A u \in revTx' : \E x \in revTx :
           u.found = x.found \ d.found /\ u.version = x.version /\ u.settled = x.settled
    BY <2>3 DEF RevLeft
  <2>6. \A u \in dec' \cup revTx' : \E x \in dec \cup revTx :
           u.found = x.found \ d.found /\ u.version = x.version /\ u.settled = x.settled
    BY <2>4, <2>5
  <2>7. docTx' = docTx /\ marks' = marks \ d.found BY <2>1
  <2> QED BY <1>3, <2>6, <2>7
<1>13. ASSUME NEW t \in revTx, CommitRound(t) PROVE FoundAll'
  <2>1. /\ dec' = Lose(t.found, dec) /\ revTx' = {}
        /\ docTx' = docTx /\ marks' = marks \ t.found
    BY <1>13 DEF CommitRound
  <2>2. dec \in SUBSET Decision BY <1>1 DEF TypeOK
  <2>3. DecLeft(dec', dec, t.found) BY <2>1, <2>2, LostByDecisions
  <2> QED BY <1>3, <2>1, <2>3 DEF DecLeft
<1>14. ASSUME NEW t \in docTx, RebuildSections(t) PROVE FoundAll'
  <2>1. t.op = "patch" /\ UNCHANGED <<dec, revTx, marks>> BY <1>14 DEF RebuildSections
  <2> QED BY <1>1, <1>2, <1>14, <2>1, Rebuilt
<1>15. CASE \/ EditDraft \/ OpenReview \/ UNCHANGED vars
            \/ \E rs \in SUBSET Reviewers : SetDocReviewers(rs)
            \/ \E v \in Versions : Asks(v)
            \/ \E t \in docTx : CommitAccept(t)
            \/ \E i \in Intents : OpenThread(i) \/ ResolveThread(i)
            \/ \E t \in revTx : CommitAuthorRound(t)
  BY <1>2, <1>15 DEF EditDraft, OpenReview, vars, SetDocReviewers, Asks, RequestApproval,
                     MaterializeApproval, RequireApproval, CommitAccept, OpenThread,
                     ResolveThread, CommitAuthorRound
<1> QED BY <1>5, <1>6, <1>7, <1>8, <1>9, <1>10, <1>11, <1>12, <1>13, <1>14, <1>15
        DEF Next, Asks

\* A commit that writes one row: if it settles its own version, it takes the marks
\* that are left there.
LEMMA SettlingWrite ==
    ASSUME TypeOK, MarksLater,
           NEW l \in Lanes, NEW v \in Versions, NEW s \in States \ {"awaiting"},
           NEW done \in BOOLEAN, NEW found,
           \A m \in Lanes, w \in Versions : m # l \/ w # v => lane'[m][w] = lane[m][w],
           lane'[l][v] = s,
           s = "approved" /\ ~done /\ v \notin raced =>
              \E m \in Lanes \ {l} : lane[m][v] \notin {"none", "approved"},
           docTx' = docTx, raced' = raced, marks' = marks \ found,
           FoundsAll(done, v, found)
    PROVE  MarksLater'
<1> SUFFICES ASSUME NEW w \in Versions \ raced', SettledVersion(w)'
             PROVE  /\ \A m \in marks' : m > w
                    /\ \A t \in docTx' : t.op = "patch" => \A m \in t.marks : m > w
  BY DEF MarksLater
<1>1. marks' \subseteq marks /\ w \notin raced OBVIOUS
<1>2. CASE w # v
  <2>1. SettledVersion(w) BY <1>2 DEF SettledVersion, Has
  <2> QED BY <1>1, <2>1 DEF MarksLater
<1>3. CASE w = v
  <2>1. s = "approved" BY <1>3 DEF SettledVersion
  <2>2. done BY <1>1, <1>3, <2>1 DEF SettledVersion
  <2>3. \A m \in marks' : ~(m <= w) BY <1>1, <1>3, <2>2 DEF FoundsAll
  <2>4. \A m \in marks' : m \in Nat
    <3>1. \A m \in marks : m \in Nat BY DEF TypeOK
    <3> QED BY <1>1, <3>1
  <2>6. w \in Nat OBVIOUS
  <2>5. \A t \in docTx' : t.op = "patch" => \A m \in t.marks : m > w
    BY <1>1, <1>3, <2>2 DEF FoundsAll
  <2> QED BY <2>3, <2>4, <2>5, <2>6
<1> QED BY <1>2, <1>3

LEMMA LaterStep == DocInv /\ MarksInv /\ [Next]_vars => MarksLater'
<1> SUFFICES ASSUME DocInv, MarksInv, [Next]_vars PROVE MarksLater' OBVIOUS
<1>1. /\ TypeOK /\ LockHeld /\ raced \subseteq raced'
      /\ RowsReached /\ TxReached /\ OthersOpen /\ FoundAll /\ MarksLater
  BY RacedStep DEF DocInv, MarksInv, VersionsReached
<1>2. ASSUME lane' = lane, marks' = marks, docTx' \subseteq docTx PROVE MarksLater'
  BY <1>1, <1>2 DEF MarksLater, SettledVersion, Has
<1>3. ASSUME NEW ls, NEW v \in Versions, InsertAwaiting(ls, v), marks' = marks, docTx' = docTx
      PROVE  MarksLater'
  BY <1>1, <1>3, InsertedUnsettled DEF MarksLater
<1>4. CASE BeginAccept BY <1>1, <1>4 DEF BeginAccept, MarksLater, SettledVersion, Has
<1>5. CASE BeginPatch BY <1>1, <1>5 DEF BeginPatch, MarksLater, SettledVersion, Has
<1>6. CASE AcceptRevision BY <1>6 DEF AcceptRevision, MarksLater
<1>7. ASSUME NEW t \in docTx, NEW ms \in SUBSET t.marks, NEW m \in BOOLEAN, NEW s \in BOOLEAN,
             CommitPatch(t, ms, m, s)
      PROVE  MarksLater'
  <2>1. /\ t.op = "patch" /\ t.version \in Versions /\ t.version = doc.version + 1
        /\ docTx' = {} /\ doc.version \in Nat
        /\ marks' \subseteq t.marks \cup {t.version}
        /\ InsertAwaiting(IF s THEN roster ELSE {}, t.version)
    BY <1>1, <1>7 DEF CommitPatch, TxReached, TypeOK
  <2> SUFFICES ASSUME NEW w \in Versions \ raced', SettledVersion(w)'
               PROVE  \A k \in marks' : k > w
    BY <2>1 DEF MarksLater
  <2>2. SettledVersion(w) BY <1>1, <2>1, InsertedUnsettled
  <2>3. w <= doc.version BY <1>1, <2>2 DEF SettledVersion, RowsReached
  <2>4. \A k \in t.marks : k > w BY <1>1, <2>1, <2>2 DEF MarksLater
  <2> QED BY <2>1, <2>3, <2>4
<1>8. ASSUME NEW d \in dec, CommitDecision(d) PROVE MarksLater'
  <2>1. /\ d.lane \in Lanes /\ d.version \in Versions /\ d.state \in States \ {"awaiting"}
        /\ d.settled \in BOOLEAN
    BY <1>1 DEF TypeOK, Decision
  <2>2. /\ lane'[d.lane][d.version] = d.state
        /\ \A m \in Lanes, w \in Versions :
              m # d.lane \/ w # d.version => lane'[m][w] = lane[m][w]
    BY <1>1, <1>8, DecisionWrites
  <2>3. d.state = "approved" /\ ~d.settled /\ d.version \notin raced =>
           \E m \in Lanes \ {d.lane} : lane[m][d.version] \notin {"none", "approved"}
    BY <1>1 DEF OthersOpen
  <2>4. docTx' = docTx /\ raced' = raced /\ marks' = marks \ d.found
    BY <1>8 DEF CommitDecision
  <2>5. FoundsAll(d.settled, d.version, d.found) BY <1>1 DEF FoundAll, FoundUpTo
  <2> QED BY <1>1, <2>1, <2>2, <2>3, <2>4, <2>5, SettlingWrite
<1>9. ASSUME NEW t \in revTx, CommitRound(t) PROVE MarksLater'
  <2>1. /\ t.who \in Lanes /\ t.version \in Versions /\ t.verdict \in States \ {"awaiting"}
        /\ t.settled \in BOOLEAN /\ t.decides \in BOOLEAN
    BY <1>1 DEF TypeOK, Round
  <2>2. /\ lane' \in LaneType
        /\ lane'[t.who][t.version] = IF t.decides THEN t.verdict ELSE lane[t.who][t.version]
        /\ \A m \in Lanes, w \in Versions :
              m # t.who \/ w # t.version => lane'[m][w] = lane[m][w]
    BY <1>1, <1>9, RoundWrites
  <2>3. CASE ~t.decides
    <3>1. \A m \in Lanes, w \in Versions : lane'[m][w] = lane[m][w] BY <2>1, <2>2, <2>3
    <3>2. marks' \subseteq marks /\ docTx' = docTx BY <1>9 DEF CommitRound
    <3> QED BY <1>1, <3>1, <3>2 DEF MarksLater, SettledVersion, Has
  <2>4. CASE t.decides
    <3>1. t.verdict = "approved" /\ ~t.settled /\ t.version \notin raced =>
             \E m \in Lanes \ {t.who} : lane[m][t.version] \notin {"none", "approved"}
      BY <1>1, <2>4 DEF OthersOpen
    <3>2. docTx' = docTx /\ raced' = raced /\ marks' = marks \ t.found
      BY <1>9 DEF CommitRound
    <3>3. FoundsAll(t.settled, t.version, t.found) BY <1>1 DEF FoundAll, FoundUpTo
    <3>4. lane'[t.who][t.version] = t.verdict BY <2>2, <2>4
    <3> QED BY <1>1, <2>1, <2>2, <3>1, <3>2, <3>3, <3>4, SettlingWrite
  <2> QED BY <2>1, <2>3, <2>4
<1>10. CASE OpenReview BY <1>1, <1>3, <1>10 DEF OpenReview, TypeOK
<1>11. ASSUME NEW v \in Versions, Asks(v) PROVE MarksLater'
  BY <1>3, <1>11 DEF RequestApproval, MaterializeApproval, RequireApproval, Asks
<1>12. ASSUME NEW t \in revTx, CommitAuthorRound(t) PROVE MarksLater'
  <2>1. t.version \in Versions BY <1>1 DEF TypeOK, Round
  <2> QED BY <1>3, <1>12, <2>1 DEF CommitAuthorRound
<1>13. CASE \/ EditDraft \/ BeginAuthorRound \/ UNCHANGED vars
            \/ \E rs \in SUBSET Reviewers : SetDocReviewers(rs)
            \/ \E t \in docTx : CommitAccept(t)
  BY <1>2, <1>13 DEF EditDraft, BeginAuthorRound, vars, SetDocReviewers, CommitAccept
<1>14. CASE \/ \E i \in Intents : OpenThread(i) \/ ResolveThread(i)
            \/ \E l \in Lanes, v \in Versions, s \in States \ {"awaiting"} :
                  BeginDecision(l, v, s)
            \/ \E r \in Reviewers, v \in Verdicts : BeginRound(r, v)
  BY <1>2, <1>14 DEF OpenThread, ResolveThread, BeginDecision, BeginRound
<1>15. ASSUME NEW t \in docTx, RebuildSections(t) PROVE MarksLater'
  <2>1. t.op = "patch" /\ UNCHANGED <<lane, marks>> BY <1>15 DEF RebuildSections
  <2> QED BY <1>1, <1>15, <2>1, Rebuilt DEF MarksLater, SettledVersion, Has
<1> QED BY <1>4, <1>5, <1>6, <1>7, <1>8, <1>9, <1>10, <1>11, <1>12, <1>13, <1>14, <1>15
        DEF Next, Asks

LEMMA MarksInit == Init => MarksInv
<1> SUFFICES ASSUME Init PROVE MarksInv OBVIOUS
<1>1. RowsReached BY DEF Init, RowsReached, Has
<1>2. TxReached /\ OneDecides /\ OthersOpen /\ FoundAll /\ MarksLater
  BY DEF Init, TxReached, OneDecides, OthersOpen, FoundAll, MarksLater
<1> QED BY <1>1, <1>2 DEF MarksInv, VersionsReached

LEMMA MarksStep == DocInv /\ MarksInv /\ [Next]_vars => MarksInv'
BY TxReachedStep, RowsReachedStep, OneDecidesStep, OthersStep, FoundStep, LaterStep
   DEF MarksInv, VersionsReached

\* clearPatchedOnFullApproval: once every row of a version reads approved, no mark
\* up to it is left, unless two decisions on the version were under way at once or
\* a patch had read the marks.
THEOREM MarksCleared == Spec => []SettledClears
<1>1. MarksInv => SettledClears BY DEF MarksInv, MarksLater, SettledClears
<1> QED BY <1>1, Inductive, MarksInit, MarksStep, PTL DEF Spec
=============================================================================

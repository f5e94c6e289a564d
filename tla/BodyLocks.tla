----------------------------- MODULE BodyLocks -----------------------------
(***************************************************************************)
(* The lock on one body that people edit: internal/store/bodylocks.go,     *)
(* its routes in internal/api/bodylocks.go and the sweep of                *)
(* internal/api/locksweep.go.                                              *)
(*                                                                         *)
(* Tabs of the editor take sessions under their person's lock row, check   *)
(* in, save and go.  Servers end sessions - for a tab that released its    *)
(* own, for an owner who unlocks, for the sweep - and drop the lock row    *)
(* when none is left.  Agents write the body past the lock, and the body   *)
(* of a specification or an ADR, which is rendered from the rules it       *)
(* arranges, also changes with them and without its own row.  Statements   *)
(* of the READ COMMITTED transactions interleave: a statement reads what   *)
(* has committed, and waits for a row that another transaction has         *)
(* written.  A refused take changes nothing and is left out.               *)
(*                                                                         *)
(* The names are apart from RuleText's, so that one module can prove about *)
(* both.                                                                   *)
(***************************************************************************)
EXTENDS Naturals, FiniteSets

CONSTANTS
  Tabs,
  Person,    \* Person[t]: who sits at tab t
  Servers,   \* connections that end sessions on request
  Sweeper,   \* the one that sweeps
  Bodies,    \* what the body may say
  Rendered,  \* whether the body is rendered from rules: a specification or an ADR
  MaxTakes,  \* bound: sessions handed out
  MaxFaults, \* bound: lost answers and aborted transactions
  Absent     \* no holder, no transaction, no text

Enders  == Servers \union {Sweeper}
People  == {Person[t] : t \in Tabs}
Session == 1..MaxTakes

ASSUME PeopleAssumption == Tabs = DOMAIN Person /\ Absent \notin Tabs \union People \union Bodies
ASSUME TakesAssumption == MaxTakes \in Nat /\ MaxFaults \in Nat
ASSUME RenderedAssumption == Rendered \in BOOLEAN

VARIABLES
  row,     \* the holder in the body_locks row; Absent when there is no row
  rowTx,   \* the tab whose open transaction has written that row
  taken,   \* sessions handed out
  tabOf,   \* tabOf[s]: the tab that session s was made for
  live,    \* sessions whose ended_at is null
  due,     \* live sessions that a sweep would end
  job,     \* job[e]: how far ender e's transaction is
  ending,  \* ending[e]: the sessions it has ended and not committed
  doomed,  \* enders whose DELETE has found the row without live sessions
  tab,     \* tab[t]: what the tab is waiting for
  mine,    \* mine[t]: the session it works under; 0 for none
  base,    \* base[t]: the text it loaded, whose hash it will send
  seen,    \* seen[t]: the text its save has read
  body,    \* the stored text
  bodyTx,  \* the tab whose open transaction holds the subject's row
  raced,   \* history: a session committed between a drop's look and its DELETE
  slipped, \* tabs whose open save has read a body that a rule has changed since
  faults

lockVars  == <<row, rowTx, taken, tabOf>>
enderVars == <<job, ending, doomed>>
tabVars   == <<tab, mine, base, seen>>
bodyVars  == <<body, bodyTx, slipped>>
bodyLockVars == <<lockVars, live, due, enderVars, tabVars, bodyVars, raced, faults>>

Fault == faults < MaxFaults /\ faults' = faults + 1

\* An UPDATE waits for a row that an open transaction has written.
Untouched(s) == \A e \in Enders : s \notin ending[e]

-----------------------------------------------------------------------------
(* TakeLock *)

\* A conflict arm that matches any holder.
TakeRowAnyHolder(t) ==
  /\ tab[t] = "away" /\ taken < MaxTakes
  /\ rowTx = Absent
  /\ rowTx' = t
  /\ tab' = [tab EXCEPT ![t] = "taking"]
  /\ UNCHANGED <<row, taken, tabOf, live, due, enderVars, mine, base, seen,
                 bodyVars, raced, faults>>

\* INSERT ... ON CONFLICT DO UPDATE ... WHERE the holder is the same: the
\* statement waits for the row, and the transaction has it from then on.
TakeRow(t) ==
  /\ tab[t] = "away" /\ taken < MaxTakes
  /\ rowTx = Absent /\ row \in {Absent, Person[t]}
  /\ rowTx' = t
  /\ tab' = [tab EXCEPT ![t] = "taking"]
  /\ UNCHANGED <<row, taken, tabOf, live, due, enderVars, mine, base, seen,
                 bodyVars, raced, faults>>

\* The session's INSERT and COMMIT.  When the answer is lost no tab has the
\* session.
TakeSession(t) ==
  /\ tab[t] = "taking"
  /\ row' = Person[t] /\ rowTx' = Absent
  /\ taken' = taken + 1
  /\ tabOf' = [tabOf EXCEPT ![taken + 1] = t]
  /\ live' = live \union {taken + 1}
  /\ raced' = (raced \/ doomed # {})
  /\ \/ /\ tab' = [tab EXCEPT ![t] = "editing"]
        /\ mine' = [mine EXCEPT ![t] = taken + 1]
        /\ base' = [base EXCEPT ![t] = body]
        /\ UNCHANGED faults
     \/ /\ Fault
        /\ tab' = [tab EXCEPT ![t] = "away"]
        /\ UNCHANGED <<mine, base>>
  /\ UNCHANGED <<due, enderVars, seen, bodyVars>>

TakeAborts(t) ==
  /\ tab[t] = "taking" /\ Fault
  /\ rowTx' = Absent
  /\ tab' = [tab EXCEPT ![t] = "away"]
  /\ UNCHANGED <<row, taken, tabOf, live, due, enderVars, mine, base, seen,
                 bodyVars, raced>>

-----------------------------------------------------------------------------
(* The page: check-ins, time, and a tab that goes away *)

\* CheckInLock with activity or unsaved changes; one without either leaves a
\* session due after its hour.
CheckInLock(t) ==
  LET s == mine[t] IN
  /\ tab[t] = "editing" /\ s \in due /\ Untouched(s)
  /\ due' = due \ {s}
  /\ UNCHANGED <<lockVars, live, enderVars, tabVars, bodyVars, raced, faults>>

\* Closed, crashed, or told LockLost by a check-in and fallen back to reading.
\* A release may be on its way and may never arrive.
Leave(t) ==
  /\ tab[t] = "editing"
  /\ tab' = [tab EXCEPT ![t] = "away"]
  /\ mine' = [mine EXCEPT ![t] = 0] /\ base' = [base EXCEPT ![t] = Absent]
  /\ UNCHANGED <<lockVars, live, due, enderVars, seen, bodyVars, raced, faults>>

\* lockIdleAfter with no activity and no unsaved changes, or lockExpireAfter
\* without a check-in.
TimePasses(s) ==
  /\ s \in live \ due
  /\ due' = due \union {s}
  /\ UNCHANGED <<lockVars, live, enderVars, tabVars, bodyVars, raced, faults>>

-----------------------------------------------------------------------------
(* endSessions and SweepLocks *)

\* The UPDATEs that end sessions.
End(e, ss) ==
  /\ job[e] = "none" /\ \A s \in ss : Untouched(s)
  /\ job' = [job EXCEPT ![e] = "ended"]
  /\ ending' = [ending EXCEPT ![e] = ss]
  /\ UNCHANGED <<lockVars, live, due, doomed, tabVars, bodyVars, raced, faults>>

\* A session no tab works under is ended by the request its tab sent.
ReleaseLockSession(e, s) ==
  s \in live /\ mine[tabOf[s]] # s /\ End(e, {s})

UnlockBody(e) == live # {} /\ End(e, live)

SweepLocks == End(Sweeper, due)

\* Only a lock whose sessions this transaction ended.
DropLookOwn(e) ==
  /\ job[e] = "ended"
  /\ job' = [job EXCEPT ![e] = "looked"]
  /\ doomed' = IF row # Absent /\ ending[e] # {} /\ live = ending[e]
               THEN doomed \union {e} ELSE doomed
  /\ UNCHANGED <<lockVars, live, due, ending, tabVars, bodyVars, raced, faults>>

\* DELETE FROM body_locks WHERE NOT EXISTS (a live session): the subquery
\* sees what has committed and the transaction's own UPDATE.
DropLook(e) ==
  /\ job[e] = "ended"
  /\ job' = [job EXCEPT ![e] = "looked"]
  /\ doomed' = IF row # Absent /\ live \subseteq ending[e] THEN doomed \union {e} ELSE doomed
  /\ UNCHANGED <<lockVars, live, due, ending, tabVars, bodyVars, raced, faults>>

\* The DELETE waits for the row and COMMIT follows.  The row it found is
\* deleted although a session may have been committed since: the wait
\* re-reads the row and not the subquery.  A row dropped and made anew is
\* another row.
EndCommit(e) ==
  /\ job[e] = "looked" /\ (e \in doomed => rowTx = Absent)
  /\ live' = live \ ending[e]
  /\ row' = IF e \in doomed THEN Absent ELSE row
  /\ doomed' = IF e \in doomed THEN {} ELSE doomed
  /\ job' = [job EXCEPT ![e] = "none"]
  /\ ending' = [ending EXCEPT ![e] = {}]
  /\ due' = due \ ending[e]
  /\ UNCHANGED <<rowTx, taken, tabOf, tabVars, bodyVars, raced, faults>>

EndAborts(e) ==
  /\ job[e] # "none" /\ Fault
  /\ job' = [job EXCEPT ![e] = "none"]
  /\ ending' = [ending EXCEPT ![e] = {}]
  /\ doomed' = doomed \ {e}
  /\ UNCHANGED <<lockVars, live, due, tabVars, bodyVars, raced>>

-----------------------------------------------------------------------------
(* CheckBodySave and the write it guards *)

\* The body read with no lock on the subject.
LockedBodyUnlocked(t) ==
  /\ tab[t] = "editing"
  /\ seen' = [seen EXCEPT ![t] = body]
  /\ tab' = [tab EXCEPT ![t] = "saving"]
  /\ UNCHANGED <<lockVars, live, due, enderVars, mine, base, bodyVars, raced, faults>>

\* SELECT ... FOR UPDATE.
LockedBody(t) ==
  /\ tab[t] = "editing"
  /\ bodyTx = Absent /\ bodyTx' = t
  /\ seen' = [seen EXCEPT ![t] = body]
  /\ tab' = [tab EXCEPT ![t] = "saving"]
  /\ UNCHANGED <<lockVars, live, due, enderVars, mine, base, body, slipped, raced, faults>>

SaveEnds(t) ==
  /\ bodyTx' = IF bodyTx = t THEN Absent ELSE bodyTx
  /\ seen' = [seen EXCEPT ![t] = Absent]
  /\ slipped' = slipped \ {t}

\* The session, then the hash of what was read.
SaveChecked(t) ==
  /\ tab[t] = "saving"
  /\ IF mine[t] \in live /\ seen[t] = base[t]
     THEN tab' = [tab EXCEPT ![t] = "writing"] /\ UNCHANGED <<bodyTx, slipped, seen>>
     ELSE tab' = [tab EXCEPT ![t] = "editing"] /\ SaveEnds(t)
  /\ UNCHANGED <<lockVars, live, due, enderVars, mine, base, body, raced, faults>>

\* What a write of x leaves.  syncRules gives the save's text to each rule
\* whose text differs; a rule that moves after it was compared keeps its own.
SavedText(t, x) == IF t \in slipped THEN Bodies ELSE {x}

\* The write commits; the answer names the text it then read, unless the
\* answer is lost.
SaveBody(t, x) ==
  /\ tab[t] = "writing"
  /\ body' \in SavedText(t, x)
  /\ \/ \E y \in SavedText(t, x) : base' = [base EXCEPT ![t] = y] /\ UNCHANGED faults
     \/ Fault /\ UNCHANGED base
  /\ tab' = [tab EXCEPT ![t] = "editing"]
  /\ SaveEnds(t)
  /\ UNCHANGED <<lockVars, live, due, enderVars, mine, raced>>

SaveAborts(t) ==
  /\ tab[t] \in {"saving", "writing"} /\ Fault
  /\ tab' = [tab EXCEPT ![t] = "editing"]
  /\ SaveEnds(t)
  /\ UNCHANGED <<lockVars, live, due, enderVars, mine, base, body, raced>>

\* The page loads the stored text, after a conflict or before.
Load(t) ==
  /\ tab[t] = "editing" /\ base[t] # body
  /\ base' = [base EXCEPT ![t] = body]
  /\ UNCHANGED <<lockVars, live, due, enderVars, tab, mine, seen, bodyVars, raced, faults>>

\* The command line, the API and MCP: no session and no hash, and an UPDATE of
\* the subject's row.
AgentWrites(x) ==
  /\ bodyTx = Absent
  /\ body' = x
  /\ UNCHANGED <<lockVars, live, due, enderVars, tabVars, bodyTx, slipped, raced, faults>>

\* EditRule on a draft rule, and an acceptance that moves a draft
\* specification to a rule's new version: rule_versions and doc_rules change
\* and the document's row is neither locked nor written.
RuleWrites(x) ==
  /\ Rendered /\ x # body
  /\ body' = x
  /\ slipped' = slipped \union {t \in Tabs : tab[t] \in {"saving", "writing"}}
  /\ UNCHANGED <<lockVars, live, due, enderVars, tabVars, bodyTx, raced, faults>>

-----------------------------------------------------------------------------
LockInit ==
  /\ row = Absent /\ rowTx = Absent /\ taken = 0
  /\ tabOf = [s \in Session |-> Absent]
  /\ live = {} /\ due = {}
  /\ job = [e \in Enders |-> "none"]
  /\ ending = [e \in Enders |-> {}]
  /\ doomed = {}
  /\ tab = [t \in Tabs |-> "away"]
  /\ mine = [t \in Tabs |-> 0]
  /\ base = [t \in Tabs |-> Absent]
  /\ seen = [t \in Tabs |-> Absent]
  /\ body \in Bodies /\ bodyTx = Absent
  /\ raced = FALSE /\ slipped = {} /\ faults = 0

TakeEnds(t) == TakeSession(t) \/ TakeAborts(t)
Saves(t)    == SaveChecked(t) \/ SaveAborts(t) \/ \E x \in Bodies : SaveBody(t, x)
Ends(e)     == DropLook(e) \/ EndCommit(e) \/ EndAborts(e)

Tab(t) ==
  \/ TakeRow(t) \/ TakeEnds(t)
  \/ CheckInLock(t) \/ Leave(t) \/ Load(t)
  \/ LockedBody(t) \/ Saves(t)

Server(e) == UnlockBody(e) \/ \E s \in Session : ReleaseLockSession(e, s)

LockNext ==
  \/ \E t \in Tabs : Tab(t)
  \/ \E e \in Servers : Server(e)
  \/ SweepLocks
  \/ \E e \in Enders : Ends(e)
  \/ \E s \in Session : TimePasses(s)
  \/ \E x \in Bodies : AgentWrites(x) \/ RuleWrites(x)

LockSpec == LockInit /\ [][LockNext]_bodyLockVars

\* The sweep runs every minute, transactions end, and a day passes for a
\* session nobody works under.
FairSpec ==
  /\ LockSpec
  /\ WF_bodyLockVars(SweepLocks)
  /\ \A e \in Enders : WF_bodyLockVars(Ends(e))
  /\ WF_bodyLockVars(\E t \in Tabs : TakeEnds(t))
  /\ WF_bodyLockVars(\E s \in Session : TimePasses(s) /\ mine[tabOf[s]] # s)

-----------------------------------------------------------------------------
(* Properties *)

LockTypeOK ==
  /\ row \in People \union {Absent} /\ rowTx \in Tabs \union {Absent}
  /\ taken \in 0..MaxTakes
  /\ tabOf \in [Session -> Tabs \union {Absent}]
  /\ live \subseteq 1..taken
  /\ \A s \in 1..taken : tabOf[s] \in Tabs
  /\ due \subseteq live
  /\ job \in [Enders -> {"none", "ended", "looked"}]
  /\ ending \in [Enders -> SUBSET Session]
  /\ doomed \subseteq Enders
  /\ tab \in [Tabs -> {"away", "taking", "editing", "saving", "writing"}]
  /\ mine \in [Tabs -> Session \union {0}]
  /\ base \in [Tabs -> Bodies \union {Absent}] /\ seen \in [Tabs -> Bodies \union {Absent}]
  /\ body \in Bodies /\ bodyTx \in Tabs \union {Absent}
  /\ raced \in BOOLEAN /\ slipped \subseteq Tabs /\ faults \in 0..MaxFaults

\* One person holds the lock at a time and every live session is under the
\* row that names its person, whichever takes, releases, unlocks and sweeps
\* overlap - as long as no session has committed between the NOT EXISTS of a
\* drop and its DELETE.
HeldByOne ==
  raced \/ \A s \in live : row = Person[tabOf[s]]

\* A save replaces the text its tab loaded and no other: a lock taken over,
\* swept or unlocked while the save is under way, and a document an agent
\* writes past the lock, never make it overwrite what its person has not seen.
\* The one text it may overwrite unseen is a rule's, of a body rendered from
\* rules, that moved inside the save's own transaction.
NoSilentOverwrite ==
  [][\A t \in Tabs :
       tab[t] = "writing" /\ body' # body
       => base[t] = body \/ (Rendered /\ t \in slipped)]_bodyLockVars

\* A lock whose sessions have all ended is free again: two ends that each saw
\* the other's session live, aborted ends and lost answers leave no lock behind
\* for ever.
LockFreed == []<>(row = Absent \/ live # {})
=============================================================================

------------------------------ MODULE EventLog ------------------------------
(***************************************************************************)
(* The ordered event log of internal/store/events.go and the durable       *)
(* subscription loop of internal/eventbus/loop.go.                         *)
(*                                                                         *)
(* Writers are database transactions that append one event each.  An event *)
(* takes its position (events.id) from a sequence and its txid from the    *)
(* transaction counter, and these are two draws.  Consumers are replicas   *)
(* of the loop of ONE subscriber: they compete for its advisory lock, read *)
(* batches below the commit horizon, handle them in order and acknowledge  *)
(* the handled prefix.  Postgres statements are atomic; everything between *)
(* two statements can interleave.                                          *)
(***************************************************************************)
EXTENDS Naturals, FiniteSets

CONSTANTS
  Writers,      \* sessions that append events
  Consumers,    \* replicas of the subscriber's loop
  Keys,         \* (source, external_id) pairs
  Paths,        \* how a writer draws its id and its xid, see Begin below
  SessionLoss,  \* can the lock's session die while its loop lives on?
  Limit,        \* BatchSize of the loop
  MaxId,        \* bound: ids the sequence hands out
  MaxXid,       \* bound: transactions that take an xid
  MaxSeek,      \* bound: positions an operator seeks to
  MaxFaults,    \* bound: handler errors, store errors, restarts, seeks
  None          \* no holder of the lock, no key

ASSUME PathsAssumption == Paths \subseteq {"together", "idFirst", "xidFirst"}
ASSUME LossAssumption  == SessionLoss \in BOOLEAN
ASSUME BoundAssumption ==
  /\ Limit \in Nat \ {0} /\ MaxId \in Nat /\ MaxXid \in Nat
  /\ MaxSeek \in Nat /\ MaxFaults \in Nat
ASSUME NoneAssumption == None \notin Consumers \union Keys

VARIABLES
  nextId,    \* events_id_seq
  nextXid,   \* the cluster's transaction counter
  tx,        \* tx[w]: the transaction of writer w
  log,       \* committed rows of events
  effects,   \* effects[k]: how often apply of event k has committed
  lastRead,  \* event_subscribers.last_read_offset
  lastAcked, \* event_subscribers.last_acked_offset
  holder,    \* whose session holds the subscriber's advisory lock
  pc,        \* pc[c]: the next step of consumer c's loop
  batch,     \* batch[c]: ids read and not yet handled in this round
  upTo,      \* upTo[c]: handledUpTo
  broke,     \* broke[c]: failed
  faults,    \* disturbances so far
  done,      \* history: ids handled since the last seek below them
  owed,      \* history: ids some batch returned since the last seek below them
  floor      \* history: the position of the last seek

writerVars == <<nextId, nextXid, tx, log, effects>>
loopVars   == <<pc, batch, upTo, broke>>
busVars    == <<lastRead, lastAcked, holder, faults, done, owed, floor>>
vars       == <<writerVars, loopVars, busVars>>

-----------------------------------------------------------------------------
(* Transactions *)

NoTx == [at |-> "idle", id |-> 0, xid |-> 0, key |-> None, seen |-> {}]

\* A writer holds an xid from its draw until its transaction ends.
HasXid(w) == tx[w].at \in {"xid", "drawn", "stored", "dup"}
HasId(w)  == tx[w].at \in {"id", "drawn", "stored", "dup"}

LogIds == {e.id : e \in log}

\* No horizon: every committed row is readable at once.
eventHorizonNone(e) == TRUE

\* eventHorizon: txid < pg_snapshot_xmin(pg_current_snapshot()).
eventHorizon(e) == \A w \in Writers : HasXid(w) => e.xid < tx[w].xid

Readable == {e \in log : eventHorizon(e)}

Start(w, k, at, id, xid) ==
  tx' = [tx EXCEPT ![w] =
           [at |-> at, id |-> id, xid |-> xid, key |-> k, seen |-> LogIds]]

\* The INSERT draws both at once when nextval writes WAL: it then takes the
\* transaction's xid while it holds the sequence.
BeginTogether(w, k) ==
  /\ "together" \in Paths
  /\ tx[w].at = "idle" /\ nextId <= MaxId /\ nextXid <= MaxXid
  /\ Start(w, k, "drawn", nextId, nextXid)
  /\ nextId' = nextId + 1 /\ nextXid' = nextXid + 1
  /\ UNCHANGED <<log, effects, loopVars, busVars>>

\* RecordEventWithID reserves the id in a statement of its own; RecordEvent's
\* INSERT evaluates the id's default before the txid's.
BeginWithId(w, k) ==
  /\ "idFirst" \in Paths
  /\ tx[w].at = "idle" /\ nextId <= MaxId
  /\ Start(w, k, "id", nextId, 0)
  /\ nextId' = nextId + 1
  /\ UNCHANGED <<nextXid, log, effects, loopVars, busVars>>

\* SettleFinishedPlans locks the plan's row before it records the event.
BeginWithXid(w, k) ==
  /\ "xidFirst" \in Paths
  /\ tx[w].at = "idle" /\ nextXid <= MaxXid
  /\ Start(w, k, "xid", 0, nextXid)
  /\ nextXid' = nextXid + 1
  /\ UNCHANGED <<nextId, log, effects, loopVars, busVars>>

AssignXid(w) ==
  /\ tx[w].at = "id" /\ nextXid <= MaxXid
  /\ tx' = [tx EXCEPT ![w] = [@ EXCEPT !.at = "drawn", !.xid = nextXid]]
  /\ nextXid' = nextXid + 1
  /\ UNCHANGED <<nextId, log, effects, loopVars, busVars>>

DrawId(w) ==
  /\ tx[w].at = "xid" /\ nextId <= MaxId
  /\ tx' = [tx EXCEPT ![w] = [@ EXCEPT !.at = "drawn", !.id = nextId]]
  /\ nextId' = nextId + 1
  /\ UNCHANGED <<nextXid, log, effects, loopVars, busVars>>

\* ON CONFLICT (source, external_id) DO NOTHING: a key another open
\* transaction has stored makes the INSERT wait for that transaction's end.
Conflict(k)   == \E e \in log : e.key = k

\* A look-up before the INSERT would see committed rows and wait for nobody.
InDoubtLookup(w, k) == FALSE

InDoubt(w, k) == \E v \in Writers \ {w} : tx[v].at = "stored" /\ tx[v].key = k

Insert(w) ==
  /\ tx[w].at = "drawn"
  /\ ~InDoubt(w, tx[w].key)
  /\ tx' = [tx EXCEPT ![w].at = IF Conflict(tx[w].key) THEN "dup" ELSE "stored"]
  /\ UNCHANGED <<nextId, nextXid, log, effects, loopVars, busVars>>

\* The event and apply's writes commit together; a conflicting one commits
\* nothing and its id stays burned.
Commit(w) ==
  /\ tx[w].at \in {"stored", "dup"}
  /\ IF tx[w].at = "stored"
     THEN /\ log' = log \union {[id |-> tx[w].id, xid |-> tx[w].xid,
                                 key |-> tx[w].key, seen |-> tx[w].seen]}
          /\ effects' = [effects EXCEPT ![tx[w].key] = @ + 1]
     ELSE UNCHANGED <<log, effects>>
  /\ tx' = [tx EXCEPT ![w] = NoTx]
  /\ UNCHANGED <<nextId, nextXid, loopVars, busVars>>

\* apply failed, payloadFor failed, or the session went away.
Abort(w) ==
  /\ tx[w].at # "idle"
  /\ tx' = [tx EXCEPT ![w] = NoTx]
  /\ UNCHANGED <<nextId, nextXid, log, effects, loopVars, busVars>>

Writer(w) ==
  \/ \E k \in Keys : BeginTogether(w, k) \/ BeginWithId(w, k) \/ BeginWithXid(w, k)
  \/ AssignXid(w) \/ DrawId(w) \/ Insert(w) \/ Commit(w) \/ Abort(w)

-----------------------------------------------------------------------------
(* The loop *)

Goto(c, step) == pc' = [pc EXCEPT ![c] = step]

\* The round's locals go out of scope.
Forget(c) ==
  /\ batch' = [batch EXCEPT ![c] = {}]
  /\ upTo' = [upTo EXCEPT ![c] = 0]
  /\ broke' = [broke EXCEPT ![c] = FALSE]

\* ResetEventRead.
ResetEventRead == lastRead' = lastAcked

TryLockSubscriber(c) ==
  /\ pc[c] = "acquire" /\ holder = None
  /\ holder' = c
  /\ Goto(c, "reset")
  /\ UNCHANGED <<batch, upTo, broke, writerVars, lastRead, lastAcked, faults,
                 done, owed, floor>>

\* A new holder that reads on from where the last one read.
RedeliverNothing(c) ==
  /\ pc[c] = "reset"
  /\ Goto(c, "healthy")
  /\ UNCHANGED <<batch, upTo, broke, writerVars, busVars>>

Redeliver(c) ==
  /\ pc[c] = "reset"
  /\ ResetEventRead
  /\ Goto(c, "healthy")
  /\ UNCHANGED <<batch, upTo, broke, writerVars, lastAcked, holder, faults,
                 done, owed, floor>>

\* A lock whose session is gone is dropped; Release of a dead session frees
\* nobody else's lock.
Healthy(c) ==
  /\ pc[c] = "healthy"
  /\ Goto(c, IF holder = c THEN "read" ELSE "acquire")
  /\ UNCHANGED <<batch, upTo, broke, writerVars, busVars>>

\* The first Limit readable ids after the read offset.
After(n) == {e.id : e \in {e \in Readable : e.id > n}}

IsBatch(b) ==
  /\ b \subseteq After(lastRead)
  /\ \A i \in b : \A j \in After(lastRead) : j < i => j \in b
  /\ Cardinality(b) <= Limit
  /\ Cardinality(b) = Limit \/ b = After(lastRead)

ReadEventBatch(c) ==
  /\ pc[c] = "read"
  /\ \E b \in SUBSET After(lastRead) :
       /\ IsBatch(b)
       /\ batch' = [batch EXCEPT ![c] = b]
       /\ owed' = owed \union b
       /\ IF b = {}
          THEN lastRead' = lastRead /\ Goto(c, "healthy")
          ELSE /\ \E m \in b : (\A i \in b : i <= m) /\ lastRead' = m
               /\ Goto(c, "handle")
  /\ UNCHANGED <<upTo, broke, writerVars, lastAcked, holder, faults, done, floor>>

IsNext(c, i) == i \in batch[c] /\ \A j \in batch[c] : i <= j

Handle(c) ==
  /\ pc[c] = "handle"
  /\ \E i \in batch[c] :
       /\ IsNext(c, i)
       /\ batch' = [batch EXCEPT ![c] = @ \ {i}]
       /\ upTo' = [upTo EXCEPT ![c] = i]
       /\ done' = done \union {i}
       /\ Goto(c, IF batch[c] = {i} THEN "ack" ELSE "handle")
  /\ UNCHANGED <<broke, writerVars, lastRead, lastAcked, holder, faults, owed,
                 floor>>

\* The handler returned an error: stop at the head of the line.
HandlerFails(c) ==
  /\ pc[c] = "handle" /\ faults < MaxFaults
  /\ faults' = faults + 1
  /\ broke' = [broke EXCEPT ![c] = TRUE]
  /\ Goto(c, IF upTo[c] > 0 THEN "ack" ELSE "rewind")
  /\ UNCHANGED <<batch, upTo, writerVars, lastRead, lastAcked, holder, done,
                 owed, floor>>

\* The session that c believes to hold is given back.
DropLock(c) ==
  /\ holder' = IF holder = c THEN None ELSE holder
  /\ Goto(c, "acquire")

\* Forward only; the CHECK acked <= read makes a late ack an error, and an
\* error drops the lock.
AckEvents(c) ==
  /\ pc[c] = "ack"
  /\ IF upTo[c] > lastAcked /\ upTo[c] > lastRead
     THEN DropLock(c) /\ UNCHANGED lastAcked
     ELSE /\ lastAcked' = IF upTo[c] > lastAcked THEN upTo[c] ELSE lastAcked
          /\ Goto(c, IF broke[c] THEN "rewind" ELSE "healthy")
          /\ UNCHANGED holder
  /\ Forget(c)
  /\ UNCHANGED <<writerVars, lastRead, faults, done, owed, floor>>

\* A broken batch that is acknowledged up to the break and left behind.
RewindNothing(c) ==
  /\ pc[c] = "rewind"
  /\ Forget(c)
  /\ Goto(c, "healthy")
  /\ UNCHANGED <<writerVars, busVars>>

Rewind(c) ==
  /\ pc[c] = "rewind"
  /\ ResetEventRead
  /\ Forget(c)
  /\ Goto(c, "healthy")
  /\ UNCHANGED <<writerVars, lastAcked, holder, faults, done, owed, floor>>

LoopStep(c) ==
  \/ TryLockSubscriber(c) \/ Redeliver(c) \/ Healthy(c) \/ ReadEventBatch(c)
  \/ Handle(c) \/ AckEvents(c) \/ Rewind(c)

\* A store error, a cancelled context or a crash of the process: the session
\* ends with the loop and what was read is forgotten.
Stop(c) ==
  /\ pc[c] # "acquire" /\ faults < MaxFaults
  /\ faults' = faults + 1
  /\ DropLock(c)
  /\ Forget(c)
  /\ UNCHANGED <<writerVars, lastRead, lastAcked, done, owed, floor>>

\* idle_session_timeout, a pooler's reap, pg_terminate_backend: the lock is
\* free and the loop does not know.
LoseSession(c) ==
  /\ SessionLoss /\ holder = c /\ faults < MaxFaults
  /\ faults' = faults + 1
  /\ holder' = None
  /\ UNCHANGED <<loopVars, writerVars, lastRead, lastAcked, done, owed, floor>>

\* The operator's replay or skip.
SeekEventSubscriber(to) ==
  /\ faults < MaxFaults
  /\ faults' = faults + 1
  /\ lastRead' = to /\ lastAcked' = to /\ floor' = to
  /\ done' = {i \in done : i <= to}
  /\ owed' = {i \in owed : i <= to}
  /\ UNCHANGED <<loopVars, writerVars, holder>>

Consumer(c) == LoopStep(c) \/ HandlerFails(c) \/ Stop(c) \/ LoseSession(c)

-----------------------------------------------------------------------------

Init ==
  /\ nextId = 1 /\ nextXid = 1
  /\ tx = [w \in Writers |-> NoTx]
  /\ log = {} /\ effects = [k \in Keys |-> 0]
  /\ lastRead = 0 /\ lastAcked = 0 /\ holder = None
  /\ pc = [c \in Consumers |-> "acquire"]
  /\ batch = [c \in Consumers |-> {}]
  /\ upTo = [c \in Consumers |-> 0]
  /\ broke = [c \in Consumers |-> FALSE]
  /\ faults = 0 /\ done = {} /\ owed = {} /\ floor = 0

Next ==
  \/ \E w \in Writers : Writer(w)
  \/ \E c \in Consumers : Consumer(c)
  \/ \E to \in 0 .. MaxSeek : SeekEventSubscriber(to)

Spec == Init /\ [][Next]_vars

\* Transactions end and the loop keeps running: both are ordinary progress of
\* a live server.  Nothing obliges a client to write, a handler to fail or an
\* operator to seek.
Fairness ==
  /\ \A w \in Writers : WF_vars(AssignXid(w) \/ DrawId(w) \/ Insert(w) \/ Commit(w))
  /\ \A c \in Consumers : WF_vars(LoopStep(c))

FairSpec == Spec /\ Fairness

-----------------------------------------------------------------------------
(* Properties *)

Tx == [at : {"idle", "id", "xid", "drawn", "stored", "dup"}, id : Nat, xid : Nat,
       key : Keys \union {None}, seen : SUBSET Nat]
Event == [id : Nat, xid : Nat, key : Keys, seen : SUBSET Nat]
Steps == {"acquire", "reset", "healthy", "read", "handle", "ack", "rewind"}

WriterTypeOK ==
  /\ nextId \in Nat \ {0} /\ nextXid \in Nat \ {0}
  /\ tx \in [Writers -> Tx]
  /\ \A w \in Writers : tx[w].at = "idle" \/ tx[w].key \in Keys
  /\ log \subseteq Event /\ effects \in [Keys -> Nat]

LoopTypeOK ==
  /\ lastRead \in Nat /\ lastAcked \in Nat /\ holder \in Consumers \union {None}
  /\ pc \in [Consumers -> Steps] /\ batch \in [Consumers -> SUBSET Nat]
  /\ upTo \in [Consumers -> Nat] /\ broke \in [Consumers -> BOOLEAN]
  /\ faults \in Nat /\ done \subseteq Nat /\ owed \subseteq Nat /\ floor \in Nat

\* Every variable holds a value of the kind its column or local variable has.
TypeOK == WriterTypeOK /\ LoopTypeOK

\* RecordEvent deduplicates: however many deliveries of one (source,
\* external_id) race, at most one row carries it, and apply has committed
\* exactly as often as such a row exists.
AppliedOnce ==
  /\ \A e, f \in log : e.key = f.key => e = f
  /\ \A k \in Keys : effects[k] = IF Conflict(k) THEN 1 ELSE 0

\* Writers that do not overlap are ordered: an event recorded after another
\* had committed has the larger id, and no reader can see it earlier.
CausalOrder ==
  \A e, f \in log :
    e.id \in f.seen => e.id < f.id /\ (f \in Readable => e \in Readable)

\* The loop acknowledges only what was handled: an event some batch returned
\* and that lies between the last seek and the ack offset has been handled,
\* whatever handler errors, restarts, failovers and seeks came between.
AckedHandled == \A i \in owed : floor < i /\ i <= lastAcked => i \in done

\* Whichever way the writers draw their ids and xids, and whatever crashes and
\* seeks come between, the horizon lets no more than an inversion pass: an event
\* behind the read offset that no batch returned is overtaken by one that a batch
\* did return, which drew its id later and its xid earlier.
HiddenByInversion ==
  \A e \in log : floor < e.id /\ e.id <= lastRead /\ e.id \notin owed =>
    \E f \in log : f.id \in owed /\ e.id < f.id /\ f.xid < e.xid

\* Every event that commits ends up handled (or skipped by a seek) for good:
\* gaps in the ids, aborted writers, standby replicas and failed batches never
\* wedge the stream, and no single fault, a lost session included, costs an
\* event.
EveryEventHandled ==
  \A i \in 1 .. MaxId : <>[](i \in LogIds => i \in done \/ i <= floor)
=============================================================================

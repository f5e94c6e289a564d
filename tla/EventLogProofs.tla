--------------------------- MODULE EventLogProofs ---------------------------
(* Theorems about EventLog, for every number of writers, consumers and ids. *)
EXTENDS EventLog, TLAPS

-----------------------------------------------------------------------------
(* Type correctness *)

\* A step of a writer leaves the subscription alone.
LEMMA WriterFrame ==
  ASSUME NEW w \in Writers, Writer(w)
  PROVE  UNCHANGED <<loopVars, busVars>>
BY DEF Writer, BeginTogether, BeginWithId, BeginWithXid, AssignXid, DrawId,
       Insert, Commit, Abort

\* A step of the loop or of the operator leaves the log and its writers alone.
LEMMA LoopFrame ==
  ASSUME \/ \E c \in Consumers : Consumer(c)
         \/ \E to \in 0 .. MaxSeek : SeekEventSubscriber(to)
  PROVE  UNCHANGED writerVars
BY DEF Consumer, LoopStep, TryLockSubscriber, Redeliver, Healthy, ReadEventBatch,
       Handle, HandlerFails, AckEvents, Rewind, Stop, LoseSession,
       SeekEventSubscriber

\* The writers keep the types of their own variables.
LEMMA WriterTyping ==
  ASSUME WriterTypeOK, NEW w \in Writers, Writer(w)
  PROVE  WriterTypeOK'
<1> USE DEF WriterTypeOK
<1>0. tx[w] \in Tx /\ LogIds \in SUBSET Nat
  BY DEF LogIds, Event
<1>1. ASSUME NEW k \in Keys, BeginTogether(w, k) PROVE WriterTypeOK'
  BY <1>1, <1>0 DEF BeginTogether, Start, Tx
<1>2. ASSUME NEW k \in Keys, BeginWithId(w, k) PROVE WriterTypeOK'
  BY <1>2, <1>0 DEF BeginWithId, Start, Tx
<1>3. ASSUME NEW k \in Keys, BeginWithXid(w, k) PROVE WriterTypeOK'
  BY <1>3, <1>0 DEF BeginWithXid, Start, Tx
<1>4. CASE AssignXid(w)
  <2>1. [tx[w] EXCEPT !.at = "drawn", !.xid = nextXid] \in Tx
    BY <1>0 DEF Tx
  <2> QED BY <1>4, <2>1 DEF AssignXid, Tx
<1>5. CASE DrawId(w)
  <2>1. [tx[w] EXCEPT !.at = "drawn", !.id = nextId] \in Tx
    BY <1>0 DEF Tx
  <2> QED BY <1>5, <2>1 DEF DrawId, Tx
<1>6. CASE Insert(w)
  BY <1>6, <1>0 DEF Insert, Tx
<1>7. CASE Commit(w)
  <2>1. NoTx \in Tx /\ NoTx.at = "idle"
    BY DEF NoTx, Tx
  <2>2. /\ tx' \in [Writers -> Tx]
        /\ \A v \in Writers : tx'[v].at = "idle" \/ tx'[v].key \in Keys
    BY <1>7, <2>1 DEF Commit
  <2>3. CASE tx[w].at = "stored"
    <3>1. [id |-> tx[w].id, xid |-> tx[w].xid, key |-> tx[w].key,
           seen |-> tx[w].seen] \in Event
      BY <1>0, <2>3 DEF Tx, Event
    <3>2. log' \subseteq Event
      BY <1>7, <2>3, <3>1 DEF Commit
    <3>3. effects' \in [Keys -> Nat]
      BY <1>7, <2>3 DEF Commit
    <3> QED BY <1>7, <2>2, <3>2, <3>3 DEF Commit
  <2>4. CASE tx[w].at # "stored"
    BY <1>7, <2>2, <2>4 DEF Commit
  <2> QED BY <2>3, <2>4
<1>8. CASE Abort(w)
  <2>1. NoTx \in Tx /\ NoTx.at = "idle"
    BY DEF NoTx, Tx
  <2> QED BY <1>8, <2>1 DEF Abort
<1> QED BY <1>1, <1>2, <1>3, <1>4, <1>5, <1>6, <1>7, <1>8 DEF Writer

\* The loop keeps the types of its own variables.
LEMMA LoopTyping ==
  ASSUME WriterTypeOK, LoopTypeOK, NEW c \in Consumers, Consumer(c)
  PROVE  LoopTypeOK'
<1> USE NoneAssumption DEF LoopTypeOK, Steps, Goto
<1>1. CASE TryLockSubscriber(c)
  BY <1>1 DEF TryLockSubscriber
<1>2. CASE Redeliver(c)
  BY <1>2 DEF Redeliver, ResetEventRead
<1>3. CASE Healthy(c)
  BY <1>3 DEF Healthy, busVars
<1>4. CASE ReadEventBatch(c)
  <2>1. After(lastRead) \subseteq Nat
    BY DEF After, Readable, WriterTypeOK, Event
  <2>2. PICK b \in SUBSET After(lastRead) :
          /\ batch' = [batch EXCEPT ![c] = b]
          /\ owed' = owed \union b
          /\ IF b = {}
             THEN lastRead' = lastRead /\ Goto(c, "healthy")
             ELSE /\ \E m \in b : (\A i \in b : i <= m) /\ lastRead' = m
                  /\ Goto(c, "handle")
    BY <1>4 DEF ReadEventBatch
  <2>3. lastRead' \in Nat /\ pc' \in [Consumers -> Steps]
    BY <2>1, <2>2
  <2> QED BY <1>4, <2>1, <2>2, <2>3 DEF ReadEventBatch
<1>5. CASE Handle(c)
  <2>1. PICK i \in batch[c] :
          /\ batch' = [batch EXCEPT ![c] = @ \ {i}]
          /\ upTo' = [upTo EXCEPT ![c] = i]
          /\ done' = done \union {i}
          /\ Goto(c, IF batch[c] = {i} THEN "ack" ELSE "handle")
    BY <1>5 DEF Handle
  <2>2. i \in Nat
    BY <2>1
  <2>3. pc' \in [Consumers -> Steps]
    BY <2>1
  <2> QED BY <1>5, <2>1, <2>2, <2>3 DEF Handle
<1>6. CASE HandlerFails(c)
  BY <1>6 DEF HandlerFails
<1>7. CASE AckEvents(c)
  <2>1. /\ holder' \in Consumers \union {None} /\ pc' \in [Consumers -> Steps]
        /\ lastAcked' \in Nat
    BY <1>7 DEF AckEvents, DropLock
  <2> QED BY <1>7, <2>1 DEF AckEvents, Forget
<1>8. CASE Rewind(c)
  BY <1>8 DEF Rewind, Forget, ResetEventRead
<1>9. CASE Stop(c)
  BY <1>9 DEF Stop, Forget, DropLock
<1>10. CASE LoseSession(c)
  BY <1>10 DEF LoseSession, loopVars
<1> QED BY <1>1, <1>2, <1>3, <1>4, <1>5, <1>6, <1>7, <1>8, <1>9, <1>10
           DEF Consumer, LoopStep

\* Type correctness of every variable, over every operation.
THEOREM Typing == Spec => []TypeOK
<1>1. Init => TypeOK
  BY NoneAssumption DEF Init, TypeOK, WriterTypeOK, LoopTypeOK, NoTx, Tx, Steps
<1>2. TypeOK /\ [Next]_vars => TypeOK'
  <2> SUFFICES ASSUME TypeOK, [Next]_vars PROVE TypeOK'
    OBVIOUS
  <2>1. ASSUME NEW w \in Writers, Writer(w) PROVE TypeOK'
    BY <2>1, WriterTyping, WriterFrame
       DEF TypeOK, LoopTypeOK, loopVars, busVars
  <2>2. ASSUME NEW c \in Consumers, Consumer(c) PROVE TypeOK'
    BY <2>2, LoopTyping, LoopFrame DEF TypeOK, WriterTypeOK, writerVars
  <2>3. ASSUME NEW to \in 0 .. MaxSeek, SeekEventSubscriber(to) PROVE TypeOK'
    <3>1. to \in Nat
      BY BoundAssumption
    <3>2. done' \subseteq Nat /\ owed' \subseteq Nat /\ faults' \in Nat
      <4>1. done' = {i \in done : i <= to} /\ owed' = {i \in owed : i <= to}
        BY <2>3 DEF SeekEventSubscriber
      <4>2. done' \subseteq done /\ owed' \subseteq owed
        BY <4>1
      <4>3. faults' \in Nat
        BY <2>3 DEF SeekEventSubscriber, TypeOK, LoopTypeOK
      <4> QED BY <4>2, <4>3 DEF TypeOK, LoopTypeOK
    <3>3. LoopTypeOK'
      BY <2>3, <3>1, <3>2 DEF SeekEventSubscriber, TypeOK, LoopTypeOK, loopVars
    <3> QED BY <2>3, <3>3 DEF SeekEventSubscriber, TypeOK, WriterTypeOK, writerVars
  <2>4. CASE UNCHANGED vars
    BY <2>4 DEF vars, writerVars, loopVars, busVars, TypeOK, WriterTypeOK,
                LoopTypeOK
  <2> QED BY <2>1, <2>2, <2>3, <2>4 DEF Next
<1> QED BY <1>1, <1>2, PTL DEF Spec

-----------------------------------------------------------------------------
(* The causal order of the log.  Ids and xids are counters, so a draw is     *)
(* larger than every earlier one; a transaction that saw an event commit     *)
(* draws both after the event's writer drew its own.                         *)

\* What is drawn lies below the counters, and no id is drawn twice.
Drawn ==
  /\ \A e \in log : e.id < nextId /\ e.xid < nextXid
  /\ \A w \in Writers : /\ HasId(w) => tx[w].id < nextId
                        /\ HasXid(w) => tx[w].xid < nextXid
  /\ \A e, f \in log : e.id = f.id => e = f
  /\ \A e \in log, w \in Writers : HasId(w) => e.id # tx[w].id
  /\ \A v, w \in Writers : HasId(v) /\ HasId(w) /\ tx[v].id = tx[w].id => v = w

\* What a writer saw committed when it began precedes it in both orders.
SeenFirst ==
  /\ \A w \in Writers : tx[w].at # "idle" => tx[w].seen \subseteq LogIds
  /\ \A e \in log, w \in Writers :
       /\ HasId(w) /\ e.id \in tx[w].seen => e.id < tx[w].id
       /\ HasXid(w) /\ e.id \in tx[w].seen => e.xid < tx[w].xid
  /\ \A f \in log : f.seen \subseteq LogIds
  /\ \A e, f \in log : e.id \in f.seen => e.id < f.id /\ e.xid < f.xid

CausalInv == WriterTypeOK /\ Drawn /\ SeenFirst

\* The beginnings of a transaction.
LEMMA BeginCausal ==
  ASSUME CausalInv, NEW w \in Writers, NEW k \in Keys,
         BeginTogether(w, k) \/ BeginWithId(w, k) \/ BeginWithXid(w, k)
  PROVE  Drawn' /\ SeenFirst'
<1> USE DEF CausalInv, WriterTypeOK, Drawn, SeenFirst, HasId, HasXid, LogIds
<1>1. CASE BeginTogether(w, k)
  BY <1>1 DEF BeginTogether, Start, Tx, Event
<1>2. CASE BeginWithId(w, k)
  BY <1>2 DEF BeginWithId, Start, Tx, Event
<1>3. CASE BeginWithXid(w, k)
  BY <1>3 DEF BeginWithXid, Start, Tx, Event
<1> QED BY <1>1, <1>2, <1>3

\* The second draw is the newest of its kind; INSERT and abort draw nothing.
LEMMA DrawCausal ==
  ASSUME CausalInv, NEW w \in Writers,
         AssignXid(w) \/ DrawId(w) \/ Insert(w) \/ Abort(w)
  PROVE  Drawn' /\ SeenFirst'
<1> USE DEF CausalInv, WriterTypeOK, Drawn, SeenFirst, HasId, HasXid, LogIds
<1>1. CASE AssignXid(w)
  BY <1>1 DEF AssignXid, Tx, Event
<1>2. CASE DrawId(w)
  BY <1>2 DEF DrawId, Tx, Event
<1>3. CASE Insert(w)
  BY <1>3 DEF Insert, Tx, Event
<1>4. CASE Abort(w)
  BY <1>4 DEF Abort, NoTx, Tx, Event
<1> QED BY <1>1, <1>2, <1>3, <1>4

\* A commit moves the transaction's draws and what it saw into the log.
LEMMA CommitCausal ==
  ASSUME CausalInv, NEW w \in Writers, Commit(w)
  PROVE  Drawn' /\ SeenFirst'
<1> USE DEF CausalInv, WriterTypeOK, Drawn, SeenFirst, HasId, HasXid, LogIds
<1>1. CASE tx[w].at = "stored"
  <2> DEFINE new == [id |-> tx[w].id, xid |-> tx[w].xid, key |-> tx[w].key,
                     seen |-> tx[w].seen]
  <2>1. log' = log \union {new} /\ nextId' = nextId /\ nextXid' = nextXid
    BY <1>1 DEF Commit
  <2>2. tx' = [tx EXCEPT ![w] = NoTx] /\ ~HasId(w)' /\ ~HasXid(w)' /\ tx'[w].at = "idle"
    BY DEF Commit, NoTx
  <2>3. \A v \in Writers : v # w => tx'[v] = tx[v]
    BY <2>2
  <2>4. HasId(w) /\ HasXid(w)
    BY <1>1
  <2>5. /\ new.id < nextId /\ new.xid < nextXid
        /\ new.id = tx[w].id /\ new.xid = tx[w].xid /\ new.seen = tx[w].seen
        /\ new.id \notin new.seen
    BY <2>4 DEF Tx, Event
  <2> HIDE DEF new
  <2>6. Drawn'
    BY <2>1, <2>2, <2>3, <2>4, <2>5
  <2>7. \A v \in Writers : v # w /\ tx[v].at # "idle" => new.id \notin tx[v].seen
    BY <2>4, <2>5 DEF Event
  <2>8. LogIds' = LogIds \union {new.id}
    BY <2>1
  <2>9. \A f \in log : new.id \notin f.seen
    BY <2>4, <2>5
  <2>10. SeenFirst'
    BY <1>1, <2>1, <2>2, <2>3, <2>4, <2>5, <2>7, <2>8, <2>9
  <2> QED BY <2>6, <2>10
<1>2. CASE tx[w].at # "stored"
  BY <1>2 DEF Commit, NoTx, Tx, Event
<1> QED BY <1>1, <1>2

\* So the draws of every writer stay behind what it saw committed.
LEMMA CausalInvariance == Spec => []CausalInv
<1>1. Init => CausalInv
  BY Typing DEF Init, CausalInv, WriterTypeOK, Drawn, SeenFirst, HasId, HasXid,
                NoTx, Tx
<1>2. CausalInv /\ [Next]_vars => CausalInv'
  <2> SUFFICES ASSUME CausalInv, [Next]_vars PROVE CausalInv'
    OBVIOUS
  <2>1. ASSUME NEW w \in Writers, Writer(w) PROVE CausalInv'
    BY <2>1, WriterTyping, BeginCausal, DrawCausal, CommitCausal
       DEF CausalInv, Writer
  <2>2. CASE UNCHANGED writerVars
    BY <2>2 DEF writerVars, CausalInv, WriterTypeOK, Drawn, SeenFirst, HasId,
                HasXid, LogIds
  <2> QED BY <2>1, <2>2, LoopFrame DEF Next, vars
<1> QED BY <1>1, <1>2, PTL DEF Spec

\* Whatever way writers draw their positions: an event recorded after another
\* had committed lies behind it in the log, and is never readable before it.
THEOREM CausallyOrdered == Spec => []CausalOrder
<1>1. CausalInv => CausalOrder
  <2> SUFFICES ASSUME CausalInv, NEW e \in log, NEW f \in log, e.id \in f.seen
               PROVE  e.id < f.id /\ (f \in Readable => e \in Readable)
    BY DEF CausalOrder
  <2>1. e.id < f.id /\ e.xid < f.xid
    BY DEF CausalInv, SeenFirst
  <2> QED BY <2>1 DEF Readable, eventHorizon, CausalInv, WriterTypeOK, HasXid, Tx,
                      Event
<1> QED BY <1>1, CausalInvariance, PTL
-----------------------------------------------------------------------------
(* One apply per key.  An open transaction that stored a key excludes both a *)
(* committed row with that key and another open one.                         *)

OnceInv ==
  /\ WriterTypeOK
  /\ AppliedOnce
  /\ \A w \in Writers : tx[w].at = "stored" => ~Conflict(tx[w].key)
  /\ \A v, w \in Writers :
       tx[v].at = "stored" /\ tx[w].at = "stored" /\ tx[v].key = tx[w].key => v = w

\* Until it stores its key a transaction changes nothing that is committed.
LEMMA OnceBeforeCommit ==
  ASSUME OnceInv, NEW w \in Writers, Writer(w), ~Commit(w)
  PROVE  OnceInv'
<1> USE DEF OnceInv, WriterTypeOK, AppliedOnce, Conflict
<1>0. WriterTypeOK' /\ tx[w] \in Tx
  BY WriterTyping
<1>1. log' = log /\ effects' = effects
  BY DEF Writer, BeginTogether, BeginWithId, BeginWithXid, AssignXid, DrawId,
         Insert, Abort
<1>2. \A v \in Writers \ {w} : tx'[v] = tx[v]
  BY DEF Writer, BeginTogether, BeginWithId, BeginWithXid, AssignXid, DrawId,
         Insert, Abort, Start
<1>3. CASE Insert(w)
  <2>1. /\ tx'[w].key = tx[w].key
        /\ tx'[w].at = IF Conflict(tx[w].key) THEN "dup" ELSE "stored"
    BY <1>3, <1>0 DEF Insert, Tx
  <2>2. \A v \in Writers \ {w} : tx[v].at = "stored" => tx[v].key # tx[w].key
    BY <1>3 DEF Insert, InDoubt
  <2>3. \A v \in Writers : tx'[v].at = "stored" => ~Conflict(tx[v].key)'
    BY <1>1, <1>2, <2>1
  <2> QED BY <1>0, <1>1, <1>2, <2>1, <2>2, <2>3
<1>4. CASE ~Insert(w)
  <2>1. tx'[w].at # "stored"
    <3>1. ASSUME NEW k \in Keys,
                 BeginTogether(w, k) \/ BeginWithId(w, k) \/ BeginWithXid(w, k)
          PROVE  tx'[w].at # "stored"
      BY <3>1 DEF BeginTogether, BeginWithId, BeginWithXid, Start
    <3>2. CASE AssignXid(w) \/ DrawId(w)
      <4>1. \/ tx'[w] = [tx[w] EXCEPT !.at = "drawn", !.xid = nextXid]
            \/ tx'[w] = [tx[w] EXCEPT !.at = "drawn", !.id = nextId]
        BY <3>2 DEF AssignXid, DrawId
      <4>2. tx'[w].at = "drawn"
        BY <4>1, <1>0 DEF Tx
      <4> QED BY <4>2
    <3>3. CASE Abort(w)
      BY <3>3 DEF Abort, NoTx
    <3> QED BY <1>4, <3>1, <3>2, <3>3 DEF Writer
  <2> QED BY <1>0, <1>1, <1>2, <2>1
<1> QED BY <1>3, <1>4

\* A transaction that stored its key commits the only row and effect of it.
LEMMA OnceCommit ==
  ASSUME OnceInv, NEW w \in Writers, Commit(w)
  PROVE  OnceInv'
<1> USE DEF OnceInv, WriterTypeOK, AppliedOnce, Conflict
<1>0. WriterTypeOK' /\ tx[w] \in Tx
  BY WriterTyping DEF Writer
<1>1. tx'[w].at = "idle" /\ \A v \in Writers \ {w} : tx'[v] = tx[v]
  BY DEF Commit, NoTx
<1>2. CASE tx[w].at = "stored"
  <2> DEFINE k == tx[w].key
             new == [id |-> tx[w].id, xid |-> tx[w].xid, key |-> k,
                     seen |-> tx[w].seen]
  <2>1. log' = log \union {new} /\ effects' = [effects EXCEPT ![k] = @ + 1]
    BY <1>2 DEF Commit
  <2>2. k \in Keys /\ new.key = k /\ ~Conflict(k) /\ effects[k] = 0
    BY <1>2
  <2> HIDE DEF new, k
  <2>3. \A j \in Keys : Conflict(j)' <=> Conflict(j) \/ j = k
    BY <2>1, <2>2
  <2>4. AppliedOnce'
    BY <1>2, <2>1, <2>2, <2>3
  <2>5. \A v \in Writers \ {w} : tx[v].at = "stored" => tx[v].key # k
    BY <1>2 DEF k
  <2>6. \A v \in Writers : tx'[v].at = "stored" => ~Conflict(tx[v].key)'
    BY <1>1, <2>1, <2>2, <2>5
  <2> QED BY <1>0, <1>1, <2>4, <2>6
<1>3. CASE tx[w].at # "stored"
  BY <1>0, <1>1, <1>3 DEF Commit
<1> QED BY <1>2, <1>3

\* However many deliveries of one (source, external_id) race, one row is
\* recorded and its apply commits once.
THEOREM RecordedOnce == Spec => []AppliedOnce
<1>1. Init => OnceInv
  BY Typing DEF Init, OnceInv, AppliedOnce, Conflict, WriterTypeOK, NoTx, Tx
<1>2. OnceInv /\ [Next]_vars => OnceInv'
  <2> SUFFICES ASSUME OnceInv, [Next]_vars PROVE OnceInv'
    OBVIOUS
  <2>1. ASSUME NEW w \in Writers, Writer(w) PROVE OnceInv'
    BY <2>1, OnceBeforeCommit, OnceCommit
  <2>2. CASE UNCHANGED writerVars
    BY <2>2 DEF writerVars, OnceInv, AppliedOnce, Conflict, WriterTypeOK
  <2> QED BY <2>1, <2>2, LoopFrame DEF Next, vars
<1>3. OnceInv => AppliedOnce
  BY DEF OnceInv
<1> QED BY <1>1, <1>2, <1>3, PTL DEF Spec
-----------------------------------------------------------------------------
(* The horizon never takes back what it let a reader see.                    *)

\* A readable event stays readable whatever the writers do next: a later xid
\* is larger than every xid in the log.
LEMMA StaysReadable ==
  ASSUME CausalInv, [Next]_vars, NEW e \in Readable
  PROVE  e \in Readable'
<1> USE DEF CausalInv, WriterTypeOK, Drawn, Readable, eventHorizon, HasXid
<1>1. ASSUME NEW w \in Writers, Writer(w) PROVE e \in Readable'
  <2>1. e \in log' /\ e.xid < nextXid /\ e.xid \in Nat
    BY <1>1 DEF Writer, BeginTogether, BeginWithId, BeginWithXid, AssignXid, DrawId,
                Insert, Commit, Abort, Event
  <2>2. \A v \in Writers \ {w} : tx'[v] = tx[v]
    BY <1>1 DEF Writer, BeginTogether, BeginWithId, BeginWithXid, AssignXid, DrawId,
                Insert, Commit, Abort, Start
  <2>3. HasXid(w)' => tx'[w].xid = nextXid \/ (HasXid(w) /\ tx'[w].xid = tx[w].xid)
    <3>1. ASSUME NEW k \in Keys,
                 BeginTogether(w, k) \/ BeginWithId(w, k) \/ BeginWithXid(w, k)
          PROVE  HasXid(w)' => tx'[w].xid = nextXid
      BY <3>1 DEF BeginTogether, BeginWithId, BeginWithXid, Start
    <3>2. CASE AssignXid(w)
      <4>1. tx'[w] = [tx[w] EXCEPT !.at = "drawn", !.xid = nextXid]
        BY <3>2 DEF AssignXid
      <4> QED BY <4>1 DEF Tx
    <3>3. CASE DrawId(w)
      <4>1. tx'[w] = [tx[w] EXCEPT !.at = "drawn", !.id = nextId] /\ tx[w].at = "xid"
        BY <3>3 DEF DrawId
      <4> QED BY <4>1 DEF Tx
    <3>4. CASE Insert(w)
      <4>1. tx'[w].xid = tx[w].xid /\ tx[w].at = "drawn"
        BY <3>4 DEF Insert, Tx
      <4> QED BY <4>1
    <3>5. CASE Commit(w) \/ Abort(w)
      <4>1. tx'[w].at = "idle"
        BY <3>5 DEF Commit, Abort, NoTx
      <4> QED BY <4>1
    <3> QED BY <1>1, <3>1, <3>2, <3>3, <3>4, <3>5 DEF Writer
  <2> QED BY <2>1, <2>2, <2>3
<1>2. CASE UNCHANGED writerVars
  BY <1>2 DEF writerVars
<1> QED BY <1>1, <1>2, LoopFrame DEF Next, vars

-----------------------------------------------------------------------------
(* At-least-once delivery to the handler.  While its session lives, the      *)
(* holder of the lock is the only loop past "acquire"; between its read and  *)
(* its ack every event behind the read offset is handled or still in hand.   *)

InHand(c) ==
  /\ pc[c] \in {"healthy", "read", "handle", "ack"} =>
       \A i \in owed : floor < i /\ i <= lastRead => i \in done \/ i \in batch[c]
  /\ pc[c] \in {"handle", "ack"} => \A i \in batch[c] : upTo[c] < i
  /\ pc[c] \notin {"handle", "ack", "rewind"} => batch[c] = {} /\ upTo[c] = 0
  /\ pc[c] = "ack" /\ ~broke[c] => batch[c] = {}
  /\ pc[c] # "acquire" => holder = c

DeliveryInv ==
  /\ TypeOK
  /\ CausalInv
  /\ lastAcked <= lastRead
  /\ \A i \in owed : \E e \in Readable : e.id = i
  /\ \A c \in Consumers : InHand(c)
  /\ AckedHandled

\* An event that was read before stays readable, so the batch that spans its
\* id contains it.
LEMMA ReadKeepsHand ==
  ASSUME DeliveryInv, NEW c \in Consumers, ReadEventBatch(c)
  PROVE  /\ lastAcked' <= lastRead' /\ lastRead <= lastRead'
         /\ \A i \in owed' : \E e \in Readable : e.id = i
         /\ InHand(c)'
         /\ AckedHandled'
<1> USE DEF DeliveryInv, TypeOK, LoopTypeOK, WriterTypeOK
<1>1. PICK b \in SUBSET After(lastRead) :
        /\ IsBatch(b)
        /\ batch' = [batch EXCEPT ![c] = b]
        /\ owed' = owed \union b
        /\ IF b = {}
           THEN lastRead' = lastRead /\ Goto(c, "healthy")
           ELSE /\ \E m \in b : (\A i \in b : i <= m) /\ lastRead' = m
                /\ Goto(c, "handle")
  BY DEF ReadEventBatch
<1>2. \A i \in After(lastRead) : i \in Nat /\ lastRead < i /\ \E e \in Readable : e.id = i
  BY DEF After, Readable, Event
<1>3. \A i \in owed' : i \in Nat /\ \E e \in Readable : e.id = i
  BY <1>1, <1>2
<1>4. /\ pc[c] = "read" /\ batch[c] = {} /\ upTo[c] = 0 /\ holder = c
      /\ UNCHANGED <<lastAcked, holder, done, floor, broke, upTo>>
  BY DEF ReadEventBatch, InHand
<1>5. \A i \in owed : floor < i /\ i <= lastRead => i \in done
  BY <1>4 DEF InHand
<1>6. AckedHandled'
  BY <1>1, <1>2, <1>4 DEF AckedHandled
<1>7. CASE b = {}
  BY <1>1, <1>3, <1>4, <1>5, <1>6, <1>7 DEF InHand, Goto
<1>8. CASE b # {}
  <2>1. PICK m \in b : (\A i \in b : i <= m) /\ lastRead' = m
    BY <1>1, <1>8
  <2>2. lastRead < lastRead' /\ lastRead' \in Nat /\ pc'[c] = "handle" /\ batch'[c] = b
    BY <1>1, <1>2, <1>8, <2>1 DEF Goto
  <2>3. ASSUME NEW i \in owed', floor' < i, i <= lastRead' PROVE i \in done' \/ i \in b
    <3>1. CASE i \in b
      BY <3>1
    <3>2. CASE i \in owed /\ i <= lastRead
      BY <3>2, <2>3, <1>4, <1>5
    <3>3. CASE i \in owed /\ i > lastRead
      <4>1. i \in After(lastRead)
        BY <3>3 DEF After
      <4> QED BY <4>1, <1>1, <2>1, <2>3, <1>2 DEF IsBatch
    <3> QED BY <3>1, <3>2, <3>3, <1>1, <1>3
  <2> QED BY <1>2, <1>3, <1>4, <1>6, <2>2, <2>3 DEF InHand
<1> QED BY <1>7, <1>8
\* Handling the head of the batch covers every id up to it.
LEMMA HandleKeepsHand ==
  ASSUME DeliveryInv, NEW c \in Consumers, Handle(c)
  PROVE  InHand(c)' /\ AckedHandled'
<1> USE DEF DeliveryInv, TypeOK, LoopTypeOK
<1>1. PICK i \in batch[c] :
        /\ IsNext(c, i)
        /\ batch' = [batch EXCEPT ![c] = @ \ {i}]
        /\ upTo' = [upTo EXCEPT ![c] = i]
        /\ done' = done \union {i}
        /\ Goto(c, IF batch[c] = {i} THEN "ack" ELSE "handle")
  BY DEF Handle
<1>2. pc[c] = "handle" /\ UNCHANGED <<broke, lastRead, lastAcked, holder, owed, floor>>
  BY DEF Handle
<1>3. /\ batch'[c] = batch[c] \ {i} /\ upTo'[c] = i
      /\ pc'[c] = (IF batch[c] = {i} THEN "ack" ELSE "handle")
      /\ batch[c] \subseteq Nat
  BY <1>1 DEF Goto
<1>4. \A j \in batch'[c] : i < j
  BY <1>1, <1>3 DEF IsNext
<1>5. \A j \in owed : floor < j /\ j <= lastRead => j \in done' \/ j \in batch'[c]
  BY <1>1, <1>2, <1>3 DEF InHand
<1>6. pc'[c] = "ack" => batch'[c] = {}
  BY <1>3
<1>7. AckedHandled'
  BY <1>1, <1>2 DEF AckedHandled
<1>8. holder' = c
  BY <1>2 DEF InHand
<1> QED BY <1>2, <1>3, <1>4, <1>5, <1>6, <1>7, <1>8 DEF InHand

\* Every other step of the loop.
LEMMA StepKeepsHand ==
  ASSUME DeliveryInv, NEW c \in Consumers, Consumer(c),
         ~ReadEventBatch(c), ~Handle(c), ~LoseSession(c)
  PROVE  lastAcked' <= lastRead' /\ owed' = owed /\ InHand(c)' /\ AckedHandled'
<1> USE DEF DeliveryInv, TypeOK, LoopTypeOK, InHand, Goto
<1>1. CASE TryLockSubscriber(c)
  BY <1>1 DEF TryLockSubscriber, AckedHandled
<1>2. CASE Redeliver(c)
  BY <1>2 DEF Redeliver, ResetEventRead, AckedHandled
<1>3. CASE Healthy(c)
  BY <1>3 DEF Healthy, busVars, AckedHandled
<1>4. CASE HandlerFails(c)
  BY <1>4 DEF HandlerFails, AckedHandled
<1>5. CASE AckEvents(c)
  <2>1. CASE upTo[c] > lastAcked /\ upTo[c] > lastRead
    BY <1>5, <2>1 DEF AckEvents, DropLock, Forget, AckedHandled
  <2>2. CASE ~(upTo[c] > lastAcked /\ upTo[c] > lastRead)
    <3>1. /\ pc[c] = "ack" /\ holder = c
          /\ lastAcked' = (IF upTo[c] > lastAcked THEN upTo[c] ELSE lastAcked)
          /\ pc' = [pc EXCEPT ![c] = IF broke[c] THEN "rewind" ELSE "healthy"]
          /\ batch'[c] = {} /\ upTo'[c] = 0
          /\ UNCHANGED <<lastRead, holder, done, owed, floor>>
      BY <1>5, <2>2 DEF AckEvents, Forget
    <3>2. lastAcked' <= lastRead' /\ lastAcked' \in Nat
      BY <2>2, <3>1
    <3>3. AckedHandled'
      BY <2>2, <3>1 DEF AckedHandled
    <3>4. ~broke[c] => \A i \in owed : floor < i /\ i <= lastRead => i \in done
      BY <3>1
    <3>5. pc'[c] = (IF broke[c] THEN "rewind" ELSE "healthy")
      BY <3>1
    <3> QED BY <3>1, <3>2, <3>3, <3>4, <3>5
  <2> QED BY <2>1, <2>2
<1>6. CASE Rewind(c)
  BY <1>6 DEF Rewind, Forget, ResetEventRead, AckedHandled
<1>7. CASE Stop(c)
  BY <1>7 DEF Stop, Forget, DropLock, AckedHandled
<1> QED BY <1>1, <1>2, <1>3, <1>4, <1>5, <1>6, <1>7 DEF Consumer, LoopStep

\* The other replicas stand by: they hold nothing and stay at "acquire".
LEMMA OthersStandBy ==
  ASSUME DeliveryInv, NEW c \in Consumers, Consumer(c), ~LoseSession(c),
         NEW d \in Consumers, d # c
  PROVE  InHand(d)'
<1> USE DEF DeliveryInv, TypeOK, LoopTypeOK
<1>1. pc[d] = "acquire"
  <2>1. pc[c] = "acquire" => holder = None
    BY DEF Consumer, LoopStep, TryLockSubscriber, Redeliver, Healthy, ReadEventBatch,
           Handle, HandlerFails, AckEvents, Rewind, Stop, LoseSession
  <2> QED BY <2>1, NoneAssumption DEF InHand
<1>2. UNCHANGED <<pc[d], batch[d], upTo[d]>>
  BY DEF Consumer, LoopStep, TryLockSubscriber, Redeliver, Healthy, ReadEventBatch,
         Handle, HandlerFails, AckEvents, Rewind, Stop, Goto, Forget, DropLock
<1> QED BY <1>1, <1>2 DEF InHand

\* An operator's seek forgets what lies beyond it, so nothing can be missing.
LEMMA SeekKeepsHand ==
  ASSUME DeliveryInv, NEW to \in 0 .. MaxSeek, SeekEventSubscriber(to)
  PROVE  /\ lastAcked' <= lastRead' /\ owed' \subseteq owed
         /\ \A c \in Consumers : InHand(c)'
         /\ AckedHandled'
<1> USE DEF DeliveryInv, TypeOK, LoopTypeOK
<1>1. to \in Nat
  BY BoundAssumption
<1>2. /\ lastRead' = to /\ lastAcked' = to /\ floor' = to
      /\ owed' = {i \in owed : i <= to} /\ UNCHANGED <<pc, batch, upTo, broke, holder>>
  BY DEF SeekEventSubscriber, loopVars
<1>3. \A i \in Nat : ~(to < i /\ i <= to)
  BY <1>1
<1>4. owed' \subseteq owed /\ owed' \subseteq Nat
  BY <1>2
<1>5. AckedHandled'
  BY <1>2, <1>3, <1>4 DEF AckedHandled
<1>6. ASSUME NEW c \in Consumers PROVE InHand(c)'
  BY <1>2, <1>3, <1>4 DEF InHand
<1> QED BY <1>1, <1>2, <1>4, <1>5, <1>6

\* While a consumer's lock lives exactly as long as its loop, nothing is
\* acknowledged that was not handled, through handler errors, store errors,
\* restarts, failovers and seeks, for every number of replicas.
THEOREM NothingAckedUnhandled ==
  ASSUME SessionLoss = FALSE
  PROVE  Spec => []AckedHandled
<1>1. Init /\ TypeOK /\ CausalInv => DeliveryInv
  BY DEF Init, DeliveryInv, TypeOK, LoopTypeOK, InHand, AckedHandled
<1>2. DeliveryInv /\ [Next]_vars /\ TypeOK' /\ CausalInv' => DeliveryInv'
  <2> SUFFICES ASSUME DeliveryInv, [Next]_vars, TypeOK', CausalInv' PROVE DeliveryInv'
    OBVIOUS
  <2>0. Readable \subseteq Readable'
    BY StaysReadable DEF DeliveryInv
  <2>1. CASE UNCHANGED <<loopVars, busVars>>
    BY <2>0, <2>1 DEF loopVars, busVars, DeliveryInv, InHand, AckedHandled
  <2>2. ASSUME NEW c \in Consumers, Consumer(c) PROVE DeliveryInv'
    <3>1. ~LoseSession(c)
      BY DEF LoseSession
    <3>2. \A d \in Consumers : InHand(d)'
      BY <2>2, <3>1, ReadKeepsHand, HandleKeepsHand, StepKeepsHand, OthersStandBy
    <3>3. CASE ReadEventBatch(c)
      BY <2>0, <3>2, <3>3, ReadKeepsHand DEF DeliveryInv
    <3>4. CASE Handle(c)
      <4>1. UNCHANGED <<owed, lastRead, lastAcked>>
        BY <3>4 DEF Handle
      <4> QED BY <2>0, <3>2, <3>4, <4>1, HandleKeepsHand DEF DeliveryInv
    <3>5. CASE ~ReadEventBatch(c) /\ ~Handle(c)
      BY <2>0, <2>2, <3>1, <3>2, <3>5, StepKeepsHand DEF DeliveryInv
    <3> QED BY <3>3, <3>4, <3>5
  <2>3. ASSUME NEW to \in 0 .. MaxSeek, SeekEventSubscriber(to) PROVE DeliveryInv'
    BY <2>0, <2>3, SeekKeepsHand DEF DeliveryInv
  <2> QED BY <2>1, <2>2, <2>3, WriterFrame DEF Next, vars
<1>3. DeliveryInv => AckedHandled
  BY DEF DeliveryInv
<1> QED BY <1>1, <1>2, <1>3, Typing, CausalInvariance, PTL DEF Spec
-----------------------------------------------------------------------------
(* What the horizon lets pass, for every way to draw an id and an xid.       *)

\* A batch returned an event with a larger id and a smaller xid.
Overtaken(id, xid) ==
  \E f \in log : f.id \in owed /\ id < f.id /\ f.xid < xid

\* The id of an open transaction that a reader has passed: as yet it has no
\* xid, or the xid it has is larger than one that was read.
PassedOpen ==
  \A w \in Writers : HasId(w) /\ floor < tx[w].id /\ tx[w].id <= lastRead =>
    IF tx[w].at = "id"
    THEN \E f \in log : f.id \in owed /\ tx[w].id < f.id
    ELSE Overtaken(tx[w].id, tx[w].xid)

\* The next id lies before every reader.
NextIdAhead == lastAcked <= lastRead /\ (lastRead < nextId \/ lastRead <= floor)

HorizonInv == TypeOK /\ CausalInv /\ PassedOpen /\ NextIdAhead /\ HiddenByInversion

\* A transaction that takes its id takes one beyond the read offset; one that
\* takes its xid takes one larger than any that was read.
LEMMA WriterKeepsHorizon ==
  ASSUME HorizonInv, NEW w \in Writers, Writer(w)
  PROVE  PassedOpen' /\ NextIdAhead' /\ HiddenByInversion'
<1> USE DEF HorizonInv, TypeOK, WriterTypeOK, LoopTypeOK
<1>0. UNCHANGED <<lastRead, lastAcked, owed, floor>>
  BY WriterFrame DEF busVars
<1>n. /\ \A e \in log : e.id \in Nat /\ e.xid \in Nat
      /\ \A v \in Writers : tx[v].id \in Nat /\ tx[v].xid \in Nat
  BY DEF Event, Tx
<1>1. CASE \E k \in Keys : BeginTogether(w, k) \/ BeginWithId(w, k)
  <2>1. /\ tx'[w].id = nextId /\ nextId' = nextId + 1 /\ log' = log
        /\ \A v \in Writers \ {w} : tx'[v] = tx[v]
    BY <1>1 DEF BeginTogether, BeginWithId, Start
  <2> QED BY <1>0, <1>n, <2>1 DEF PassedOpen, NextIdAhead, HiddenByInversion, Overtaken, HasId
<1>2. CASE \E k \in Keys : BeginWithXid(w, k)
  <2>1. /\ tx'[w].at = "xid" /\ nextId' = nextId /\ log' = log
        /\ \A v \in Writers \ {w} : tx'[v] = tx[v]
    BY <1>2 DEF BeginWithXid, Start
  <2> QED BY <1>0, <2>1 DEF PassedOpen, NextIdAhead, HiddenByInversion, Overtaken, HasId
<1>3. CASE AssignXid(w)
  <2>1. /\ tx[w].at = "id" /\ tx'[w].at = "drawn" /\ tx'[w].id = tx[w].id
        /\ tx'[w].xid = nextXid /\ nextId' = nextId /\ log' = log
        /\ \A v \in Writers \ {w} : tx'[v] = tx[v]
    BY <1>3 DEF AssignXid, Tx
  <2>2. \A f \in log : f.xid < nextXid
    BY DEF CausalInv, Drawn
  <2> QED BY <1>0, <1>n, <2>1, <2>2
          DEF PassedOpen, NextIdAhead, HiddenByInversion, Overtaken, HasId
<1>4. CASE DrawId(w)
  <2>1. /\ tx'[w].id = nextId /\ nextId' = nextId + 1 /\ log' = log
        /\ \A v \in Writers \ {w} : tx'[v] = tx[v]
    BY <1>4 DEF DrawId, Tx
  <2> QED BY <1>0, <1>n, <2>1 DEF PassedOpen, NextIdAhead, HiddenByInversion, Overtaken, HasId
<1>5. CASE Insert(w)
  <2>1. /\ tx[w].at = "drawn" /\ tx'[w].id = tx[w].id /\ tx'[w].xid = tx[w].xid
        /\ tx'[w].at \in {"stored", "dup"} /\ log' = log /\ nextId' = nextId
        /\ \A v \in Writers \ {w} : tx'[v] = tx[v]
    BY <1>5 DEF Insert, Tx
  <2> QED BY <1>0, <2>1 DEF PassedOpen, NextIdAhead, HiddenByInversion, Overtaken, HasId
<1>6. CASE Abort(w) \/ (Commit(w) /\ tx[w].at # "stored")
  <2>1. /\ tx'[w].at = "idle" /\ log' = log /\ nextId' = nextId
        /\ \A v \in Writers \ {w} : tx'[v] = tx[v]
    BY <1>6 DEF Abort, Commit, NoTx
  <2> QED BY <1>0, <2>1 DEF PassedOpen, NextIdAhead, HiddenByInversion, Overtaken, HasId
<1>7. CASE Commit(w) /\ tx[w].at = "stored"
  <2> DEFINE new == [id |-> tx[w].id, xid |-> tx[w].xid, key |-> tx[w].key,
                     seen |-> tx[w].seen]
  <2>1. /\ tx'[w].at = "idle" /\ log' = log \union {new} /\ nextId' = nextId
        /\ \A v \in Writers \ {w} : tx'[v] = tx[v]
    BY <1>7 DEF Commit, NoTx
  <2>2. new.id = tx[w].id /\ new.xid = tx[w].xid /\ HasId(w) /\ tx[w].at # "id"
    BY <1>7 DEF HasId
  <2> HIDE DEF new
  <2>3. PassedOpen' /\ NextIdAhead'
    BY <1>0, <2>1 DEF PassedOpen, NextIdAhead, Overtaken, HasId
  <2>4. ASSUME NEW e \in log', floor < e.id, e.id <= lastRead, e.id \notin owed
        PROVE  Overtaken(e.id, e.xid)
    BY <2>1, <2>2, <2>4 DEF PassedOpen, HiddenByInversion, Overtaken
  <2> QED BY <1>0, <2>1, <2>3, <2>4 DEF HiddenByInversion, Overtaken
<1> QED BY <1>1, <1>2, <1>3, <1>4, <1>5, <1>6, <1>7 DEF Writer

\* A batch ends at a readable event, whose xid is smaller than that of every open
\* transaction, and so than that of every event that is not readable yet.
LEMMA ReadKeepsHorizon ==
  ASSUME HorizonInv, NEW c \in Consumers, ReadEventBatch(c)
  PROVE  PassedOpen' /\ NextIdAhead' /\ HiddenByInversion'
<1> USE DEF HorizonInv, TypeOK, WriterTypeOK, LoopTypeOK
<1>1. PICK b \in SUBSET After(lastRead) :
        /\ IsBatch(b)
        /\ owed' = owed \union b
        /\ IF b = {}
           THEN lastRead' = lastRead
           ELSE \E m \in b : (\A i \in b : i <= m) /\ lastRead' = m
  BY DEF ReadEventBatch
<1>2. UNCHANGED <<tx, log, nextId, lastAcked, floor>>
  BY DEF ReadEventBatch, writerVars
<1>3. CASE b = {}
  BY <1>1, <1>2, <1>3
     DEF PassedOpen, NextIdAhead, HiddenByInversion, Overtaken, HasId
<1>4. CASE b # {}
  <2>1. PICK m \in b : (\A i \in b : i <= m) /\ lastRead' = m
    BY <1>1, <1>4
  <2>2. PICK h \in Readable : h.id = m /\ h.id > lastRead
    BY DEF After
  <2>3. h \in log /\ h.id \in Nat /\ h.xid \in Nat /\ h.id \in owed'
    BY <1>1, <2>1, <2>2 DEF Readable, Event
  <2>4. \A w \in Writers : HasXid(w) => h.xid < tx[w].xid
    BY <2>2 DEF Readable, eventHorizon
  <2>5. \A w \in Writers : HasId(w) => tx[w].id \in Nat /\ tx[w].xid \in Nat /\ tx[w].id # h.id
    BY <2>3 DEF CausalInv, Drawn, Tx
  <2>6. NextIdAhead'
    BY <1>2, <2>1, <2>2, <2>3 DEF NextIdAhead, CausalInv, Drawn
  <2>7. ASSUME NEW w \in Writers, HasId(w), floor < tx[w].id, tx[w].id <= m
        PROVE  IF tx[w].at = "id"
               THEN \E f \in log : f.id \in owed' /\ tx[w].id < f.id
               ELSE \E f \in log : f.id \in owed' /\ tx[w].id < f.id /\ f.xid < tx[w].xid
    <3>1. tx[w].id < h.id
      BY <2>2, <2>3, <2>5, <2>7
    <3>2. tx[w].at # "id" => HasXid(w)
      BY <2>7 DEF HasId, HasXid
    <3> QED BY <2>3, <2>4, <3>1, <3>2
  <2>8. PassedOpen'
    BY <1>2, <2>1, <2>7 DEF PassedOpen, Overtaken, HasId
  <2>9. ASSUME NEW e \in log, floor < e.id, e.id <= m, e.id \notin owed'
        PROVE  \E f \in log : f.id \in owed' /\ e.id < f.id /\ f.xid < e.xid
    <3>0. e.id \in Nat /\ e.xid \in Nat
      BY DEF Event
    <3>1. CASE e.id <= lastRead
      BY <1>1, <2>9, <3>1 DEF HiddenByInversion
    <3>2. CASE e.id > lastRead
      <4>1. e \notin Readable
        <5> SUFFICES ASSUME e \in Readable PROVE FALSE
          OBVIOUS
        <5>1. e.id \in After(lastRead)
          BY <3>2 DEF After
        <5> QED BY <1>1, <2>1, <2>9, <3>0, <2>2, <2>3, <5>1 DEF IsBatch
      <4>2. PICK v \in Writers : HasXid(v) /\ ~(e.xid < tx[v].xid)
        BY <4>1 DEF Readable, eventHorizon
      <4>3. h.xid < e.xid
        BY <2>3, <2>4, <3>0, <4>2 DEF Tx
      <4>4. e.id < h.id
        BY <2>2, <2>3, <2>9, <3>0
      <4> QED BY <2>3, <4>3, <4>4
    <3> QED BY <3>0, <3>1, <3>2
  <2>10. HiddenByInversion'
    BY <1>2, <2>1, <2>9 DEF HiddenByInversion
  <2> QED BY <2>6, <2>8, <2>10
<1> QED BY <1>3, <1>4

\* The rest of the loop only moves the read offset back onto the ack offset.
LEMMA LoopKeepsHorizon ==
  ASSUME HorizonInv, NEW c \in Consumers, Consumer(c), ~ReadEventBatch(c)
  PROVE  PassedOpen' /\ NextIdAhead' /\ HiddenByInversion'
<1> USE DEF HorizonInv, TypeOK, WriterTypeOK, LoopTypeOK
<1>1. UNCHANGED <<tx, log, nextId>>
  BY LoopFrame DEF writerVars
<1>2. UNCHANGED <<owed, floor>> /\ (lastRead' = lastRead \/ lastRead' = lastAcked)
  BY DEF Consumer, LoopStep, TryLockSubscriber, Redeliver, Healthy, Handle,
         HandlerFails, AckEvents, Rewind, Stop, LoseSession, ResetEventRead, busVars
<1>3. lastAcked' <= lastRead'
  <2>1. CASE AckEvents(c)
    <3>1. lastRead' = lastRead /\ upTo[c] \in Nat
      BY <2>1 DEF AckEvents
    <3>2. lastAcked' = lastAcked \/ (lastAcked' = upTo[c] /\ ~(upTo[c] > lastRead))
      BY <2>1, <3>1 DEF AckEvents
    <3> QED BY <3>1, <3>2 DEF NextIdAhead
  <2>2. CASE ~AckEvents(c)
    <3>1. lastAcked' = lastAcked
      BY <2>2 DEF Consumer, LoopStep, TryLockSubscriber, Redeliver, Healthy, Handle,
             HandlerFails, Rewind, Stop, LoseSession, busVars
    <3> QED BY <1>2, <3>1 DEF NextIdAhead
  <2> QED BY <2>1, <2>2
<1>4. lastRead' <= lastRead /\ lastRead' \in Nat
  BY <1>2 DEF NextIdAhead
<1>5. \A w \in Writers : tx[w].id \in Nat
  BY DEF Tx
<1>6. \A e \in log : e.id \in Nat
  BY DEF Event
<1> QED BY <1>1, <1>2, <1>3, <1>4, <1>5, <1>6
        DEF PassedOpen, NextIdAhead, HiddenByInversion, Overtaken, HasId

\* eventHorizon hides nothing but what an inversion of the two orders hides, for
\* any number of writers that draw id and xid together or either one first, and
\* of replicas that crash, lose their session or are sought elsewhere.
THEOREM HorizonLimits == Spec => []HiddenByInversion
<1>1. Init /\ TypeOK /\ CausalInv => HorizonInv
  BY DEF Init, HorizonInv, PassedOpen, NextIdAhead, HiddenByInversion, HasId, NoTx
<1>2. HorizonInv /\ [Next]_vars /\ TypeOK' /\ CausalInv' => HorizonInv'
  <2> SUFFICES ASSUME HorizonInv, [Next]_vars, TypeOK', CausalInv' PROVE HorizonInv'
    OBVIOUS
  <2>1. ASSUME NEW w \in Writers, Writer(w) PROVE HorizonInv'
    BY <2>1, WriterKeepsHorizon DEF HorizonInv
  <2>2. ASSUME NEW c \in Consumers, Consumer(c) PROVE HorizonInv'
    BY <2>2, ReadKeepsHorizon, LoopKeepsHorizon DEF HorizonInv
  <2>3. ASSUME NEW to \in 0 .. MaxSeek, SeekEventSubscriber(to) PROVE HorizonInv'
    <3>1. to \in Nat /\ lastRead' = to /\ lastAcked' = to /\ floor' = to
      BY <2>3, BoundAssumption DEF SeekEventSubscriber
    <3>2. \A w \in Writers : tx[w].id \in Nat
      BY DEF HorizonInv, TypeOK, WriterTypeOK, Tx
    <3>3. \A e \in log : e.id \in Nat
      BY DEF HorizonInv, TypeOK, WriterTypeOK, Event
    <3>4. UNCHANGED <<tx, log, nextId>>
      BY <2>3 DEF SeekEventSubscriber, writerVars
    <3> QED BY <3>1, <3>2, <3>3, <3>4
            DEF HorizonInv, PassedOpen, NextIdAhead, HiddenByInversion, HasId
  <2>4. CASE UNCHANGED vars
    BY <2>4 DEF vars, busVars, writerVars, HorizonInv, PassedOpen, NextIdAhead,
                HiddenByInversion, Overtaken, HasId
  <2> QED BY <2>1, <2>2, <2>3, <2>4 DEF Next
<1>3. HorizonInv => HiddenByInversion
  BY DEF HorizonInv
<1> QED BY <1>1, <1>2, <1>3, Typing, CausalInvariance, PTL DEF Spec
=============================================================================

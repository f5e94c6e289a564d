-------------------------- MODULE ProjectorProofs --------------------------
(* Theorems about Projector, for every number of projects and transactions. *)
EXTENDS Projector, FiniteSetTheorems, TLAPS

-----------------------------------------------------------------------------
(* Type correctness *)

LEMMA BatchTyping ==
  ASSUME TypeOK
  PROVE  Batch \subseteq 1..MaxXid /\ Dirty \subseteq Projects
<1>1. \A x \in Above : x \in 1..MaxXid
  BY DEF TypeOK, Above
<1>2. Batch \subseteq Above
  BY DEF Batch
<1>3. Dirty \subseteq Projects
  BY DEF TypeOK, Dirty
<1> QED BY <1>1, <1>2, <1>3

LEMMA XidsTyping ==
  ASSUME TypeOK, NEW p
  PROVE  XidsOf(p) \subseteq 1..MaxXid
BY DEF TypeOK, XidsOf

\* Writers, the clock and the operator.
LEMMA OutsideTyping ==
  ASSUME TypeOK,
         \/ \E w \in Writers : Ends(w) \/ \E ps \in SUBSET Projects : Begin(w, ps)
         \/ Rewind \/ \E p \in Projects : Elapse(p)
  PROVE  TypeOK'
<1> USE BoundsAssumption DEF TypeOK
<1>1. ASSUME NEW w \in Writers, NEW ps \in SUBSET Projects, Begin(w, ps) PROVE TypeOK'
  <2>1. nextXid \in 1..MaxXid /\ nextXid' \in 1..(MaxXid + 1)
    BY <1>1 DEF Begin
  <2>2. tx' \in [Writers -> [xid : 0..MaxXid, projects : SUBSET Projects]]
    BY <1>1, <2>1 DEF Begin
  <2> QED BY <1>1, <2>1, <2>2 DEF Begin, runVars, oneVars
<1>2. ASSUME NEW w \in Writers, Ends(w) PROVE TypeOK'
  <2>1. tx' \in [Writers -> [xid : 0..MaxXid, projects : SUBSET Projects]]
    BY <1>2 DEF Ends, Commit, Abort, NoTx
  <2>2. Open(w) => tx[w] \in [xid : 1..MaxXid, projects : SUBSET Projects]
    BY DEF Open
  <2>3. log' \subseteq [xid : 1..MaxXid, projects : SUBSET Projects]
    BY <1>2, <2>2 DEF Ends, Commit, Abort
  <2> QED BY <1>2, <2>1, <2>3 DEF Ends, Commit, Abort, runVars, oneVars
<1>3. CASE Rewind
  BY <1>3 DEF Rewind, Fault, writerVars, runVars, oneVars
<1>4. ASSUME NEW p \in Projects, Elapse(p) PROVE TypeOK'
  <2>1. row' \in [Projects -> Rows]
    BY <1>4 DEF Elapse, Rows
  <2> QED BY <1>4, <2>1 DEF Elapse, writerVars, runVars, oneVars
<1> QED BY <1>1, <1>2, <1>3, <1>4

LEMMA RunTyping ==
  ASSUME TypeOK, RunOnce \/ Crash
  PROVE  TypeOK'
<1> USE BoundsAssumption DEF TypeOK
<1>1. CASE Start
  <2>1. through' \in 0..MaxXid
    BY <1>1, BatchTyping DEF Start
  <2>2. todo' \subseteq Projects /\ prior' \subseteq Projects
    BY <1>1, BatchTyping DEF Start, Due
  <2> QED BY <1>1, <2>1, <2>2 DEF Start, writerVars, oneVars
<1>2. ASSUME NEW p \in Projects, Pick(p) PROVE TypeOK'
  BY <1>2 DEF Pick, writerVars, Graphs
<1>3. CASE Render
  BY <1>3, XidsTyping DEF Render, writerVars, runVars
<1>4. CASE RenderFails
  BY <1>4 DEF RenderFails, Fault, writerVars, runVars, oneVars
<1>5. ASSUME Replace PROVE graph' \in [Graphs -> [Projects -> SUBSET (1..MaxXid)]]
  BY <1>5 DEF Replace
<1>6. CASE Put
  <2>1. pc' \in {"render", "clear", "next"}
    BY <1>6 DEF Put, Graphs
  <2> QED BY <1>5, <1>6, <2>1 DEF Put, writerVars, runVars, Graphs
<1>7. CASE PutFails
  <2>1. graph' \in [Graphs -> [Projects -> SUBSET (1..MaxXid)]]
    BY <1>5, <1>7 DEF PutFails
  <2>2. faults' \in 0..MaxFaults
    BY <1>7 DEF PutFails, Fault
  <2> QED BY <1>7, <2>1, <2>2 DEF PutFails, writerVars, runVars, oneVars
<1>8. CASE Clear
  <2>1. row' \in [Projects -> Rows] /\ faults' \in 0..MaxFaults
    BY <1>8 DEF Clear, Fault, Rows
  <2> QED BY <1>8, <2>1 DEF Clear, writerVars, runVars, oneVars
<1>9. CASE Quarantine
  <2>1. row' \in [Projects -> Rows]
    BY <1>9 DEF Quarantine, Rows
  <2> QED BY <1>9, <2>1 DEF Quarantine, writerVars, runVars, oneVars
<1>10. CASE QuarantineFails
  BY <1>10 DEF QuarantineFails, Fault, writerVars, oneVars
<1>11. CASE Finish
  <2>1. watermark' \in 0..MaxXid /\ faults' \in 0..MaxFaults
    BY <1>11 DEF Finish, Fault
  <2> QED BY <1>11, <2>1 DEF Finish, AtRest, writerVars, Graphs
<1>12. CASE Crash
  BY <1>12 DEF Crash, Fault, AtRest, writerVars, Graphs
<1> QED BY <1>1, <1>2, <1>3, <1>4, <1>6, <1>7, <1>8, <1>9, <1>10, <1>11, <1>12 DEF RunOnce

\* Type correctness: the projector's state over every step of a run, of the
\* writers and of the operator.
THEOREM Typing == Spec => []TypeOK
<1>1. Init => TypeOK
  BY BoundsAssumption DEF Init, TypeOK, NoTx, Rows, Graphs
<1>2. TypeOK /\ [Next]_vars => TypeOK'
  <2> SUFFICES ASSUME TypeOK, [Next]_vars PROVE TypeOK'
    OBVIOUS
  <2>1. CASE Next
    BY <2>1, OutsideTyping, RunTyping DEF Next
  <2>2. CASE UNCHANGED vars
    BY <2>2 DEF TypeOK, vars, writerVars, runVars, oneVars
  <2> QED BY <2>1, <2>2
<1> QED BY <1>1, <1>2, PTL DEF Spec

-----------------------------------------------------------------------------
(* The watermark and the horizon *)

\* Every transaction that may still commit is above the watermark, and above
\* the one the run in progress may write.
Ordered ==
  /\ watermark < nextXid /\ through < nextXid
  /\ \A e \in log : e.xid < nextXid
  /\ \A w \in Writers :
       Open(w) => tx[w].xid < nextXid /\ watermark < tx[w].xid /\ through < tx[w].xid

LEMMA OrderedStep ==
  ASSUME TypeOK, Ordered, [Next]_vars
  PROVE  Ordered'
<1> USE DEF TypeOK, Ordered, Open
<1>1. ASSUME NEW w \in Writers, NEW ps \in SUBSET Projects, Begin(w, ps) PROVE Ordered'
  BY <1>1 DEF Begin, runVars
<1>2. ASSUME NEW w \in Writers, Ends(w) PROVE Ordered'
  <2>1. \A v \in Writers : tx'[v].xid # 0 => tx'[v] = tx[v]
    BY <1>2 DEF Ends, Commit, Abort, NoTx
  <2>2. \A e \in log' : e \in log \/ e = tx[w]
    BY <1>2 DEF Ends, Commit, Abort
  <2> QED BY <1>2, <2>1, <2>2 DEF Ends, Commit, Abort, runVars
<1>3. CASE Start
  <2>1. PICK t \in {watermark} \union Batch : IsThrough(t) /\ through' = t
    BY <1>3 DEF Start
  <2>2. t = watermark \/ (t \in Batch /\ Settled(t))
    BY <2>1 DEF IsThrough
  <2>3. \A x \in Batch : x < nextXid
    BY DEF Batch, Above
  <2> QED BY <1>3, <2>1, <2>2, <2>3 DEF Start, Settled, writerVars
<1>4. CASE Finish
  <2>1. watermark' = watermark \/ watermark' = through
    BY <1>4 DEF Finish
  <2> QED BY <1>4, <2>1 DEF Finish, AtRest, writerVars
<1>5. CASE Crash
  BY <1>5 DEF Crash, AtRest, writerVars
<1>6. CASE Rewind
  BY <1>6 DEF Rewind, writerVars, runVars
<1>7. CASE UNCHANGED <<nextXid, tx, log, watermark, through>>
  BY <1>7
<1>8. CASE \/ Render \/ RenderFails \/ Put \/ PutFails \/ Clear \/ Quarantine \/ QuarantineFails
           \/ (\E p \in Projects : Pick(p) \/ Elapse(p)) \/ UNCHANGED vars
  BY <1>7, <1>8 DEF Render, RenderFails, Put, PutFails, Clear, Quarantine, QuarantineFails,
                    Pick, Elapse, vars, writerVars, runVars
<1> QED BY <1>1, <1>2, <1>3, <1>4, <1>5, <1>6, <1>8 DEF Next, RunOnce

-----------------------------------------------------------------------------
(* Nothing is forgotten *)

\* Projecting the current project.
Busy == pc \in {"render", "put", "clear", "failed"}

\* What a run knows of the projects it has still to deal with.
Targets ==
  /\ pc \in {"idle", "next"} \/ Busy
  /\ Busy => cur \in Projects \ todo
  /\ \A p \in prior : p \in todo \/ (Busy /\ p = cur) => row[p] # "none"

\* A change the run may checkpoint is shown, or still has a target, a row or
\* an unwritten row to its name.
Accounted ==
  pc # "idle" =>
    \A e \in log : \A p \in e.projects :
      e.xid <= through =>
        \/ Shown(e, p) \/ p \in todo \/ row[p] # "none" \/ ~written
        \/ pc \in {"render", "put", "failed"} /\ p = cur

\* Changes at or below the watermark, or below the one the run may write.
Passed(e) == e.xid <= watermark \/ e.xid <= through

\* What has been rendered of the current project covers the passed changes.
Rendered ==
  \A e \in log : cur \in e.projects /\ Passed(e) =>
    /\ pc = "put" => e.xid \in doc
    /\ (pc \in {"render", "put"} /\ part = "docs") => e.xid \in graph["tasks"][cur]
    /\ pc = "clear" => Shown(e, cur)

ProjInv == TypeOK /\ Ordered /\ Targets /\ Accounted /\ Rendered /\ NothingForgotten

\* A transaction that commits is above the watermark and above through.
LEMMA OutsideKeeps ==
  ASSUME ProjInv, TypeOK', Ordered',
         \/ \E w \in Writers : Ends(w) \/ \E ps \in SUBSET Projects : Begin(w, ps)
         \/ Rewind \/ \E p \in Projects : Elapse(p)
         \/ UNCHANGED vars
  PROVE  ProjInv'
<1> USE DEF ProjInv
<1>1. ASSUME NEW w \in Writers, NEW ps \in SUBSET Projects, Begin(w, ps) PROVE ProjInv'
  BY <1>1 DEF Begin, runVars, oneVars, Targets, Accounted, Rendered, NothingForgotten,
              Shown, Passed, Busy
<1>2. ASSUME NEW w \in Writers, Ends(w) PROVE ProjInv'
  <2>1. UNCHANGED <<watermark, row, graph, pc, runVars, oneVars>>
    BY <1>2 DEF Ends, Commit, Abort
  <2>2. Open(w)
    BY <1>2 DEF Ends, Commit, Abort
  <2>3. tx[w].xid \in Nat /\ watermark \in Nat /\ through \in Nat
    BY BoundsAssumption DEF TypeOK
  <2>4. ~(tx[w].xid <= watermark) /\ ~(tx[w].xid <= through) /\ tx[w].xid > watermark
    BY <2>2, <2>3 DEF Ordered
  <2>5. \A e \in log' : e \in log \/ e = tx[w]
    BY <1>2 DEF Ends, Commit, Abort
  <2>6. Targets'
    BY <2>1 DEF Targets, Busy, runVars, oneVars
  <2>7. Accounted'
    BY <2>1, <2>4, <2>5 DEF Accounted, Shown, runVars, oneVars
  <2>8. Rendered'
    BY <2>1, <2>4, <2>5 DEF Rendered, Passed, Shown, runVars, oneVars
  <2>9. NothingForgotten'
    BY <2>1, <2>4, <2>5 DEF NothingForgotten, Shown
  <2> QED BY <2>6, <2>7, <2>8, <2>9
<1>3. CASE Rewind
  <2>1. UNCHANGED <<writerVars, row, graph, pc, runVars, oneVars>> /\ watermark' = 0
    BY <1>3 DEF Rewind
  <2>2. \A e \in log : e.xid > 0 /\ ~(e.xid <= 0)
    BY DEF TypeOK
  <2>3. Rendered'
    BY <2>1, <2>2 DEF Rendered, Passed, Shown, writerVars, runVars, oneVars
  <2> QED BY <2>1, <2>2, <2>3
          DEF Targets, Accounted, NothingForgotten, Shown, Busy, writerVars, runVars, oneVars
<1>4. ASSUME NEW p \in Projects, Elapse(p) PROVE ProjInv'
  <2>1. \A q \in Projects : row[q] # "none" => row'[q] # "none"
    BY <1>4 DEF Elapse, TypeOK
  <2>2. prior \subseteq Projects /\ \A e \in log : e.projects \subseteq Projects
    BY DEF TypeOK
  <2>3. UNCHANGED <<writerVars, watermark, graph, pc, runVars, oneVars>>
    BY <1>4 DEF Elapse
  <2> QED BY <2>1, <2>2, <2>3 DEF Targets, Accounted, Rendered, NothingForgotten,
          Shown, Passed, Busy, writerVars, runVars, oneVars
<1>5. CASE UNCHANGED vars
  BY <1>5 DEF vars, Targets, Accounted, Rendered, NothingForgotten, Shown, Passed, Busy,
              writerVars, runVars, oneVars
<1> QED BY <1>1, <1>2, <1>3, <1>4, <1>5

\* Whatever is settled and not above through is in the batch, so that its
\* projects are targets.
LEMMA BatchIsPrefix ==
  ASSUME TypeOK, NEW x \in Batch, NEW y \in Above, y <= x
  PROVE  y \in Batch
<1>1. Above \subseteq 1..MaxXid
  BY DEF TypeOK, Above
<1>2. x \in Above /\ Cardinality({z \in Above : z < x}) < Limit
  BY DEF Batch
<1>3. IsFiniteSet(1..MaxXid)
  BY BoundsAssumption, FS_Interval
<1>4. IsFiniteSet(Above)
  BY <1>1, <1>3, FS_Subset
<1> DEFINE Below(n) == {z \in Above : z < n}
<1>5. Below(y) \subseteq Below(x)
  <2>1. x \in Nat /\ y \in Nat /\ \A z \in Above : z \in Nat
    BY <1>1, <1>2, BoundsAssumption
  <2> SUFFICES ASSUME NEW z \in Above, z < y PROVE z < x
    OBVIOUS
  <2> QED BY <2>1
<1>6. IsFiniteSet(Below(x))
  BY <1>4, FS_Subset
<1>7. Cardinality(Below(y)) <= Cardinality(Below(x))
  BY <1>5, <1>6, FS_Subset
<1>8. Cardinality(Below(y)) \in Nat /\ Cardinality(Below(x)) \in Nat
  BY <1>5, <1>6, FS_Subset, FS_CardinalityType
<1>9. Cardinality(Below(x)) < Limit
  BY <1>2
<1> HIDE DEF Below
<1>10. Cardinality(Below(y)) < Limit
  BY <1>7, <1>8, <1>9, BoundsAssumption
<1> QED BY <1>10 DEF Batch, Below

LEMMA StartKeeps ==
  ASSUME ProjInv, Start
  PROVE  Targets' /\ Accounted' /\ Rendered' /\ NothingForgotten'
<1> USE DEF ProjInv
<1>1. PICK t \in {watermark} \union Batch : IsThrough(t) /\ through' = t
  BY DEF Start
<1>2. UNCHANGED <<writerVars, watermark, row, graph, oneVars>>
  BY DEF Start
<1>3. pc' = "next" /\ todo' = Dirty \union Due /\ written' = TRUE
      /\ prior' = {p \in Projects : row[p] # "none"}
  BY DEF Start
<1>4. Targets'
  BY <1>2, <1>3 DEF Targets, Busy
<1>5. ASSUME NEW e \in log, NEW p \in e.projects, e.xid <= t, e.xid > watermark
      PROVE  p \in Dirty
  <2>1. t \in Batch
    BY <1>1, <1>5 DEF TypeOK
  <2>2. e.xid \in Above
    BY <1>5 DEF Above
  <2>3. e.xid \in Batch
    BY <1>5, <2>1, <2>2, BatchIsPrefix
  <2> QED BY <1>5, <2>3 DEF Dirty
<1>6. Accounted'
  <2> SUFFICES ASSUME NEW e \in log, NEW p \in e.projects, e.xid <= t
               PROVE  Shown(e, p) \/ p \in Dirty \/ row[p] # "none"
    BY <1>1, <1>2, <1>3 DEF Accounted, Shown, writerVars
  <2> QED BY <1>5 DEF NothingForgotten
<1>7. Rendered'
  BY <1>3 DEF Rendered
<1>8. NothingForgotten'
  BY <1>2 DEF NothingForgotten, Shown, writerVars
<1> QED BY <1>4, <1>6, <1>7, <1>8

\* The steps on one project, and the end of the run.
LEMMA RunKeeps ==
  ASSUME ProjInv, RunOnce \/ Crash, ~Start
  PROVE  Targets' /\ Accounted' /\ Rendered' /\ NothingForgotten'
<1> USE DEF ProjInv
<1>0. /\ prior \subseteq Projects /\ todo \subseteq Projects
      /\ \A e \in log : e.projects \subseteq Projects
  BY DEF TypeOK
<1>1. ASSUME NEW p \in Projects, Pick(p)
      PROVE  Targets' /\ Accounted' /\ Rendered' /\ NothingForgotten'
  BY <1>1 DEF Pick, Targets, Accounted, Rendered, NothingForgotten, Shown, Busy, writerVars
<1>2. CASE Render
  <2>1. UNCHANGED <<writerVars, watermark, row, graph, runVars, cur, part>>
        /\ pc = "render" /\ pc' = "put" /\ doc' = XidsOf(cur)
    BY <1>2 DEF Render
  <2>2. \A e \in log : cur \in e.projects => e.xid \in XidsOf(cur)
    BY DEF XidsOf
  <2> QED BY <2>1, <2>2 DEF Targets, Accounted, Rendered, NothingForgotten, Shown, Passed,
                            Busy, writerVars, runVars
<1>3. CASE RenderFails
  BY <1>3 DEF RenderFails, Targets, Accounted, Rendered, NothingForgotten, Shown, Busy,
              writerVars, runVars, oneVars
<1>4. ASSUME Replace, pc = "put", UNCHANGED <<writerVars, watermark, row, runVars, cur, doc>>
      PROVE  /\ NothingForgotten'
             /\ \A e \in log : \A p \in e.projects :
                  Shown(e, p) => Shown(e, p)' \/ (p = cur /\ ~Passed(e))
             /\ \A e \in log : cur \in e.projects /\ Passed(e) => e.xid \in graph'[part][cur]
  <2>1. graph' = [graph EXCEPT ![part][cur] = doc] /\ part \in Graphs /\ cur \in Projects
    BY <1>4 DEF Replace, TypeOK, Targets, Busy
  <2>2. \A g \in Graphs, p \in Projects :
          graph'[g][p] = IF g = part /\ p = cur THEN doc ELSE graph[g][p]
    BY <2>1 DEF TypeOK
  <2>3. \A e \in log : cur \in e.projects /\ Passed(e) => e.xid \in doc
    BY <1>4 DEF Rendered
  <2>4. \A e \in log : \A p \in e.projects :
          Shown(e, p) => Shown(e, p)' \/ (p = cur /\ ~Passed(e))
    <3> SUFFICES ASSUME NEW e \in log, NEW p \in e.projects, Shown(e, p),
                        p # cur \/ Passed(e)
                 PROVE  \A g \in Graphs : e.xid \in graph'[g][p]
      BY DEF Shown
    <3>1. p \in Projects
      BY <1>0
    <3> QED BY <2>2, <2>3, <3>1 DEF Shown
  <2>5. NothingForgotten'
    <3> SUFFICES ASSUME NEW e \in log, NEW p \in e.projects
                 PROVE  Shown(e, p)' \/ e.xid > watermark \/ row[p] # "none"
      BY <1>4 DEF NothingForgotten, writerVars
    <3>1. ~Passed(e) => e.xid > watermark
      BY BoundsAssumption DEF Passed, TypeOK
    <3> QED BY <2>4, <3>1 DEF NothingForgotten
  <2> QED BY <2>1, <2>2, <2>3, <2>4, <2>5
<1>5. CASE Put
  <2>1. UNCHANGED <<writerVars, watermark, row, runVars, cur, doc>> /\ Replace /\ pc = "put"
        /\ part' = "docs"
        /\ \/ part = "tasks" /\ pc' = "render"
           \/ part = "docs" /\ pc' = "clear" /\ cur \in prior
           \/ part = "docs" /\ pc' = "next"
    BY <1>5 DEF Put, Graphs, TypeOK
  <2>2. /\ NothingForgotten'
        /\ \A e \in log : \A p \in e.projects :
             Shown(e, p) => Shown(e, p)' \/ (p = cur /\ ~Passed(e))
        /\ \A e \in log : cur \in e.projects /\ Passed(e) => e.xid \in graph'[part][cur]
    BY <1>4, <2>1
  <2>3. part = "docs" =>
          \A e \in log : cur \in e.projects /\ Passed(e) => Shown(e, cur)'
    <3> SUFFICES ASSUME part = "docs", NEW e \in log, cur \in e.projects, Passed(e)
                 PROVE  Shown(e, cur)'
      OBVIOUS
    <3>1. e.xid \in graph["tasks"][cur] /\ cur \in Projects
      BY <2>1, <1>0 DEF Rendered
    <3>2. graph'["tasks"][cur] = graph["tasks"][cur]
      BY <2>1, <3>1 DEF Replace, TypeOK, Graphs
    <3> QED BY <2>1, <2>2, <3>1, <3>2 DEF Shown, Graphs
  <2>4. Targets'
    BY <2>1 DEF Targets, Busy, runVars
  <2>5. Rendered'
    BY <2>1, <2>2, <2>3 DEF Rendered, Passed, writerVars, runVars
  <2>6. Accounted'
    <3> SUFFICES ASSUME NEW e \in log, NEW p \in e.projects, e.xid <= through
                 PROVE  \/ Shown(e, p)' \/ p \in todo \/ row[p] # "none" \/ ~written
                        \/ pc' = "render" /\ p = cur
      BY <2>1 DEF Accounted, writerVars, runVars
    <3> QED BY <2>1, <2>2, <2>3 DEF Accounted, Passed
  <2> QED BY <2>2, <2>4, <2>5, <2>6
<1>6. CASE PutFails
  <2>1. UNCHANGED <<writerVars, watermark, row, runVars, oneVars>> /\ pc = "put"
        /\ pc' = "failed" /\ (Replace \/ graph' = graph)
    BY <1>6 DEF PutFails
  <2>2. Targets' /\ Rendered'
    BY <2>1 DEF Targets, Rendered, Busy, writerVars, runVars, oneVars
  <2>3. CASE Replace
    <3>1. /\ NothingForgotten'
          /\ \A e \in log : \A p \in e.projects :
               Shown(e, p) => Shown(e, p)' \/ (p = cur /\ ~Passed(e))
      BY <1>4, <2>1, <2>3 DEF oneVars
    <3>2. Accounted'
      <4> SUFFICES ASSUME NEW e \in log, NEW p \in e.projects, e.xid <= through
                   PROVE  \/ Shown(e, p)' \/ p \in todo \/ row[p] # "none" \/ ~written
                          \/ p = cur
        BY <2>1 DEF Accounted, writerVars, runVars, oneVars
      <4> QED BY <2>1, <3>1 DEF Accounted
    <3> QED BY <2>2, <3>1, <3>2
  <2>4. CASE graph' = graph
    BY <2>1, <2>2, <2>4 DEF Accounted, NothingForgotten, Shown, writerVars, runVars, oneVars
  <2> QED BY <2>1, <2>2, <2>3, <2>4
<1>7. CASE Clear
  <2>1. UNCHANGED <<writerVars, watermark, graph, runVars, oneVars>> /\ pc = "clear"
        /\ pc' = "next"
    BY <1>7 DEF Clear
  <2>2. /\ \A p \in Projects : p # cur /\ row[p] # "none" => row'[p] # "none"
        /\ cur \in Projects \ todo
    BY <1>7 DEF Clear, TypeOK, Targets, Busy
  <2>3. \A e \in log : cur \in e.projects /\ Passed(e) => Shown(e, cur)
    BY <2>1 DEF Rendered
  <2>4. Targets'
    BY <1>0, <2>1, <2>2 DEF Targets, Busy, runVars, oneVars
  <2>5. Accounted'
    <3> SUFFICES ASSUME NEW e \in log, NEW p \in e.projects, e.xid <= through
                 PROVE  Shown(e, p) \/ p \in todo \/ row'[p] # "none" \/ ~written
      BY <2>1 DEF Accounted, Shown, writerVars, runVars, oneVars
    <3> QED BY <1>0, <2>1, <2>2, <2>3 DEF Accounted, Passed
  <2>6. NothingForgotten'
    <3> SUFFICES ASSUME NEW e \in log, NEW p \in e.projects
                 PROVE  Shown(e, p) \/ e.xid > watermark \/ row'[p] # "none"
      BY <2>1 DEF NothingForgotten, Shown, writerVars
    <3>1. Passed(e) \/ e.xid > watermark
      BY BoundsAssumption DEF Passed, TypeOK
    <3> QED BY <1>0, <2>2, <2>3, <3>1 DEF NothingForgotten
  <2> QED BY <2>1, <2>4, <2>5, <2>6 DEF Rendered
<1>8. CASE Quarantine
  <2>1. UNCHANGED <<writerVars, watermark, graph, runVars, oneVars>> /\ pc = "failed"
        /\ pc' = "next"
    BY <1>8 DEF Quarantine
  <2>2. cur \in Projects \ todo
    BY <2>1 DEF Targets, Busy
  <2>3. row'[cur] # "none" /\ \A p \in Projects : row[p] # "none" => row'[p] # "none"
    BY <1>8, <2>2 DEF Quarantine, TypeOK
  <2> QED BY <1>0, <2>1, <2>2, <2>3 DEF Targets, Accounted, Rendered, NothingForgotten, Shown,
                                   Busy, writerVars, runVars, oneVars
<1>9. CASE QuarantineFails
  BY <1>9 DEF QuarantineFails, Targets, Accounted, Rendered, NothingForgotten, Shown, Busy,
              writerVars, oneVars
<1>10. ASSUME AtRest, UNCHANGED <<writerVars, row, graph>> PROVE Targets' /\ Accounted' /\ Rendered'
  BY <1>10 DEF AtRest, Targets, Accounted, Rendered, Busy
<1>11. CASE Finish
  <2>1. UNCHANGED <<writerVars, row, graph>> /\ AtRest /\ pc = "next" /\ todo = {}
    BY <1>11 DEF Finish
  <2>2. watermark' = watermark \/ (watermark' = through /\ written)
    BY <1>11 DEF Finish
  <2>3. ASSUME NEW e \in log, NEW p \in e.projects, watermark' = through, written
        PROVE  Shown(e, p) \/ e.xid > watermark' \/ row[p] # "none"
    BY <2>1, <2>3, BoundsAssumption DEF Accounted, TypeOK
  <2>4. NothingForgotten'
    BY <2>1, <2>2, <2>3 DEF NothingForgotten, Shown, writerVars
  <2> QED BY <1>10, <2>1, <2>4
<1>12. CASE Crash
  BY <1>10, <1>12 DEF Crash, NothingForgotten, Shown, writerVars
<1> QED BY <1>1, <1>2, <1>3, <1>5, <1>6, <1>7, <1>8, <1>9, <1>11, <1>12 DEF RunOnce

\* The inductive invariant, over every step.
LEMMA ProjStep ==
  ASSUME ProjInv, [Next]_vars, TypeOK'
  PROVE  ProjInv'
<1>1. Ordered'
  BY OrderedStep DEF ProjInv
<1>2. CASE RunOnce \/ Crash
  BY <1>1, <1>2, StartKeeps, RunKeeps DEF ProjInv
<1>3. CASE ~(RunOnce \/ Crash)
  BY <1>1, <1>3, OutsideKeeps DEF Next
<1> QED BY <1>2, <1>3

LEMMA ProjInvariance == Spec => []ProjInv
<1>1. Init /\ TypeOK => ProjInv
  BY DEF Init, ProjInv, Ordered, Targets, Accounted, Rendered, NothingForgotten, Busy,
         Open, NoTx
<1>2. ProjInv /\ [Next]_vars /\ TypeOK' => ProjInv'
  BY ProjStep
<1> QED BY <1>1, <1>2, Typing, PTL DEF Spec

\* Every committed change that a project's graphs do not show is above the
\* watermark or in the quarantine, for any number of open transactions, any
\* batch size and any sequence of failures, crashes and rewinds.
THEOREM NothingIsForgotten == Spec => []NothingForgotten
<1>1. ProjInv => NothingForgotten
  BY DEF ProjInv
<1> QED BY <1>1, ProjInvariance, PTL

-----------------------------------------------------------------------------
(* Graphs never go back *)

\* A rendering covers what the graph it replaces shows.
Covering ==
  /\ \A g \in Graphs, p \in Projects : graph[g][p] \subseteq XidsOf(p)
  /\ pc = "put" => cur \in Projects /\ graph[part][cur] \subseteq doc /\ doc \subseteq XidsOf(cur)

LEMMA CoveringStep ==
  ASSUME TypeOK, Targets, Covering, [Next]_vars
  PROVE  /\ Covering'
         /\ \A g \in Graphs, p \in Projects : graph[g][p] \subseteq graph'[g][p]
<1> DEFINE Forward == \A g \in Graphs, p \in Projects : graph[g][p] \subseteq graph'[g][p]
<1> USE DEF Covering
<1>1. ASSUME NEW w \in Writers, Ends(w) PROVE Covering' /\ Forward
  <2>1. UNCHANGED <<graph, pc, cur, part, doc>> /\ log \subseteq log'
    BY <1>1 DEF Ends, Commit, Abort, oneVars
  <2>2. \A p \in Projects : XidsOf(p) \subseteq XidsOf(p)'
    BY <2>1 DEF XidsOf
  <2> QED BY <2>1, <2>2
<1>2. ASSUME UNCHANGED <<log, graph>>, pc' # "put" PROVE Covering' /\ Forward
  BY <1>2 DEF XidsOf
<1>3. ASSUME UNCHANGED <<log, graph, pc, cur, part, doc>> PROVE Covering' /\ Forward
  BY <1>3 DEF XidsOf
<1>4. CASE Render
  BY <1>4 DEF Render, XidsOf, writerVars, Targets, Busy, TypeOK
<1>5. CASE (Put \/ PutFails) /\ Replace
  <2>1. pc = "put" /\ pc' # "put" /\ UNCHANGED log
    BY <1>5 DEF Put, PutFails, Graphs, TypeOK, writerVars
  <2>2. \A g \in Graphs, p \in Projects :
          graph'[g][p] = IF g = part /\ p = cur THEN doc ELSE graph[g][p]
    BY <1>5 DEF Replace, TypeOK
  <2> QED BY <2>1, <2>2 DEF XidsOf
<1>6. ASSUME NEW w \in Writers, NEW ps \in SUBSET Projects, Begin(w, ps)
      PROVE  Covering' /\ Forward
  BY <1>3, <1>6 DEF Begin, oneVars
<1>7. CASE Rewind \/ (\E p \in Projects : Elapse(p)) \/ UNCHANGED vars
  BY <1>3, <1>7 DEF Rewind, Elapse, vars, writerVars, oneVars
<1>8. CASE \/ Start \/ RenderFails \/ Clear \/ Quarantine \/ QuarantineFails \/ Finish \/ Crash
           \/ (PutFails /\ UNCHANGED graph) \/ \E p \in Projects : Pick(p)
  BY <1>2, <1>8 DEF Start, RenderFails, Clear, Quarantine, QuarantineFails, Finish, Crash, AtRest,
                    PutFails, Pick, writerVars
<1>9. Put => Replace
  BY DEF Put
<1>10. PutFails => Replace \/ UNCHANGED graph
  BY DEF PutFails
<1> QED BY <1>1, <1>4, <1>5, <1>6, <1>7, <1>8, <1>9, <1>10 DEF Next, RunOnce

\* No run, retry or replayed batch takes back what a graph already showed.
THEOREM GraphsOnlyGrow == Spec => GraphsMoveForward
<1>1. Init => Covering
  BY DEF Init, Covering, Graphs
<1>2. ProjInv /\ Covering /\ [Next]_vars => Covering'
  BY CoveringStep DEF ProjInv
<1>3. ProjInv /\ Covering /\ [Next]_vars =>
        [\A g \in Graphs, p \in Projects : graph[g][p] \subseteq graph'[g][p]]_vars
  BY CoveringStep DEF ProjInv
<1> QED BY <1>1, <1>2, <1>3, ProjInvariance, PTL DEF Spec, GraphsMoveForward
=============================================================================

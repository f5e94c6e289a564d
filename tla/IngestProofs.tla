---------------------------- MODULE IngestProofs ----------------------------
(***************************************************************************)
(* What webhooks, their replay and the reconcile poll keep true of the     *)
(* delivery facts and of the tasks' states, for every set of commits,      *)
(* deliveries, webhook handlers and tasks, however late, repeated or out   *)
(* of order the deliveries come and wherever a process dies.               *)
(***************************************************************************)
EXTENDS Ingest, FiniteSetTheorems, WellFoundedInduction, TLAPS

Txs == [at : {"idle", "apply", "resolve"}, d : Deliveries \union {None},
        pairs : SUBSET (Tasks \X Shas), shas : SUBSET Main, todo : SUBSET Tasks,
        delta : Facts]

\* Where everything is, and that nothing is written before the statements ran.
Typed ==
  /\ facts \in Facts /\ seq \in Nat /\ state \in [Tasks -> States]
  /\ sends \subseteq Deliveries /\ doneState \in States /\ mapped \in BOOLEAN
  /\ log \in Seq(Deliveries) /\ phase \in {"rest", "replay"} /\ batch \subseteq DOMAIN log
  /\ tx \in [Procs -> Txs]
  /\ \A p \in Procs : tx[p].at # "resolve" => tx[p].delta = NoFacts
  /\ head \in Nat /\ reopened \in [Tasks -> Nat] /\ faults \in Nat

\* An id comes from the sequence, is of a commit of the default branch, and is
\* given once, be it committed or on its way.
IdsOnce ==
  /\ \A s \in Shas : facts.main[s] # 0 => facts.main[s] <= seq /\ s \in Main
  /\ \A s, r \in Shas : facts.main[s] = facts.main[r] => s = r \/ facts.main[s] = 0
  /\ \A p \in Procs, s \in Shas : tx[p].delta.main[s] # 0 =>
        /\ tx[p].delta.main[s] <= seq /\ s \in Main /\ facts.main[s] = 0
        /\ \A r \in Shas : facts.main[r] # tx[p].delta.main[s]
        /\ \A q \in Procs, r \in Shas :
              tx[q].delta.main[r] = tx[p].delta.main[s] => q = p /\ r = s
        /\ \A q \in Procs \ {p} : tx[q].delta.main[s] = 0

\* A sha of a deploy branch names the commit it was picked from, and GitHub's
\* watermark of an environment is a commit whose deployment was reported.
ReportedIn(f, main, reports) ==
  /\ \A s \in Shas : f.alias[s] # 0 => f.alias[s] = main[Source[s]]
  /\ \A e \in Envs : f.gh[e] # 0 =>
        \E d \in reports : /\ d.kind = "deploy" /\ d.env = e
                           /\ f.gh[e] = main[Source[d.sha]]

AllReported ==
  /\ ReportedIn(facts, facts.main, Logged)
  /\ \A p \in Procs : ReportedIn(tx[p].delta, facts.main, Logged)

\* What a process works on is recorded before, and Flux's with the effects.
LoggedFirst ==
  /\ \A i, j \in DOMAIN log : log[i] = log[j] => i = j
  /\ applied \subseteq Logged
  /\ \A i \in batch : log[i].kind \in githubKinds
  /\ \A h \in Hooks : ~Idle(h) => tx[h].d # None
  /\ \A p \in Procs : tx[p].d # None =>
        /\ tx[p].d.kind \in githubKinds => tx[p].d \in Logged
        /\ tx[p].at = "apply" => tx[p].d.kind \in githubKinds
        /\ tx[p].d.kind = "flux" =>
             tx[p].d \notin Logged /\ \A q \in Procs : tx[q].d = tx[p].d => q = p

\* What applying d leaves in the facts f, but for the tasks reopened since.
Effect(f, d, again) ==
  /\ d.kind = "main" => f.main[d.sha] # 0
  /\ d.kind \in {"opened", "merged"} => d.tasks \subseteq f.prs
  /\ d.kind \in {"branch", "main", "merged"} =>
       \A t \in d.tasks : again[t] = 0 => <<t, d.sha>> \in f.attr

Effective ==
  /\ \A d \in applied : Effect(facts, d, reopened)
  /\ \A p \in Procs : tx[p].at = "resolve" /\ tx[p].d # None =>
        Effect(Join(facts, tx[p].delta), tx[p].d, reopened)

\* The facts f bear out the state s of task t.
BackedBy(f, t, s) ==
  s \in deliveredStates =>
    \E i \in LandedIds(f, t) :
      /\ s = "deployed_dev"  => i <= f.gh["dev"]
      /\ s = "deployed_prod" => i <= f.gh["prod"]
      /\ s = "released"      => i <= f.release

IngestInv == Typed /\ IdsOnce /\ AllReported /\ LoggedFirst /\ Effective /\ Backed

-----------------------------------------------------------------------------
\* A set of numbers below a bound has a greatest one, and the expression that
\* picks it does.
LEMMA Greatest ==
    ASSUME NEW S \in SUBSET Nat, S # {}, NEW n \in Nat, \A i \in S : i <= n
    PROVE  (CHOOSE i \in S : \A j \in S : j <= i) \in S
<1> DEFINE T == {n - i : i \in S}
<1>1. T \subseteq Nat /\ T # {}
  <2>1. \A i \in S : n - i \in Nat OBVIOUS
  <2> QED BY <2>1
<1>2. \E x \in T : \A y \in T : ~(<<y, x>> \in OpToRel(<, Nat))
  BY <1>1, WFMin, NatLessThanWellFounded
<1>3. PICK i \in S : \A y \in T : ~(<<y, n - i>> \in OpToRel(<, Nat))
  BY <1>2
<1>4. \A j \in S : j <= i
  <2> SUFFICES ASSUME NEW j \in S, i < j PROVE FALSE
    OBVIOUS
  <2>1. n - j \in Nat /\ n - i \in Nat /\ n - j < n - i OBVIOUS
  <2>2. <<n - j, n - i>> \in OpToRel(<, Nat) BY <2>1 DEF OpToRel
  <2> QED BY <1>3, <2>2
<1> QED BY <1>4

\* No facts, and what is in one field of facts.
LEMMA NoFactsTyped ==
    /\ NoFacts \in Facts
    /\ \A s \in Shas : NoFacts.main[s] = 0 /\ NoFacts.alias[s] = 0
    /\ \A e \in Envs : NoFacts.gh[e] = 0 /\ NoFacts.flux[e] = 0
    /\ NoFacts.attr = {} /\ NoFacts.prs = {} /\ NoFacts.release = 0
BY DEF NoFacts, Facts

LEMMA Joined ==
    ASSUME NEW f \in Facts, NEW g \in Facts
    PROVE  /\ Join(f, g) \in Facts
           /\ \A s \in Shas : Join(f, g).main[s] = IF f.main[s] = 0 THEN g.main[s] ELSE f.main[s]
           /\ \A s \in Shas : Join(f, g).alias[s] = IF f.alias[s] = 0 THEN g.alias[s] ELSE f.alias[s]
           /\ Join(f, g).attr = f.attr \union g.attr
           /\ Join(f, g).prs = f.prs \union g.prs
           /\ \A e \in Envs : Join(f, g).gh[e] = IF f.gh[e] < g.gh[e] THEN g.gh[e] ELSE f.gh[e]
           /\ \A e \in Envs : f.gh[e] <= Join(f, g).gh[e]
           /\ f.release <= Join(f, g).release
<1>1. /\ f.main \in [Shas -> Nat] /\ g.main \in [Shas -> Nat]
      /\ f.alias \in [Shas -> Nat] /\ g.alias \in [Shas -> Nat]
      /\ f.gh \in [Envs -> Nat] /\ g.gh \in [Envs -> Nat]
      /\ f.flux \in [Envs -> Nat] /\ g.flux \in [Envs -> Nat]
      /\ f.attr \in SUBSET (Tasks \X Shas) /\ g.attr \in SUBSET (Tasks \X Shas)
      /\ f.prs \in SUBSET Tasks /\ g.prs \in SUBSET Tasks
      /\ f.release \in Nat /\ g.release \in Nat
  BY DEF Facts
<1> DEFINE m == [s \in Shas |-> coalesce(f.main[s], g.main[s])]
           a == [s \in Shas |-> coalesce(f.alias[s], g.alias[s])]
           h == [e \in Envs |-> greatest(f.gh[e], g.gh[e])]
           x == [e \in Envs |-> greatest(f.flux[e], g.flux[e])]
           l == greatest(f.release, g.release)
<1>2. m \in [Shas -> Nat] /\ a \in [Shas -> Nat] BY <1>1 DEF coalesce
<1>3. h \in [Envs -> Nat] /\ x \in [Envs -> Nat] BY <1>1 DEF greatest
<1>4. l \in Nat /\ f.release <= l BY <1>1 DEF greatest
<1>5. \A e \in Envs : f.gh[e] <= h[e] /\ h[e] = IF f.gh[e] < g.gh[e] THEN g.gh[e] ELSE f.gh[e]
  BY <1>1 DEF greatest
<1>6. \A s \in Shas : /\ m[s] = IF f.main[s] = 0 THEN g.main[s] ELSE f.main[s]
                      /\ a[s] = IF f.alias[s] = 0 THEN g.alias[s] ELSE f.alias[s]
  BY DEF coalesce
<1>7. Join(f, g) = [main |-> m, alias |-> a, attr |-> f.attr \union g.attr,
                    prs |-> f.prs \union g.prs, gh |-> h, flux |-> x, release |-> l]
  BY DEF Join
<1> HIDE DEF m, a, h, x, l
<1> QED BY <1>1, <1>2, <1>3, <1>4, <1>5, <1>6, <1>7 DEF Facts

\* The newest id is one of the ids, or 0.
LEMMA LatestTyped ==
    ASSUME NEW f \in Facts, NEW n \in Nat, \A s \in Shas : f.main[s] <= n
    PROVE  LatestMainID(f) \in Nat
<1> DEFINE ids == {f.main[s] : s \in Shas} \union {0}
<1>1. ids \subseteq Nat /\ ids # {} /\ \A i \in ids : i <= n BY DEF Facts
<1>2. (CHOOSE i \in ids : \A j \in ids : j <= i) \in ids BY <1>1, Greatest
<1>3. LatestMainID(f) = CHOOSE i \in ids : \A j \in ids : j <= i BY DEF LatestMainID
<1> QED BY <1>1, <1>2, <1>3

\* Reports stay what they are while ids are not lost and the log grows.
LEMMA ReportedStays ==
    ASSUME NEW f, NEW m, NEW n, NEW old, NEW new,
           ReportedIn(f, m, old), old \subseteq new, old \subseteq Deliveries,
           \A s \in Shas : m[s] # 0 => n[s] = m[s]
    PROVE  ReportedIn(f, n, new)
<1>1. \A s \in Shas : Source[s] \in Shas BY SourceAssumption, MainAssumption
<1>2. \A d \in old : d.sha \in Shas BY KindsAssumption
<1>3. \A s \in Shas : f.alias[s] # 0 => f.alias[s] = n[Source[s]]
  BY <1>1 DEF ReportedIn
<1>4. \A e \in Envs : f.gh[e] # 0 =>
        \E d \in new : d.kind = "deploy" /\ d.env = e /\ f.gh[e] = n[Source[d.sha]]
  BY <1>1, <1>2 DEF ReportedIn
<1> QED BY <1>3, <1>4 DEF ReportedIn

LEMMA ReportedJoin ==
    ASSUME NEW f \in Facts, NEW g \in Facts, NEW m, NEW reports,
           ReportedIn(f, m, reports), ReportedIn(g, m, reports)
    PROVE  ReportedIn(Join(f, g), m, reports)
BY Joined DEF ReportedIn

\* Facts only accumulate, and an effect stays with them.
LEMMA EffectStays ==
    ASSUME NEW f \in Facts, NEW g \in Facts, NEW d \in Deliveries, NEW again,
           Effect(f, d, again),
           \A s \in Shas : f.main[s] # 0 => g.main[s] # 0,
           f.prs \subseteq g.prs, f.attr \subseteq g.attr
    PROVE  Effect(g, d, again)
BY KindsAssumption DEF Effect

LEMMA BackedStays ==
    ASSUME NEW f \in Facts, NEW g \in Facts, NEW t \in Tasks, NEW s, BackedBy(f, t, s)
    PROVE  BackedBy(Join(f, g), t, s)
<1> DEFINE h == Join(f, g)
<1>1. /\ h \in Facts /\ f.attr \subseteq h.attr
      /\ \A r \in Shas : f.main[r] # 0 => h.main[r] = f.main[r]
      /\ \A e \in Envs : f.gh[e] <= h.gh[e]
      /\ f.release <= h.release
  BY Joined
<1> HIDE DEF h
<1>2. LandedIds(f, t) \subseteq LandedIds(h, t) BY <1>1 DEF LandedIds
<1>3. LandedIds(f, t) \subseteq Nat BY DEF LandedIds, Facts
<1>4. /\ f.gh["dev"] \in Nat /\ f.gh["prod"] \in Nat /\ f.release \in Nat
      /\ h.gh["dev"] \in Nat /\ h.gh["prod"] \in Nat /\ h.release \in Nat
      /\ f.gh["dev"] <= h.gh["dev"] /\ f.gh["prod"] <= h.gh["prod"]
  BY <1>1 DEF Facts, Envs
<1>5. ASSUME s \in deliveredStates
      PROVE  \E i \in LandedIds(h, t) : /\ s = "deployed_dev"  => i <= h.gh["dev"]
                                        /\ s = "deployed_prod" => i <= h.gh["prod"]
                                        /\ s = "released"      => i <= h.release
  <2>1. PICK i \in LandedIds(f, t) : /\ s = "deployed_dev"  => i <= f.gh["dev"]
                                     /\ s = "deployed_prod" => i <= f.gh["prod"]
                                     /\ s = "released"      => i <= f.release
    BY <1>5 DEF BackedBy
  <2>2. i \in Nat /\ i \in LandedIds(h, t) BY <1>2, <1>3
  <2>3. /\ s = "deployed_dev"  => i <= h.gh["dev"]
        /\ s = "deployed_prod" => i <= h.gh["prod"]
        /\ s = "released"      => i <= h.release
    BY <2>1, <2>2, <1>1, <1>4
  <2> QED BY <2>2, <2>3
<1> QED BY <1>5 DEF BackedBy, h

\* Resolution moves a task to a state the facts bear out, and forward.
LEMMA Resolution ==
    ASSUME NEW f \in Facts, NEW t \in Tasks, NEW s \in States, NEW done \in States,
           BackedBy(f, t, s)
    PROVE  LET r == ResolveDelivery(f, t, s, done)
           IN  r \in States /\ BackedBy(f, t, r) /\ rank(s) <= rank(r)
<1> DEFINE terminal == IF done = "released" THEN "released" ELSE "deployed_prod"
           final == IF done = "released" THEN f.release ELSE ConfirmedFrontier(f, "prod")
           r == ResolveDelivery(f, t, s, done)
<1>1. LandedIds(f, t) \subseteq Nat BY DEF LandedIds, Facts
<1>2. /\ f.gh["dev"] \in Nat /\ f.gh["prod"] \in Nat /\ f.release \in Nat
      /\ f.flux["dev"] \in Nat /\ f.flux["prod"] \in Nat
  BY DEF Facts, Envs
<1>3. /\ ConfirmedFrontier(f, "dev") \in Nat /\ ConfirmedFrontier(f, "dev") <= f.gh["dev"]
      /\ ConfirmedFrontier(f, "prod") \in Nat /\ ConfirmedFrontier(f, "prod") <= f.gh["prod"]
  BY <1>2 DEF ConfirmedFrontier
<1>4. CASE LandedIds(f, t) = {} \/ s \notin advanceable
  <2>1. r = s BY <1>4 DEF ResolveDelivery
  <2>2. rank(s) <= rank(s) BY DEF rank
  <2> QED BY <2>1, <2>2
<1>5. CASE LandedIds(f, t) # {} /\ s \in advanceable /\ Covered(f, t, final)
  <2>1. r = terminal BY <1>5 DEF ResolveDelivery
  <2>2. r \in {"released", "deployed_prod"} BY <2>1
  <2>3. PICK i \in LandedIds(f, t) : TRUE BY <1>5
  <2>4. i \in Nat /\ i <= final BY <1>1, <1>5 DEF Covered
  <2>5. BackedBy(f, t, r) BY <2>1, <2>3, <2>4, <1>2, <1>3 DEF BackedBy
  <2>6. rank(r) = 3 BY <2>2 DEF rank
  <2>7. rank(s) <= 3 BY DEF rank
  <2> QED BY <2>2, <2>5, <2>6, <2>7 DEF States, deliveredStates
<1>6. CASE /\ LandedIds(f, t) # {} /\ s \in advanceable /\ ~Covered(f, t, final)
           /\ s = "deployed_dev" \/ Covered(f, t, ConfirmedFrontier(f, "dev"))
  <2>1. r = "deployed_dev" BY <1>6 DEF ResolveDelivery
  <2>2. \E i \in LandedIds(f, t) : i <= f.gh["dev"]
    <3>1. CASE s = "deployed_dev" BY <3>1 DEF BackedBy, deliveredStates
    <3>2. CASE Covered(f, t, ConfirmedFrontier(f, "dev"))
      <4>1. PICK i \in LandedIds(f, t) : TRUE BY <1>6
      <4>2. i \in Nat /\ i <= ConfirmedFrontier(f, "dev") BY <1>1, <3>2 DEF Covered
      <4> QED BY <4>2, <1>2, <1>3
    <3> QED BY <1>6, <3>1, <3>2
  <2>3. BackedBy(f, t, r) BY <2>1, <2>2 DEF BackedBy
  <2>4. rank(r) = 2 BY <2>1 DEF rank
  <2>5. rank(s) <= 2 BY <1>6 DEF rank, advanceable, openStates
  <2> QED BY <2>1, <2>3, <2>4, <2>5 DEF States, deliveredStates
<1>7. CASE /\ LandedIds(f, t) # {} /\ s \in advanceable /\ ~Covered(f, t, final)
           /\ s # "deployed_dev" /\ ~Covered(f, t, ConfirmedFrontier(f, "dev"))
  <2>1. r = "merged" BY <1>7 DEF ResolveDelivery
  <2>2. BackedBy(f, t, r) BY <2>1, <1>7 DEF BackedBy
  <2>3. rank(r) = 1 BY <2>1 DEF rank
  <2>4. rank(s) <= 1 BY <1>7 DEF rank, advanceable, openStates
  <2> QED BY <2>1, <2>2, <2>3, <2>4 DEF States, deliveredStates
<1> QED BY <1>4, <1>5, <1>6, <1>7

-----------------------------------------------------------------------------
\* What the statements of an apply write.

\* Ids that are new, of commits of the default branch without one.
FreshIds(w) ==
  /\ \A s \in Shas : w.main[s] # 0 =>
        /\ s \in Main /\ facts.main[s] = 0 /\ seq < w.main[s]
        /\ w.main[s] <= seq + Cardinality({r \in Shas : w.main[r] # 0})
  /\ \A s, r \in Shas : w.main[s] = w.main[r] => s = r \/ w.main[s] = 0

\* The id a sha leads to is the one of the commit it is or was picked from.
LEMMA Named ==
    ASSUME Typed, IdsOnce, AllReported, NEW s \in Shas
    PROVE  /\ MainIDForSHA(facts, s) \in Nat /\ MainIDForSHA(facts, s) <= seq
           /\ MainIDForSHA(facts, s) # 0 => MainIDForSHA(facts, s) = facts.main[Source[s]]
           /\ facts.main[s] \in Nat /\ facts.main[s] <= seq
<1>1. /\ facts.main \in [Shas -> Nat] /\ facts.alias \in [Shas -> Nat] /\ seq \in Nat
  BY DEF Typed, Facts
<1>2. Source[s] \in Shas /\ (s \in Main => Source[s] = s)
  BY SourceAssumption, MainAssumption
<1>3. facts.main[s] # 0 => s \in Main /\ facts.main[s] <= seq BY DEF IdsOnce
<1>4. facts.main[Source[s]] # 0 => facts.main[Source[s]] <= seq BY <1>2 DEF IdsOnce
<1>5. facts.alias[s] # 0 => facts.alias[s] = facts.main[Source[s]]
  BY DEF AllReported, ReportedIn
<1> QED BY <1>1, <1>2, <1>3, <1>4, <1>5 DEF MainIDForSHA, coalesce

LEMMA NewMainTyped ==
    ASSUME Typed, NEW s \in Shas
    PROVE  /\ NewMain(s) \in Facts
           /\ \A r \in Shas : NewMain(s).main[r] =
                 IF r = s /\ facts.main[s] = 0 THEN seq + 1 ELSE 0
           /\ NewMain(s).alias = NoFacts.alias /\ NewMain(s).gh = NoFacts.gh
           /\ NewMain(s).attr = {} /\ NewMain(s).prs = {}
<1> DEFINE m == [NoFacts.main EXCEPT ![s] = IF facts.main[s] = 0 THEN seq + 1 ELSE 0]
<1>1. NewMain(s) = [NoFacts EXCEPT !.main = m] BY DEF NewMain
<1>2. seq + 1 \in Nat BY DEF Typed
<1>3. /\ m \in [Shas -> Nat]
      /\ \A r \in Shas : m[r] = IF r = s /\ facts.main[s] = 0 THEN seq + 1 ELSE 0
  BY <1>2 DEF NoFacts
<1> HIDE DEF m
<1> QED BY <1>1, <1>3, NoFactsTyped DEF Facts

LEMMA NewAttrTyped ==
    ASSUME NEW pairs \in SUBSET (Tasks \X Shas)
    PROVE  /\ NewAttr(pairs) \in Facts /\ NewAttr(pairs).attr = pairs \ facts.attr
           /\ NewAttr(pairs).main = NoFacts.main /\ NewAttr(pairs).alias = NoFacts.alias
           /\ NewAttr(pairs).gh = NoFacts.gh /\ NewAttr(pairs).prs = {}
BY NoFactsTyped DEF NewAttr, Facts

LEMMA NothingNew ==
    ASSUME NEW w, NEW main, NEW reports,
           \A s \in Shas : w.main[s] = 0 /\ w.alias[s] = 0, \A e \in Envs : w.gh[e] = 0
    PROVE  FreshIds(w) /\ ReportedIn(w, main, reports)
BY DEF FreshIds, ReportedIn

LEMMA OneNew ==
    ASSUME Typed, IdsOnce, NEW w \in Facts, NEW s \in Main,
           \A r \in Shas : w.main[r] = IF r = s /\ facts.main[s] = 0 THEN seq + 1 ELSE 0
    PROVE  FreshIds(w)
<1>1. seq \in Nat /\ s \in Shas BY MainAssumption DEF Typed
<1>2. CASE facts.main[s] # 0 BY <1>2 DEF FreshIds
<1>3. CASE facts.main[s] = 0
  <2>1. {r \in Shas : w.main[r] # 0} = {s} BY <1>1, <1>3
  <2>2. Cardinality({r \in Shas : w.main[r] # 0}) = 1 BY <2>1, FS_Singleton
  <2> QED BY <1>1, <1>3, <2>2 DEF FreshIds
<1> QED BY <1>2, <1>3

\* What an apply writes are facts, with ids that are new and reports that are
\* logged, and they have the delivery's effect.
Wrote(w, d) ==
  /\ w \in Facts /\ FreshIds(w)
  /\ ReportedIn(w, facts.main, Logged)
  /\ Effect(Join(facts, w), d, reopened)

LEMMA Wrote_branch ==
    ASSUME Typed, NEW d \in Deliveries, d.kind = "branch"
    PROVE  Wrote(NewAttr(d.tasks \X {d.sha}), d)
<1> DEFINE w == NewAttr(d.tasks \X {d.sha})
<1>1. d.tasks \X {d.sha} \in SUBSET (Tasks \X Shas) BY KindsAssumption
<1>2. /\ w \in Facts /\ w.attr = (d.tasks \X {d.sha}) \ facts.attr
      /\ w.main = NoFacts.main /\ w.alias = NoFacts.alias /\ w.gh = NoFacts.gh
  BY <1>1, NewAttrTyped
<1> HIDE DEF w
<1>3. FreshIds(w) /\ ReportedIn(w, facts.main, Logged)
  BY <1>2, NoFactsTyped, NothingNew
<1>4. facts \in Facts BY DEF Typed
<1>5. d.tasks \X {d.sha} \subseteq Join(facts, w).attr BY <1>2, <1>4, Joined
<1>6. Effect(Join(facts, w), d, reopened) BY <1>5 DEF Effect
<1> QED BY <1>2, <1>3, <1>6 DEF Wrote, w

LEMMA Wrote_main ==
    ASSUME Typed, IdsOnce, NEW d \in Deliveries, d.kind \in {"main", "local"}
    PROVE  Wrote(applyMainPush(d), d)
<1> DEFINE a == NewAttr(d.tasks \X {d.sha})
           m == NewMain(d.sha)
           w == Join(m, a)
<1>1. d.tasks \X {d.sha} \in SUBSET (Tasks \X Shas) /\ d.sha \in Shas /\ d.sha \in Main
  BY KindsAssumption
<1>2. /\ a \in Facts /\ a.attr = (d.tasks \X {d.sha}) \ facts.attr
      /\ a.main = NoFacts.main /\ a.alias = NoFacts.alias /\ a.gh = NoFacts.gh
  BY <1>1, NewAttrTyped
<1>3. /\ m \in Facts /\ m.alias = NoFacts.alias /\ m.gh = NoFacts.gh /\ m.attr = {}
      /\ \A r \in Shas : m.main[r] = IF r = d.sha /\ facts.main[d.sha] = 0 THEN seq + 1 ELSE 0
  BY <1>1, NewMainTyped
<1> HIDE DEF a, m
<1>4. /\ w \in Facts /\ w.attr = (d.tasks \X {d.sha}) \ facts.attr
      /\ \A s \in Shas : w.alias[s] = 0
      /\ \A e \in Envs : w.gh[e] = 0
      /\ \A r \in Shas : w.main[r] = IF r = d.sha /\ facts.main[d.sha] = 0 THEN seq + 1 ELSE 0
  BY <1>2, <1>3, Joined, NoFactsTyped
<1> HIDE DEF w
<1>5. FreshIds(w) BY <1>1, <1>4, OneNew
<1>6. ReportedIn(w, facts.main, Logged) BY <1>4 DEF ReportedIn
<1>7. facts \in Facts /\ seq \in Nat BY DEF Typed
<1>8. /\ Join(facts, w).main[d.sha] # 0
      /\ d.tasks \X {d.sha} \subseteq Join(facts, w).attr
  BY <1>1, <1>4, <1>7, Joined
<1>9. Effect(Join(facts, w), d, reopened) BY <1>8 DEF Effect
<1>10. applyMainPush(d) = w BY DEF applyMainPush, w, a, m
<1> QED BY <1>4, <1>5, <1>6, <1>9, <1>10 DEF Wrote

LEMMA Wrote_lastdeploy ==
    ASSUME Typed, IdsOnce, AllReported, NEW d \in Deliveries, d.kind = "lastdeploy"
    PROVE  Wrote(mapDeploySHA(d), d)
<1> DEFINE i == MainIDForSHA(facts, Source[d.sha])
           a == [NoFacts.alias EXCEPT ![d.sha] = IF facts.alias[d.sha] = 0 THEN i ELSE 0]
           w == [NoFacts EXCEPT !.alias = a]
<1>1. d.sha \in Shas /\ Source[d.sha] \in Shas /\ Source[Source[d.sha]] = Source[d.sha]
  BY KindsAssumption, SourceAssumption, MainAssumption
<1>2. i \in Nat /\ (i # 0 => i = facts.main[Source[d.sha]]) BY <1>1, Named
<1> HIDE DEF i
<1>3. /\ a \in [Shas -> Nat]
      /\ \A s \in Shas : a[s] # 0 => a[s] = facts.main[Source[s]]
  BY <1>1, <1>2 DEF NoFacts
<1> HIDE DEF a
<1>4. w \in Facts /\ w.alias = a /\ w.main = NoFacts.main /\ w.gh = NoFacts.gh
  BY <1>3, NoFactsTyped DEF Facts
<1>5. mapDeploySHA(d) = w BY DEF mapDeploySHA, w, a, i
<1> HIDE DEF w
<1>6. FreshIds(w) BY <1>4, NoFactsTyped DEF FreshIds
<1>7. ReportedIn(w, facts.main, Logged) BY <1>3, <1>4, NoFactsTyped DEF ReportedIn
<1>8. Effect(Join(facts, w), d, reopened) BY DEF Effect
<1> QED BY <1>4, <1>5, <1>6, <1>7, <1>8 DEF Wrote

LEMMA Wrote_pullrequest ==
    ASSUME Typed, NEW d \in Deliveries, d.kind \in {"opened", "merged"}
    PROVE  Wrote(applyPullRequest(d), d)
<1> DEFINE a == IF d.kind = "merged" THEN (d.tasks \X {d.sha}) \ facts.attr ELSE {}
           w == [NoFacts EXCEPT !.prs = d.tasks, !.attr = a]
<1>1. a \in SUBSET (Tasks \X Shas) /\ d.tasks \in SUBSET Tasks BY KindsAssumption
<1>2. d.kind = "merged" => d.tasks \X {d.sha} \subseteq a \union facts.attr OBVIOUS
<1>3. applyPullRequest(d) = w BY DEF applyPullRequest
<1> HIDE DEF a
<1>4. /\ w \in Facts /\ w.prs = d.tasks /\ w.attr = a
      /\ w.main = NoFacts.main /\ w.alias = NoFacts.alias /\ w.gh = NoFacts.gh
  BY <1>1, NoFactsTyped DEF Facts
<1> HIDE DEF w
<1>5. FreshIds(w) /\ ReportedIn(w, facts.main, Logged)
  BY <1>4, NoFactsTyped, NothingNew
<1>6. facts \in Facts BY DEF Typed
<1>7. Join(facts, w).prs = facts.prs \union d.tasks /\ Join(facts, w).attr = facts.attr \union a
  BY <1>4, <1>6, Joined
<1>8. Effect(Join(facts, w), d, reopened) BY <1>2, <1>7 DEF Effect
<1> QED BY <1>3, <1>4, <1>5, <1>8 DEF Wrote

LEMMA Wrote_deploy ==
    ASSUME Typed, IdsOnce, AllReported, NEW d \in Logged, d.kind = "deploy"
    PROVE  Wrote(applyDeploymentStatus(d), d)
<1> DEFINE i == MainIDForSHA(facts, d.sha)
           h == [NoFacts.gh EXCEPT ![d.env] = i]
           w == [NoFacts EXCEPT !.gh = h]
<1>1. d \in Deliveries BY DEF Logged, Typed
<1>2. d.sha \in Shas /\ d.env \in Envs BY <1>1, KindsAssumption
<1>3. i \in Nat /\ (i # 0 => i = facts.main[Source[d.sha]]) BY <1>2, Named
<1> HIDE DEF i
<1>4. /\ h \in [Envs -> Nat]
      /\ \A e \in Envs : h[e] = IF e = d.env THEN i ELSE 0
  BY <1>2, <1>3 DEF NoFacts
<1> HIDE DEF h
<1>5. w \in Facts /\ w.gh = h /\ w.main = NoFacts.main /\ w.alias = NoFacts.alias
  BY <1>4, NoFactsTyped DEF Facts
<1>6. applyDeploymentStatus(d) = w BY DEF applyDeploymentStatus, w, h, i
<1> HIDE DEF w
<1>7. FreshIds(w) BY <1>5, NoFactsTyped DEF FreshIds
<1>8. ReportedIn(w, facts.main, Logged)
  <2>1. \A e \in Envs : w.gh[e] # 0 =>
          d.kind = "deploy" /\ d.env = e /\ w.gh[e] = facts.main[Source[d.sha]]
    BY <1>3, <1>4, <1>5
  <2> QED BY <2>1, <1>5, NoFactsTyped DEF ReportedIn
<1>9. Effect(Join(facts, w), d, reopened) BY DEF Effect
<1> QED BY <1>5, <1>6, <1>7, <1>8, <1>9 DEF Wrote

LEMMA Wrote_flux ==
    ASSUME Typed, IdsOnce, AllReported, NEW d \in Deliveries, d.kind = "flux"
    PROVE  Wrote(confirmFluxDelivery(d), d)
<1> DEFINE i == MainIDForSHA(facts, d.sha)
           x == [NoFacts.flux EXCEPT ![d.env] = i]
           w == [NoFacts EXCEPT !.flux = x]
<1>1. d.sha \in Shas /\ d.env \in Envs BY KindsAssumption
<1>2. i \in Nat BY <1>1, Named
<1> HIDE DEF i
<1>3. x \in [Envs -> Nat] BY <1>1, <1>2 DEF NoFacts
<1> HIDE DEF x
<1>4. w \in Facts /\ w.main = NoFacts.main /\ w.alias = NoFacts.alias /\ w.gh = NoFacts.gh
  BY <1>3, NoFactsTyped DEF Facts
<1>5. confirmFluxDelivery(d) = w BY DEF confirmFluxDelivery, w, x, i
<1> HIDE DEF w
<1>6. FreshIds(w) /\ ReportedIn(w, facts.main, Logged)
  BY <1>4, NoFactsTyped, NothingNew
<1>7. Effect(Join(facts, w), d, reopened) BY DEF Effect
<1> QED BY <1>4, <1>5, <1>6, <1>7 DEF Wrote

LEMMA Wrote_release ==
    ASSUME Typed, IdsOnce, AllReported, NEW d \in Deliveries, d.kind = "release"
    PROVE  Wrote(applyRelease(d), d)
<1> DEFINE i == IF d.named /\ MainIDForSHA(facts, d.sha) # 0
                THEN MainIDForSHA(facts, d.sha) ELSE LatestMainID(facts)
           w == [NoFacts EXCEPT !.release = i]
<1>1. d.sha \in Shas BY KindsAssumption
<1>2. MainIDForSHA(facts, d.sha) \in Nat BY <1>1, Named
<1>3. facts \in Facts /\ seq \in Nat /\ \A s \in Shas : facts.main[s] <= seq
  BY Named DEF Typed
<1>4. LatestMainID(facts) \in Nat BY <1>3, LatestTyped
<1>5. i \in Nat BY <1>2, <1>4
<1>6. applyRelease(d) = w BY DEF applyRelease
<1> HIDE DEF i
<1>7. w \in Facts /\ w.main = NoFacts.main /\ w.alias = NoFacts.alias /\ w.gh = NoFacts.gh
  BY <1>5, NoFactsTyped DEF Facts
<1> HIDE DEF w
<1>8. FreshIds(w) /\ ReportedIn(w, facts.main, Logged)
  BY <1>7, NoFactsTyped, NothingNew
<1>9. Effect(Join(facts, w), d, reopened) BY DEF Effect
<1> QED BY <1>6, <1>7, <1>8, <1>9 DEF Wrote

LEMMA Applying ==
    ASSUME Typed, IdsOnce, AllReported, NEW d \in Deliveries,
           d.kind \in githubKinds => d \in Logged
    PROVE  Wrote(Writes(d), d)
<1>1. d.kind \in Kinds BY KindsAssumption
<1>2. CASE d.kind = "branch" BY <1>2, Wrote_branch DEF Writes
<1>3. CASE d.kind \in {"main", "local"} BY <1>3, Wrote_main DEF Writes
<1>4. CASE d.kind = "lastdeploy" BY <1>4, Wrote_lastdeploy DEF Writes
<1>5. CASE d.kind \in {"opened", "merged"} BY <1>5, Wrote_pullrequest DEF Writes
<1>6. CASE d.kind = "deploy" BY <1>6, Wrote_deploy DEF Writes, githubKinds
<1>7. CASE d.kind = "flux" BY <1>7, Wrote_flux DEF Writes
<1>8. CASE d.kind = "release" BY <1>8, Wrote_release DEF Writes
<1> QED BY <1>1, <1>2, <1>3, <1>4, <1>5, <1>6, <1>7, <1>8 DEF Kinds, githubKinds

LEMMA AffectedTyped ==
    ASSUME NEW d \in Deliveries, NEW f
    PROVE  Affected(d, f) \in SUBSET Tasks
<1>1. d.tasks \subseteq Tasks /\ d.kind \in Kinds BY KindsAssumption
<1>2. \A x, st : TasksBelowFrontier(f, x, st) \subseteq Tasks BY DEF TasksBelowFrontier
<1>3. TaskIDsForSHA(f, d.sha) \subseteq Tasks BY DEF TaskIDsForSHA
<1> QED BY <1>1, <1>2, <1>3 DEF Affected, Kinds, githubKinds

-----------------------------------------------------------------------------
\* The steps, by what they have in common.

\* The log only grows: a delivery that is not in it, at the end.
LEMMA Appended ==
    ASSUME Typed, LoggedFirst, NEW d \in Deliveries, d \notin Logged,
           log' = Append(log, d)
    PROVE  /\ log' \in Seq(Deliveries)
           /\ DOMAIN log \subseteq DOMAIN log' /\ Logged' = Logged \union {d}
           /\ \A i \in DOMAIN log : log'[i] = log[i]
           /\ \A i \in DOMAIN log' \ DOMAIN log : log'[i] = d
           /\ \A i, j \in DOMAIN log' : log'[i] = log'[j] => i = j
<1>1. /\ log' \in Seq(Deliveries) /\ Len(log) \in Nat
      /\ DOMAIN log = 1..Len(log) /\ DOMAIN log' = 1..(Len(log) + 1)
      /\ \A i \in 1..Len(log) : log'[i] = log[i]
      /\ log'[Len(log) + 1] = d
  BY DEF Typed
<1>2. \A i \in DOMAIN log' : i \in DOMAIN log \/ i = Len(log) + 1 BY <1>1
<1>3. Len(log) + 1 \in DOMAIN log' /\ Len(log) + 1 \notin DOMAIN log BY <1>1
<1>4. \A i \in DOMAIN log : i \in DOMAIN log' /\ log'[i] # d BY <1>1 DEF Logged
<1>5. Logged' = Logged \union {d}
  <2>1. Logged' \subseteq Logged \union {d} BY <1>1, <1>2 DEF Logged
  <2>2. Logged \union {d} \subseteq Logged' BY <1>1, <1>3 DEF Logged
  <2> QED BY <2>1, <2>2
<1>6. \A i, j \in DOMAIN log' : log'[i] = log'[j] => i = j
  BY <1>1, <1>2, <1>4 DEF LoggedFirst
<1> QED BY <1>1, <1>2, <1>4, <1>5, <1>6

\* The delivery that process p takes up is recorded, or is Flux's and nobody
\* else's.
Ready(p, d) ==
  d # None =>
    /\ d \in Deliveries
    /\ d.kind \in githubKinds => d \in Logged
    /\ d.kind = "flux" => d \notin Logged /\ \A q \in Procs \ {p} : tx[q].d # d

\* Statements that write.
LEMMA WrittenKeeps ==
    ASSUME IngestInv, NEW p \in Procs, NEW r \in Txs, NEW w \in Facts,
           Written(p, r, w), FreshIds(w), ReportedIn(w, facts.main, Logged),
           Ready(p, r.d), r.d # None => Effect(Join(facts, w), r.d, reopened),
           p \in Hooks => r.d # None,
           UNCHANGED <<storeVars, envVars, faults>>,
           phase' \in {"rest", "replay"}, batch' \subseteq batch
    PROVE  IngestInv'
<1> DEFINE n == Cardinality({s \in Shas : w.main[s] # 0})
           x == [r EXCEPT !.at = "resolve", !.delta = w]
<1>1. /\ Typed /\ IdsOnce /\ AllReported /\ LoggedFirst /\ Effective /\ Backed
  BY DEF IngestInv
<1>2. UNCHANGED <<facts, state, log, applied, doneState, sends, mapped, head, reopened, faults>>
  BY DEF storeVars, envVars
<1>3. n \in Nat
  <2>1. {s \in Shas : w.main[s] # 0} \in SUBSET Shas OBVIOUS
  <2>2. IsFiniteSet({s \in Shas : w.main[s] # 0}) BY <2>1, FS_Subset, MainAssumption
  <2> QED BY <2>2, FS_CardinalityType
<1>4. seq' = seq + n /\ tx' = [tx EXCEPT ![p] = x] /\ RowsFree(p, w)
  BY DEF Written, Step
<1>5. x \in Txs /\ x.at = "resolve" /\ x.delta = w /\ x.d = r.d BY DEF Txs
<1> HIDE DEF x, n
<1>6. tx \in [Procs -> Txs] /\ seq \in Nat BY <1>1 DEF Typed
<1>7. tx' \in [Procs -> Txs] /\ tx'[p] = x /\ \A q \in Procs \ {p} : tx'[q] = tx[q]
  BY <1>4, <1>5, <1>6
<1>8. Typed'
  <2>1. \A q \in Procs : tx'[q].at # "resolve" => tx'[q].delta = NoFacts
    BY <1>1, <1>5, <1>7 DEF Typed
  <2> QED BY <1>1, <1>2, <1>3, <1>4, <1>6, <1>7, <2>1 DEF Typed
<1>9. IdsOnce'
  <2>1. /\ \A s \in Shas : w.main[s] # 0 =>
              s \in Main /\ facts.main[s] = 0 /\ seq < w.main[s] /\ w.main[s] <= seq + n
        /\ \A s, t \in Shas : w.main[s] = w.main[t] => s = t \/ w.main[s] = 0
    BY DEF FreshIds, n
  <2>2. \A s \in Shas : w.main[s] \in Nat /\ facts.main[s] \in Nat
    BY <1>1 DEF Typed, Facts
  <2>3. \A q \in Procs, s \in Shas : tx[q].delta.main[s] \in Nat
    BY <1>6 DEF Txs, Facts
  <2>4. \A q \in Procs \ {p}, s \in Shas : tx[q].delta.main[s] = 0 \/ w.main[s] = 0
    BY <1>4 DEF RowsFree, Overlap
  <2>5. \A s \in Shas : facts.main[s] <= seq
    BY <1>1, <1>6, <2>2 DEF IdsOnce
  <2>6. \A q \in Procs, s \in Shas : tx[q].delta.main[s] <= seq
    BY <1>1, <1>6, <2>3 DEF IdsOnce
  <2>7. \A s \in Shas : facts'.main[s] # 0 => facts'.main[s] <= seq' /\ s \in Main
    BY <1>1, <1>2, <1>3, <1>4, <1>6, <2>2 DEF IdsOnce
  <2>8. \A s, t \in Shas : facts'.main[s] = facts'.main[t] => s = t \/ facts'.main[s] = 0
    BY <1>1, <1>2 DEF IdsOnce
  <2>9. ASSUME NEW s \in Shas, tx'[p].delta.main[s] # 0
        PROVE  /\ tx'[p].delta.main[s] <= seq' /\ s \in Main /\ facts'.main[s] = 0
               /\ \A t \in Shas : facts'.main[t] # tx'[p].delta.main[s]
               /\ \A q \in Procs, t \in Shas :
                     tx'[q].delta.main[t] = tx'[p].delta.main[s] => q = p /\ t = s
               /\ \A q \in Procs \ {p} : tx'[q].delta.main[s] = 0
    <3>1. /\ w.main[s] # 0 /\ w.main[s] <= seq' /\ seq < w.main[s]
          /\ s \in Main /\ facts'.main[s] = 0
      BY <1>2, <1>4, <1>5, <1>7, <2>1, <2>9
    <3>2. \A t \in Shas : facts'.main[t] # w.main[s] BY <1>2, <1>6, <2>2, <2>5, <3>1
    <3>3. \A t \in Shas : w.main[t] = w.main[s] => t = s BY <2>1, <3>1
    <3>4. \A q \in Procs \ {p}, t \in Shas : tx[q].delta.main[t] # w.main[s]
      BY <1>6, <2>2, <2>3, <2>6, <3>1
    <3>5. \A q \in Procs \ {p} : tx[q].delta.main[s] = 0 BY <2>4, <3>1
    <3> QED BY <1>5, <1>7, <3>1, <3>2, <3>3, <3>4, <3>5
  <2>10. ASSUME NEW k \in Procs \ {p}, NEW s \in Shas, tx'[k].delta.main[s] # 0
         PROVE  /\ tx'[k].delta.main[s] <= seq' /\ s \in Main /\ facts'.main[s] = 0
                /\ \A t \in Shas : facts'.main[t] # tx'[k].delta.main[s]
                /\ \A q \in Procs, t \in Shas :
                      tx'[q].delta.main[t] = tx'[k].delta.main[s] => q = k /\ t = s
                /\ \A q \in Procs \ {k} : tx'[q].delta.main[s] = 0
    <3>1. /\ tx[k].delta.main[s] # 0 /\ tx'[k].delta.main[s] = tx[k].delta.main[s]
          /\ tx[k].delta.main[s] <= seq'
      BY <1>3, <1>4, <1>6, <1>7, <2>3, <2>6, <2>10
    <3>2. /\ s \in Main /\ facts'.main[s] = 0
          /\ \A t \in Shas : facts'.main[t] # tx[k].delta.main[s]
      BY <1>1, <1>2, <3>1 DEF IdsOnce
    <3>3. \A q \in Procs \ {p}, t \in Shas :
             tx'[q].delta.main[t] = tx[k].delta.main[s] => q = k /\ t = s
      BY <1>1, <1>7, <3>1 DEF IdsOnce
    <3>4. \A t \in Shas : w.main[t] # tx[k].delta.main[s]
      BY <1>6, <2>1, <2>2, <2>3, <2>6, <3>1
    <3>5. w.main[s] = 0 BY <2>4, <3>1
    <3>6. \A q \in Procs \ {p, k} : tx'[q].delta.main[s] = 0
      BY <1>1, <1>7, <3>1 DEF IdsOnce
    <3>7. tx'[p].delta = w BY <1>5, <1>7
    <3> QED BY <3>1, <3>2, <3>3, <3>4, <3>5, <3>6, <3>7
  <2> QED BY <2>7, <2>8, <2>9, <2>10 DEF IdsOnce
<1>10. AllReported'
  <2>1. Logged' = Logged BY <1>2 DEF Logged
  <2> QED BY <1>1, <1>2, <1>5, <1>7, <2>1 DEF AllReported
<1>11. LoggedFirst'
  <2>1. Logged' = Logged BY <1>2 DEF Logged
  <2>2. \A h \in Hooks : tx'[h].at # "idle" => tx'[h].d # None
    BY <1>1, <1>5, <1>7 DEF LoggedFirst, Idle, Procs
  <2>3. \A q \in Procs : tx'[q].d = IF q = p THEN r.d ELSE tx[q].d BY <1>5, <1>7
  <2>4. \A q \in Procs : tx'[q].at = "apply" => q # p /\ tx[q].at = "apply" BY <1>5, <1>7
  <2>5. \A q \in Procs : tx'[q].d # None =>
          /\ tx'[q].d.kind \in githubKinds => tx'[q].d \in Logged'
          /\ tx'[q].at = "apply" => tx'[q].d.kind \in githubKinds
    BY <1>1, <2>1, <2>3, <2>4 DEF LoggedFirst, Ready
  <2>6. \A q \in Procs : tx'[q].d # None /\ tx'[q].d.kind = "flux" =>
          tx'[q].d \notin Logged' /\ \A k \in Procs : tx'[k].d = tx'[q].d => k = q
    BY <1>1, <2>1, <2>3 DEF LoggedFirst, Ready
  <2> QED BY <1>1, <1>2, <2>1, <2>2, <2>5, <2>6 DEF LoggedFirst, Idle
<1>12. Effective' BY <1>1, <1>2, <1>5, <1>7 DEF Effective
<1>13. Backed' BY <1>1, <1>2 DEF Backed
<1> QED BY <1>8, <1>9, <1>10, <1>11, <1>12, <1>13 DEF IngestInv

\* Steps that write and commit no facts.
LEMMA QuietKeeps ==
    ASSUME IngestInv, NEW p \in Procs, NEW r \in Txs, r.at # "resolve", r.delta = NoFacts,
           tx' = tx \/ tx' = [tx EXCEPT ![p] = r],
           r.d # None => r.d.kind \in githubKinds /\ r.d \in Logged',
           p \in Hooks /\ r.at # "idle" => r.d # None,
           UNCHANGED <<facts, seq, applied, reopened>>,
           state' \in [Tasks -> States], Backed',
           sends' \subseteq Deliveries, doneState' \in States, mapped' \in BOOLEAN,
           head' \in Nat, faults' \in Nat, phase' \in {"rest", "replay"},
           log' = log \/ \E d \in Deliveries \ Logged : d.kind \in githubKinds /\ log' = Append(log, d),
           batch' \subseteq DOMAIN log, \A i \in batch' : log[i].kind \in githubKinds
    PROVE  IngestInv'
<1>1. /\ Typed /\ IdsOnce /\ AllReported /\ LoggedFirst /\ Effective
  BY DEF IngestInv
<1>2. tx \in [Procs -> Txs] BY <1>1 DEF Typed
<1>3. tx' \in [Procs -> Txs] /\ \A q \in Procs : tx'[q] = tx[q] \/ (q = p /\ tx'[q] = r)
  BY <1>2
<1>4. /\ log' \in Seq(Deliveries) /\ DOMAIN log \subseteq DOMAIN log' /\ Logged \subseteq Logged'
      /\ \A d \in Logged' \ Logged : d.kind \in githubKinds
      /\ \A i \in DOMAIN log : log'[i] = log[i]
      /\ \A i, j \in DOMAIN log' : log'[i] = log'[j] => i = j
  <2>1. CASE log' = log BY <1>1, <2>1 DEF Typed, LoggedFirst, Logged
  <2>2. CASE \E d \in Deliveries \ Logged : d.kind \in githubKinds /\ log' = Append(log, d)
    <3>1. PICK d \in Deliveries \ Logged : d.kind \in githubKinds /\ log' = Append(log, d)
      BY <2>2
    <3> QED BY <1>1, <3>1, Appended
  <2> QED BY <2>1, <2>2
<1>5. Typed'
  <2>1. \A q \in Procs : tx'[q].at # "resolve" => tx'[q].delta = NoFacts
    BY <1>1, <1>3 DEF Typed
  <2> QED BY <1>1, <1>3, <1>4, <2>1 DEF Typed
<1>6. \A q \in Procs : tx'[q].delta = tx[q].delta \/ tx'[q].delta = NoFacts
  BY <1>3
<1>7. IdsOnce'
  <2>1. \A q \in Procs, s \in Shas :
           tx'[q].delta.main[s] = tx[q].delta.main[s] \/ tx'[q].delta.main[s] = 0
    BY <1>6, NoFactsTyped
  <2> QED BY <1>1, <2>1 DEF IdsOnce
<1>8. AllReported'
  <2>1. Logged \subseteq Deliveries BY <1>1 DEF Logged, Typed
  <2>2. ReportedIn(facts, facts.main, Logged') BY <1>1, <1>4, <2>1, ReportedStays DEF AllReported
  <2>3. \A q \in Procs : ReportedIn(tx[q].delta, facts.main, Logged')
    BY <1>1, <1>4, <2>1, ReportedStays DEF AllReported
  <2>4. ReportedIn(NoFacts, facts.main, Logged') BY NoFactsTyped, NothingNew
  <2> QED BY <1>6, <2>2, <2>3, <2>4 DEF AllReported
<1>9. LoggedFirst'
  <2>1. \A h \in Hooks : tx'[h].at # "idle" => tx'[h].d # None
    BY <1>1, <1>3 DEF LoggedFirst, Idle, Procs
  <2>2. \A q \in Procs : tx'[q].d # None =>
          /\ tx'[q].d.kind \in githubKinds => tx'[q].d \in Logged'
          /\ tx'[q].at = "apply" => tx'[q].d.kind \in githubKinds
    BY <1>1, <1>3, <1>4 DEF LoggedFirst
  <2>3. ASSUME NEW q \in Procs, tx'[q].d # None, tx'[q].d.kind = "flux"
        PROVE  tx'[q].d \notin Logged' /\ \A k \in Procs : tx'[k].d = tx'[q].d => k = q
    <3>1. "flux" \notin githubKinds BY DEF githubKinds
    <3>2. tx'[q] = tx[q] BY <1>3, <2>3, <3>1
    <3>3. tx[q].d \notin Logged /\ \A k \in Procs : tx[k].d = tx[q].d => k = q
      BY <1>1, <2>3, <3>2 DEF LoggedFirst
    <3>4. tx[q].d \notin Logged' BY <1>4, <2>3, <3>1, <3>2, <3>3
    <3>5. \A k \in Procs : tx'[k].d = tx[q].d => tx'[k] = tx[k]
      BY <1>3, <2>3, <3>1, <3>2
    <3> QED BY <3>2, <3>3, <3>4, <3>5
  <2>4. applied' \subseteq Logged' BY <1>1, <1>4 DEF LoggedFirst
  <2>5. \A i \in batch' : log'[i].kind \in githubKinds BY <1>4
  <2> QED BY <1>4, <2>1, <2>2, <2>3, <2>4, <2>5 DEF LoggedFirst, Idle
<1>10. Effective' BY <1>1, <1>3 DEF Effective
<1> QED BY <1>5, <1>7, <1>8, <1>9, <1>10 DEF IngestInv

-----------------------------------------------------------------------------
\* Resolving and committing.
LEMMA MovedForward ==
    ASSUME Typed, Backed, NEW p \in Procs, NEW t \in Tasks
    PROVE  LET f == Join(facts, tx[p].delta)
           IN  /\ Moved(p, f, t) \in States /\ BackedBy(f, t, Moved(p, f, t))
               /\ rank(state[t]) <= rank(Moved(p, f, t))
<1> DEFINE f == Join(facts, tx[p].delta)
<1>1. facts \in Facts /\ tx[p].delta \in Facts /\ state[t] \in States /\ doneState \in States
  BY DEF Typed, Txs
<1>2. f \in Facts BY <1>1, Joined
<1>3. BackedBy(facts, t, state[t]) BY DEF Backed, BackedBy
<1>4. BackedBy(f, t, state[t]) BY <1>1, <1>3, BackedStays
<1> HIDE DEF f
<1> DEFINE m == Moved(p, f, t)
<1>5. CASE m = state[t]
  <2>1. rank(state[t]) <= rank(state[t]) BY DEF rank
  <2> QED BY <1>1, <1>4, <1>5, <2>1 DEF f
<1>6. CASE m = "in_review" /\ state[t] = "in_progress"
  BY <1>6 DEF f, BackedBy, rank, States, openStates, deliveredStates
<1>7. CASE m = ResolveDelivery(f, t, state[t], doneState)
  <2>1. m \in States /\ BackedBy(f, t, m) /\ rank(state[t]) <= rank(m)
    BY <1>1, <1>2, <1>4, <1>7, Resolution
  <2> QED BY <2>1 DEF f
<1> QED BY <1>5, <1>6, <1>7 DEF Moved

LEMMA FinishKeeps ==
    ASSUME IngestInv, NEW p \in Procs, Finish(p)
    PROVE  IngestInv'
<1> DEFINE d == tx[p].d
           g == tx[p].delta
<1>1. /\ Typed /\ IdsOnce /\ AllReported /\ LoggedFirst /\ Effective /\ Backed
  BY DEF IngestInv
<1>2. /\ tx[p].at = "resolve" /\ facts' = Join(facts, g)
      /\ state' = [t \in Tasks |-> Moved(p, facts', t)]
      /\ MarkEventApplied(p) /\ tx' = [tx EXCEPT ![p] = NoTx]
      /\ UNCHANGED <<doneState, sends, mapped, head, reopened, seq, phase, batch, faults>>
  BY DEF Finish, End, Step, envVars, runVars
<1>3. facts \in Facts /\ g \in Facts /\ tx \in [Procs -> Txs] /\ seq \in Nat
  BY <1>1 DEF Typed, Txs
<1>4. /\ facts' \in Facts
      /\ \A s \in Shas : facts'.main[s] = IF facts.main[s] = 0 THEN g.main[s] ELSE facts.main[s]
      /\ facts.attr \subseteq facts'.attr /\ facts.prs \subseteq facts'.prs
  BY <1>2, <1>3, Joined
<1>5. /\ NoTx \in Txs /\ NoTx.at = "idle" /\ NoTx.d = None /\ NoTx.delta = NoFacts
  BY NoFactsTyped DEF NoTx, Txs
<1>6. tx' \in [Procs -> Txs] /\ tx'[p] = NoTx /\ \A q \in Procs \ {p} : tx'[q] = tx[q]
  BY <1>2, <1>3, <1>5
<1>7. /\ log' \in Seq(Deliveries) /\ DOMAIN log \subseteq DOMAIN log' /\ Logged \subseteq Logged'
      /\ \A i \in DOMAIN log : log'[i] = log[i]
      /\ \A i, j \in DOMAIN log' : log'[i] = log'[j] => i = j
      /\ \A k \in Procs \ {p} : tx[k].d # None /\ tx[k].d.kind = "flux" => tx[k].d \notin Logged'
  <2>1. CASE d # None /\ d.kind = "flux"
    <3>1. d \in Deliveries \ Logged /\ \A k \in Procs : tx[k].d = d => k = p
      BY <1>1, <1>3, <2>1 DEF LoggedFirst, Txs
    <3>2. log' = Append(log, d) BY <1>2, <2>1 DEF MarkEventApplied
    <3>3. \A k \in Procs \ {p} : tx[k].d # None /\ tx[k].d.kind = "flux" => tx[k].d \notin Logged
      BY <1>1 DEF LoggedFirst
    <3> QED BY <1>1, <3>1, <3>2, <3>3, Appended
  <2>2. CASE ~(d # None /\ d.kind = "flux")
    <3>1. log' = log BY <1>2, <2>2 DEF MarkEventApplied
    <3>2. Logged' = Logged BY <3>1 DEF Logged
    <3> QED BY <1>1, <3>1, <3>2 DEF Typed, LoggedFirst
  <2> QED BY <2>1, <2>2
<1>8. Typed'
  <2>1. state' \in [Tasks -> States] BY <1>1, <1>2, MovedForward
  <2>2. \A q \in Procs : tx'[q].at # "resolve" => tx'[q].delta = NoFacts
    BY <1>1, <1>5, <1>6 DEF Typed
  <2> QED BY <1>1, <1>2, <1>4, <1>6, <1>7, <2>1, <2>2 DEF Typed
<1>9. IdsOnce'
  <2>1. \A s \in Shas : facts.main[s] \in Nat /\ g.main[s] \in Nat BY <1>3 DEF Facts
  <2>2. \A s \in Shas : g.main[s] # 0 =>
           /\ g.main[s] <= seq /\ s \in Main /\ facts.main[s] = 0
           /\ \A r \in Shas : facts.main[r] # g.main[s]
           /\ \A q \in Procs, r \in Shas : tx[q].delta.main[r] = g.main[s] => q = p /\ r = s
           /\ \A q \in Procs \ {p} : tx[q].delta.main[s] = 0
    BY <1>1 DEF IdsOnce
  <2>3. \A s \in Shas : facts'.main[s] # 0 => facts'.main[s] <= seq' /\ s \in Main
    BY <1>1, <1>2, <1>4, <2>2 DEF IdsOnce
  <2>4. \A s, r \in Shas : facts'.main[s] = facts'.main[r] => s = r \/ facts'.main[s] = 0
    <3> SUFFICES ASSUME NEW s \in Shas, NEW r \in Shas, facts'.main[s] = facts'.main[r],
                        facts'.main[s] # 0
                 PROVE  s = r
      OBVIOUS
    <3>1. CASE facts.main[s] # 0 /\ facts.main[r] # 0 BY <1>1, <1>4, <3>1 DEF IdsOnce
    <3>2. CASE facts.main[s] = 0 /\ facts.main[r] = 0 BY <1>4, <2>2, <3>2
    <3>3. CASE facts.main[s] # 0 /\ facts.main[r] = 0 BY <1>4, <2>2, <3>3
    <3>4. CASE facts.main[s] = 0 /\ facts.main[r] # 0 BY <1>4, <2>2, <3>4
    <3> QED BY <3>1, <3>2, <3>3, <3>4
  <2>5. \A s \in Shas : tx'[p].delta.main[s] = 0 BY <1>5, <1>6, NoFactsTyped
  <2>6. ASSUME NEW k \in Procs, NEW s \in Shas, tx'[k].delta.main[s] # 0
        PROVE  /\ tx'[k].delta.main[s] <= seq' /\ s \in Main /\ facts'.main[s] = 0
               /\ \A r \in Shas : facts'.main[r] # tx'[k].delta.main[s]
               /\ \A q \in Procs, r \in Shas :
                     tx'[q].delta.main[r] = tx'[k].delta.main[s] => q = k /\ r = s
               /\ \A q \in Procs \ {k} : tx'[q].delta.main[s] = 0
    <3>1. k # p /\ tx'[k] = tx[k] /\ tx[k].delta.main[s] # 0 BY <1>6, <2>5, <2>6
    <3>2. /\ tx[k].delta.main[s] <= seq /\ s \in Main /\ facts.main[s] = 0
          /\ \A r \in Shas : facts.main[r] # tx[k].delta.main[s]
          /\ \A q \in Procs, r \in Shas :
                tx[q].delta.main[r] = tx[k].delta.main[s] => q = k /\ r = s
          /\ \A q \in Procs \ {k} : tx[q].delta.main[s] = 0
      BY <1>1, <3>1 DEF IdsOnce
    <3>3. g.main[s] = 0 /\ \A r \in Shas : g.main[r] # tx[k].delta.main[s]
      BY <3>1, <3>2
    <3>4. facts'.main[s] = 0 /\ \A r \in Shas : facts'.main[r] # tx[k].delta.main[s]
      BY <1>4, <3>2, <3>3
    <3>5. \A q \in Procs, r \in Shas :
             tx'[q].delta.main[r] = tx[k].delta.main[s] => q = k /\ r = s
      BY <1>6, <2>5, <3>1, <3>2
    <3>6. \A q \in Procs \ {k} : tx'[q].delta.main[s] = 0 BY <1>6, <2>5, <3>2
    <3> QED BY <1>2, <3>1, <3>2, <3>4, <3>5, <3>6
  <2> QED BY <2>3, <2>4, <2>6 DEF IdsOnce
<1>10. AllReported'
  <2>1. Logged \subseteq Deliveries BY <1>1 DEF Logged, Typed
  <2>2. \A s \in Shas : facts.main[s] # 0 => facts'.main[s] = facts.main[s] BY <1>4
  <2>3. ReportedIn(facts', facts.main, Logged) BY <1>1, <1>2, <1>3, ReportedJoin DEF AllReported
  <2>4. ReportedIn(facts', facts'.main, Logged')
    BY <1>7, <2>1, <2>2, <2>3, ReportedStays
  <2>5. \A q \in Procs : ReportedIn(tx[q].delta, facts'.main, Logged')
    BY <1>1, <1>7, <2>1, <2>2, ReportedStays DEF AllReported
  <2>6. ReportedIn(NoFacts, facts'.main, Logged') BY NoFactsTyped, NothingNew
  <2> QED BY <1>5, <1>6, <2>4, <2>5, <2>6 DEF AllReported
<1>11. LoggedFirst'
  <2>1. applied' \subseteq Logged'
    BY <1>1, <1>2, <1>7 DEF LoggedFirst, MarkEventApplied
  <2>2. \A i \in batch' : log'[i].kind \in githubKinds
    BY <1>1, <1>2, <1>7 DEF LoggedFirst, Typed
  <2>3. \A h \in Hooks : tx'[h].at # "idle" => tx'[h].d # None
    BY <1>1, <1>5, <1>6 DEF LoggedFirst, Idle, Procs
  <2>4. \A q \in Procs : tx'[q].d # None => q # p /\ tx'[q] = tx[q] BY <1>5, <1>6
  <2>5. \A q \in Procs : tx'[q].d # None =>
          /\ tx'[q].d.kind \in githubKinds => tx'[q].d \in Logged'
          /\ tx'[q].at = "apply" => tx'[q].d.kind \in githubKinds
    BY <1>1, <1>7, <2>4 DEF LoggedFirst
  <2>6. ASSUME NEW q \in Procs, tx'[q].d # None, tx'[q].d.kind = "flux"
        PROVE  tx'[q].d \notin Logged' /\ \A k \in Procs : tx'[k].d = tx'[q].d => k = q
    <3>1. q # p /\ tx'[q] = tx[q] BY <2>4, <2>6
    <3>2. \A k \in Procs : tx'[k].d = tx'[q].d => tx'[k] = tx[k] BY <2>4, <2>6
    <3> QED BY <1>1, <1>7, <2>6, <3>1, <3>2 DEF LoggedFirst
  <2> QED BY <1>7, <2>1, <2>2, <2>3, <2>5, <2>6 DEF LoggedFirst, Idle
<1>12. Effective'
  <2>1. \A s \in Shas : facts.main[s] # 0 => facts'.main[s] # 0 BY <1>4
  <2>2. applied \subseteq Deliveries BY <1>1 DEF LoggedFirst, Logged, Typed
  <2>3. \A e \in applied : Effect(facts', e, reopened)
    BY <1>1, <1>3, <1>4, <2>1, <2>2, EffectStays DEF Effective
  <2>4. \A e \in applied' : Effect(facts', e, reopened)
    BY <1>1, <1>2, <2>3 DEF Effective, MarkEventApplied
  <2>5. ASSUME NEW k \in Procs, tx'[k].at = "resolve", tx'[k].d # None
        PROVE  Effect(Join(facts', tx'[k].delta), tx'[k].d, reopened)
    <3> DEFINE c == tx[k].delta
               a == Join(facts, c)
               b == Join(facts', c)
    <3>1. k # p /\ tx'[k] = tx[k] BY <1>5, <1>6, <2>5
    <3>2. c \in Facts /\ tx[k].d \in Deliveries BY <1>3, <2>5, <3>1 DEF Txs
    <3>3. Effect(a, tx[k].d, reopened) BY <1>1, <2>5, <3>1 DEF Effective
    <3>4. /\ a \in Facts /\ b \in Facts
          /\ \A s \in Shas : a.main[s] # 0 => b.main[s] # 0
          /\ a.prs \subseteq b.prs /\ a.attr \subseteq b.attr
      BY <1>3, <1>4, <2>1, <3>2, Joined
    <3> HIDE DEF a, b
    <3>5. Effect(b, tx[k].d, reopened) BY <3>2, <3>3, <3>4, EffectStays
    <3> QED BY <3>1, <3>5 DEF b
  <2> QED BY <1>2, <2>4, <2>5 DEF Effective
<1>13. Backed'
  <2>1. \A t \in Tasks : BackedBy(facts', t, state'[t]) BY <1>1, <1>2, MovedForward
  <2> QED BY <2>1 DEF Backed, BackedBy
<1> QED BY <1>8, <1>9, <1>10, <1>11, <1>12, <1>13 DEF IngestInv

\* A reopening takes the task's commits and its state away together.
LEMMA ReopenKeeps ==
    ASSUME IngestInv, NEW t \in Tasks, reopenTask(t)
    PROVE  IngestInv'
<1>1. /\ Typed /\ IdsOnce /\ AllReported /\ LoggedFirst /\ Effective /\ Backed
  BY DEF IngestInv
<1> DEFINE a == {pr \in facts.attr : pr[1] # t}
<1>2. /\ state' = [state EXCEPT ![t] = "ready"] /\ facts' = [facts EXCEPT !.attr = a]
      /\ reopened' = [reopened EXCEPT ![t] = @ + 1]
      /\ UNCHANGED <<log, applied, doneState, sends, mapped, head, seq, phase, batch, tx, faults>>
  BY DEF reopenTask, runVars
<1>3. /\ facts \in Facts /\ tx \in [Procs -> Txs] /\ state \in [Tasks -> States]
      /\ reopened \in [Tasks -> Nat]
  BY <1>1 DEF Typed
<1>4. /\ facts' \in Facts /\ facts'.main = facts.main /\ facts'.alias = facts.alias
      /\ facts'.prs = facts.prs /\ facts'.gh = facts.gh /\ facts'.release = facts.release
      /\ facts'.attr = a
  BY <1>2, <1>3 DEF Facts
<1>5. \A u \in Tasks : reopened'[u] = 0 => u # t /\ reopened[u] = 0 BY <1>2, <1>3
<1>6. \A u \in Tasks, s \in Shas : u # t /\ <<u, s>> \in facts.attr => <<u, s>> \in facts'.attr
  BY <1>4
<1> HIDE DEF a
<1>7. Logged' = Logged BY <1>2 DEF Logged
<1>8. Typed'
  <2>1. state' \in [Tasks -> States] /\ reopened' \in [Tasks -> Nat]
    BY <1>2, <1>3 DEF States, openStates
  <2> QED BY <1>1, <1>2, <1>4, <2>1 DEF Typed
<1>9. IdsOnce' BY <1>1, <1>2, <1>4 DEF IdsOnce
<1>10. AllReported' BY <1>1, <1>2, <1>4, <1>7 DEF AllReported, ReportedIn
<1>11. LoggedFirst' BY <1>1, <1>2, <1>7 DEF LoggedFirst, Idle
<1>12. Effective'
  <2>1. ASSUME NEW f \in Facts, NEW h \in Facts, NEW d \in Deliveries,
               Effect(f, d, reopened), f.prs = h.prs,
               \A s \in Shas : h.main[s] = f.main[s],
               \A u \in Tasks, s \in Shas : u # t /\ <<u, s>> \in f.attr => <<u, s>> \in h.attr
        PROVE  Effect(h, d, reopened')
    BY <2>1, <1>5, KindsAssumption DEF Effect
  <2>2. applied \subseteq Deliveries BY <1>1 DEF LoggedFirst, Logged, Typed
  <2>3. \A e \in applied' : Effect(facts', e, reopened')
    BY <1>1, <1>2, <1>3, <1>4, <1>6, <2>1, <2>2 DEF Effective
  <2>4. ASSUME NEW k \in Procs, tx[k].at = "resolve", tx[k].d # None
        PROVE  Effect(Join(facts', tx[k].delta), tx[k].d, reopened')
    <3> DEFINE f == Join(facts, tx[k].delta)
               h == Join(facts', tx[k].delta)
    <3>1. tx[k].delta \in Facts /\ tx[k].d \in Deliveries BY <1>3, <2>4 DEF Txs
    <3>2. Effect(f, tx[k].d, reopened) BY <1>1, <2>4 DEF Effective
    <3>3. /\ f \in Facts /\ h \in Facts
          /\ f.prs = facts.prs \union tx[k].delta.prs
          /\ h.prs = facts'.prs \union tx[k].delta.prs
          /\ f.attr = facts.attr \union tx[k].delta.attr
          /\ h.attr = facts'.attr \union tx[k].delta.attr
      BY <1>3, <1>4, <3>1, Joined
    <3>6. \A s \in Shas : h.main[s] = f.main[s]
      BY <1>3, <1>4, <3>1, Joined
    <3>7. f.prs = h.prs BY <1>4, <3>3
    <3> HIDE DEF f, h
    <3>4. \A u \in Tasks, s \in Shas : u # t /\ <<u, s>> \in f.attr => <<u, s>> \in h.attr
      BY <1>6, <3>3
    <3>5. Effect(h, tx[k].d, reopened') BY <2>1, <3>1, <3>2, <3>3, <3>4, <3>6, <3>7
    <3> QED BY <3>5 DEF h
  <2> QED BY <1>2, <2>3, <2>4 DEF Effective
<1>13. Backed'
  <2> SUFFICES ASSUME NEW u \in Tasks, state'[u] \in deliveredStates
               PROVE  BackedBy(facts', u, state'[u])
    BY DEF Backed, BackedBy
  <2>1. u # t /\ state'[u] = state[u] BY <1>2, <1>3 DEF deliveredStates
  <2>2. BackedBy(facts, u, state[u]) BY <1>1 DEF Backed, BackedBy
  <2>3. LandedIds(facts, u) \subseteq LandedIds(facts', u)
    BY <1>4, <1>6, <2>1 DEF LandedIds
  <2> QED BY <1>4, <2>1, <2>2, <2>3 DEF BackedBy
<1> QED BY <1>8, <1>9, <1>10, <1>11, <1>12, <1>13 DEF IngestInv

-----------------------------------------------------------------------------
\* The actions.

\* An apply, of a recorded delivery or in the transaction that records it.
LEMMA ApplyKeeps ==
    ASSUME IngestInv, NEW p \in Procs, NEW d \in Deliveries, Apply(p, d), Ready(p, d),
           UNCHANGED <<storeVars, envVars, faults>>,
           phase' \in {"rest", "replay"}, batch' \subseteq batch
    PROVE  IngestInv'
<1> DEFINE w == Writes(d)
           todo == Affected(d, Join(facts, w))
           r == [NoTx EXCEPT !.d = d, !.todo = todo]
<1>1. Typed /\ IdsOnce /\ AllReported BY DEF IngestInv
<1>2. d # None BY NoneAssumption
<1>3. d.kind \in githubKinds => d \in Logged BY <1>2 DEF Ready
<1>4. Wrote(w, d) BY <1>1, <1>3, Applying
<1>5. todo \in SUBSET Tasks BY AffectedTyped
<1>6. Written(p, r, w) BY DEF Apply
<1> HIDE DEF w, todo
<1>7. r \in Txs /\ r.d = d BY <1>5, NoFactsTyped DEF NoTx, Txs
<1> HIDE DEF r
<1> QED BY <1>2, <1>4, <1>6, <1>7, WrittenKeeps DEF Wrote

LEMMA ReceiveGitHubKeeps ==
    ASSUME IngestInv, NEW h \in Hooks, NEW d \in sends, ReceiveGitHub(h, d)
    PROVE  IngestInv'
<1> DEFINE r == [NoTx EXCEPT !.at = "apply", !.d = d]
<1>1. Typed /\ LoggedFirst /\ Backed BY DEF IngestInv
<1>2. h \in Procs /\ d \in Deliveries /\ d # None
  BY <1>1, NoneAssumption DEF Typed, Procs
<1>3. /\ d.kind \in githubKinds
      /\ log' = IF d \in Logged THEN log ELSE Append(log, d)
      /\ tx' = tx \/ tx' = [tx EXCEPT ![h] = r]
      /\ UNCHANGED <<facts, state, applied, doneState, sends, mapped, head, reopened, seq,
                     phase, batch, faults>>
  BY DEF ReceiveGitHub, Step, envVars, runVars
<1>4. r \in Txs /\ r.at = "apply" /\ r.d = d /\ r.delta = NoFacts
  BY <1>2, NoFactsTyped DEF NoTx, Txs
<1>5. log' = log \/ \E e \in Deliveries \ Logged : e.kind \in githubKinds /\ log' = Append(log, e)
  BY <1>2, <1>3
<1>6. d \in Logged'
  <2>1. CASE d \in Logged BY <1>3, <2>1 DEF Logged
  <2>2. CASE d \notin Logged BY <1>1, <1>2, <1>3, <2>2, Appended
  <2> QED BY <2>1, <2>2
<1>7. Backed' BY <1>1, <1>3 DEF Backed
<1> HIDE DEF r
<1>8. /\ state' \in [Tasks -> States] /\ sends' \subseteq Deliveries /\ doneState' \in States
      /\ mapped' \in BOOLEAN /\ head' \in Nat /\ faults' \in Nat
      /\ phase' \in {"rest", "replay"} /\ batch' \subseteq DOMAIN log
      /\ \A i \in batch' : log[i].kind \in githubKinds
  BY <1>1, <1>3 DEF Typed, LoggedFirst
<1> QED BY <1>2, <1>3, <1>4, <1>5, <1>6, <1>7, <1>8, QuietKeeps

LEMMA ApplyGitHubKeeps ==
    ASSUME IngestInv, NEW h \in Hooks, ApplyGitHub(h)
    PROVE  IngestInv'
<1>1. Typed /\ LoggedFirst BY DEF IngestInv
<1>2. /\ tx[h].at = "apply" /\ Apply(h, tx[h].d)
      /\ UNCHANGED <<storeVars, envVars, faults>> /\ UNCHANGED <<phase, batch>>
  BY DEF ApplyGitHub, runVars
<1>3. h \in Procs /\ tx[h] \in Txs BY <1>1 DEF Typed, Procs
<1>4. tx[h].d # None BY <1>1, <1>2 DEF LoggedFirst, Idle
<1>5. tx[h].d \in Deliveries BY <1>3, <1>4 DEF Txs
<1>6. tx[h].d.kind \in githubKinds /\ tx[h].d \in Logged
  BY <1>1, <1>2, <1>3, <1>4 DEF LoggedFirst
<1>7. Ready(h, tx[h].d) BY <1>5, <1>6 DEF Ready, githubKinds
<1>8. phase' \in {"rest", "replay"} /\ batch' \subseteq batch BY <1>1, <1>2 DEF Typed
<1> QED BY <1>2, <1>3, <1>5, <1>7, <1>8, ApplyKeeps

LEMMA ReceiveFluxKeeps ==
    ASSUME IngestInv, NEW h \in Hooks, NEW d \in sends, ReceiveFlux(h, d)
    PROVE  IngestInv'
<1>1. Typed BY DEF IngestInv
<1>2. /\ d.kind = "flux" /\ d \notin Logged /\ \A q \in Procs : tx[q].d # d
      /\ Apply(h, d) /\ UNCHANGED <<storeVars, envVars, faults>> /\ UNCHANGED <<phase, batch>>
  BY DEF ReceiveFlux, runVars
<1>3. h \in Procs /\ d \in Deliveries BY <1>1 DEF Typed, Procs
<1>4. Ready(h, d) BY <1>2, <1>3 DEF Ready, githubKinds
<1>5. phase' \in {"rest", "replay"} /\ batch' \subseteq batch BY <1>1, <1>2 DEF Typed
<1> QED BY <1>2, <1>3, <1>4, <1>5, ApplyKeeps

LEMMA RecordLocalMergeKeeps ==
    ASSUME IngestInv, NEW h \in Hooks, NEW d \in sends, RecordLocalMerge(h, d)
    PROVE  IngestInv'
<1>1. Typed BY DEF IngestInv
<1>2. /\ d.kind = "local" /\ Apply(h, d)
      /\ UNCHANGED <<storeVars, envVars, faults>> /\ UNCHANGED <<phase, batch>>
  BY DEF RecordLocalMerge, runVars
<1>3. h \in Procs /\ d \in Deliveries BY <1>1 DEF Typed, Procs
<1>4. Ready(h, d) BY <1>2, <1>3 DEF Ready, githubKinds
<1>5. phase' \in {"rest", "replay"} /\ batch' \subseteq batch BY <1>1, <1>2 DEF Typed
<1> QED BY <1>2, <1>3, <1>4, <1>5, ApplyKeeps

\* Steps that leave the facts, the log and the tasks alone.
LEMMA ChoosesKeeps ==
    ASSUME IngestInv, NEW p \in Procs, NEW r \in Txs, r.at # "resolve", r.delta = NoFacts,
           tx' = tx \/ tx' = [tx EXCEPT ![p] = r],
           r.d = None, p \in Hooks => r.at = "idle",
           UNCHANGED <<storeVars, envVars, seq>>, faults' \in Nat,
           phase' \in {"rest", "replay"}, batch' \subseteq DOMAIN log,
           \A i \in batch' : log[i].kind \in githubKinds
    PROVE  IngestInv'
<1>1. Typed /\ Backed BY DEF IngestInv
<1>2. UNCHANGED <<facts, state, log, applied, doneState, sends, mapped, head, reopened, seq>>
  BY DEF storeVars, envVars
<1>3. Backed' BY <1>1, <1>2 DEF Backed
<1>4. /\ state' \in [Tasks -> States] /\ sends' \subseteq Deliveries /\ doneState' \in States
      /\ mapped' \in BOOLEAN /\ head' \in Nat
  BY <1>1, <1>2 DEF Typed
<1> QED BY <1>2, <1>3, <1>4, QuietKeeps

LEMMA NoTxTyped ==
    NoTx \in Txs /\ NoTx.at = "idle" /\ NoTx.d = None /\ NoTx.delta = NoFacts
BY NoFactsTyped DEF NoTx, Txs

LEMMA AbortKeeps ==
    ASSUME IngestInv, NEW p \in Procs, Abort(p)
    PROVE  IngestInv'
<1>1. Typed /\ LoggedFirst BY DEF IngestInv
<1>2. /\ tx' = [tx EXCEPT ![p] = NoTx] /\ faults' = faults + 1
      /\ UNCHANGED <<storeVars, envVars, seq>> /\ UNCHANGED <<phase, batch>>
  BY DEF Abort, End, Step, runVars
<1>3. /\ faults' \in Nat /\ phase' \in {"rest", "replay"} /\ batch' \subseteq DOMAIN log
      /\ \A i \in batch' : log[i].kind \in githubKinds
  BY <1>1, <1>2 DEF Typed, LoggedFirst
<1> QED BY <1>2, <1>3, NoTxTyped, ChoosesKeeps

LEMMA StartReplayKeeps ==
    ASSUME IngestInv, StartReplay
    PROVE  IngestInv'
<1>1. Typed BY DEF IngestInv
<1>2. /\ tx' = tx /\ phase' = "replay" /\ batch' = Oldest(Unapplied) /\ faults' = faults
      /\ UNCHANGED <<storeVars, envVars, seq>>
  BY DEF StartReplay
<1>3. batch' \subseteq DOMAIN log /\ \A i \in batch' : log[i].kind \in githubKinds
  BY <1>2 DEF Oldest, Unapplied
<1>4. faults' \in Nat BY <1>1, <1>2 DEF Typed
<1>5. Reconciler \in Procs BY DEF Procs
<1> QED BY <1>2, <1>3, <1>4, <1>5, NoTxTyped, ChoosesKeeps

LEMMA ReplayNextKeeps ==
    ASSUME IngestInv, ReplayNext
    PROVE  IngestInv'
<1>1. Typed /\ LoggedFirst BY DEF IngestInv
<1>2. PICK i \in batch :
        /\ batch' = batch \ {i}
        /\ IF Routed(log[i]) THEN Apply(Reconciler, log[i]) ELSE UNCHANGED <<seq, tx>>
  BY DEF ReplayNext
<1>3. /\ UNCHANGED <<storeVars, envVars, faults>> /\ phase' = phase
  BY DEF ReplayNext
<1>4. /\ phase' \in {"rest", "replay"} /\ batch' \subseteq batch /\ faults' \in Nat
      /\ batch' \subseteq DOMAIN log /\ \A j \in batch' : log[j].kind \in githubKinds
  BY <1>1, <1>2, <1>3 DEF Typed, LoggedFirst
<1>5. Reconciler \in Procs BY DEF Procs
<1>6. CASE Apply(Reconciler, log[i])
  <2>1. log[i] \in Logged /\ log[i] \in Deliveries /\ log[i].kind \in githubKinds
    BY <1>1 DEF Typed, LoggedFirst, Logged
  <2>2. Ready(Reconciler, log[i]) BY <2>1 DEF Ready, githubKinds
  <2> QED BY <1>3, <1>4, <1>5, <1>6, <2>1, <2>2, ApplyKeeps
<1>7. CASE UNCHANGED <<seq, tx>>
  BY <1>3, <1>4, <1>5, <1>7, NoTxTyped, ChoosesKeeps
<1> QED BY <1>2, <1>6, <1>7

LEMMA GatherRepoKeeps ==
    ASSUME IngestInv, GatherRepo
    PROVE  IngestInv'
<1> DEFINE merged == {<<t, PR[t]>> : t \in {u \in Candidates \intersect facts.prs : OnGitHub(PR[u])}}
           asked  == {pr[2] : pr \in {q \in facts.attr : q[1] \in Candidates} \union merged}
           landed == {s \in asked \intersect Main : OnGitHub(s) /\ facts.main[s] = 0}
           r == [NoTx EXCEPT !.at = "apply", !.pairs = merged, !.shas = landed, !.todo = Candidates]
<1>1. Typed BY DEF IngestInv
<1>2. /\ tx' = tx \/ tx' = [tx EXCEPT ![Reconciler] = r]
      /\ phase' = "rest" /\ batch = {} /\ batch' = batch /\ faults' = faults
      /\ UNCHANGED <<storeVars, envVars, seq>>
  BY DEF GatherRepo, Step
<1>3. Candidates \in SUBSET Tasks BY DEF Candidates
<1>4. merged \in SUBSET (Tasks \X Shas)
  <2>1. \A u \in Candidates \intersect facts.prs : u \in Tasks /\ PR[u] \in Shas
    BY <1>3, PRAssumption, MainAssumption
  <2> QED BY <2>1
<1>5. landed \in SUBSET Main OBVIOUS
<1> HIDE DEF merged, landed
<1>6. r \in Txs /\ r.at = "apply" /\ r.d = None /\ r.delta = NoFacts
  BY <1>3, <1>4, <1>5, NoFactsTyped DEF NoTx, Txs
<1> HIDE DEF r
<1>7. /\ faults' \in Nat /\ batch' \subseteq DOMAIN log
      /\ \A i \in batch' : log[i].kind \in githubKinds
  BY <1>1, <1>2 DEF Typed
<1>8. Reconciler \in Procs /\ Reconciler \notin Hooks BY ProcsAssumption DEF Procs
<1> QED BY <1>2, <1>6, <1>7, <1>8, ChoosesKeeps

\* The place of a commit among those the poll found, in git order: from 1 on,
\* and no two at one place.
LEMMA Places ==
    ASSUME NEW F \in SUBSET Shas
    PROVE  LET place(s) == Cardinality({c \in F : c <= s})
           IN  /\ Cardinality(F) \in Nat
               /\ \A s \in F : place(s) \in Nat /\ 1 <= place(s) /\ place(s) <= Cardinality(F)
               /\ \A s, r \in F : place(s) = place(r) => s = r
<1> DEFINE below(s) == {c \in F : c <= s}
           place(s) == Cardinality(below(s))
<1>1. IsFiniteSet(F) BY FS_Subset, MainAssumption
<1>2. Cardinality(F) \in Nat BY <1>1, FS_CardinalityType
<1>3. \A s \in F : s \in Nat BY MainAssumption
<1>4. ASSUME NEW s \in F
      PROVE  /\ IsFiniteSet(below(s)) /\ place(s) \in Nat
             /\ 1 <= place(s) /\ place(s) <= Cardinality(F)
  <2>1. below(s) \in SUBSET F /\ s \in below(s) BY <1>3
  <2>2. IsFiniteSet(below(s)) /\ place(s) <= Cardinality(F) BY <1>1, <2>1, FS_Subset
  <2>3. place(s) \in Nat BY <2>2, FS_CardinalityType
  <2>4. place(s) # 0 BY <2>1, <2>2, FS_EmptySet
  <2> QED BY <2>2, <2>3, <2>4
<1>5. ASSUME NEW s \in F, NEW r \in F, s < r PROVE place(s) # place(r)
  <2>1. below(s) \in SUBSET below(r) BY <1>3, <1>5
  <2>2. r \in below(r) /\ r \notin below(s) BY <1>3, <1>5
  <2>3. IsFiniteSet(below(r)) BY <1>4
  <2> HIDE DEF below
  <2> QED BY <2>1, <2>2, <2>3, FS_Subset
<1>6. ASSUME NEW s \in F, NEW r \in F, place(s) = place(r) PROVE s = r
  <2>1. ~(s < r) /\ ~(r < s) BY <1>5, <1>6
  <2> QED BY <1>3, <2>1
<1> QED BY <1>2, <1>4, <1>6

LEMMA ApplyFactsKeeps ==
    ASSUME IngestInv, ApplyFacts
    PROVE  IngestInv'
<1> DEFINE r == tx[Reconciler]
           fresh == {s \in r.shas : MainIDForSHA(facts, s) = 0}
           place(s) == Cardinality({c \in fresh : c <= s})
           m == [s \in Shas |-> IF s \in fresh THEN seq + place(s) ELSE 0]
           w == [NewAttr(r.pairs) EXCEPT !.prs = r.todo \intersect facts.prs, !.main = m]
           rels == {MainIDForSHA(Join(facts, w), d.sha) :
                      d \in {e \in sends \ Foreign : e.kind = "release" /\ e.named /\ OnGitHub(e.sha)}}
                   \union {0}
           i == CHOOSE x \in rels : \A j \in rels : j <= x
           v == [w EXCEPT !.release = i]
<1>1. Typed /\ IdsOnce /\ AllReported BY DEF IngestInv
<1>2. /\ r.d = None /\ Written(Reconciler, r, v)
      /\ UNCHANGED <<storeVars, envVars, faults>> /\ UNCHANGED <<phase, batch>>
  BY DEF ApplyFacts, runVars
<1>3. Reconciler \in Procs /\ Reconciler \notin Hooks BY ProcsAssumption DEF Procs
<1>4. r \in Txs /\ facts \in Facts /\ seq \in Nat /\ sends \subseteq Deliveries
  BY <1>1, <1>3 DEF Typed
<1>5. /\ r.pairs \in SUBSET (Tasks \X Shas) /\ fresh \in SUBSET Main /\ fresh \in SUBSET Shas
      /\ r.todo \in SUBSET Tasks
  BY <1>4, MainAssumption DEF Txs
<1>6. \A s \in fresh : facts.main[s] = 0
  <2>1. \A s \in fresh : MainIDForSHA(facts, s) = 0 OBVIOUS
  <2> QED BY <2>1, <1>4, <1>5 DEF MainIDForSHA, coalesce, Facts
<1> DEFINE n == Cardinality(fresh)
<1> HIDE DEF r, fresh
<1>7. /\ n \in Nat /\ \A s \in fresh : place(s) \in Nat /\ 1 <= place(s) /\ place(s) <= n
      /\ \A s, t \in fresh : place(s) = place(t) => s = t
  BY <1>5, Places
<1> HIDE DEF place, n
<1>8. /\ m \in [Shas -> Nat]
      /\ \A s \in Shas : m[s] # 0 => s \in fresh /\ seq < m[s] /\ m[s] <= seq + n
      /\ \A s \in fresh : m[s] # 0
      /\ \A s, t \in Shas : m[s] = m[t] => s = t \/ m[s] = 0
  BY <1>4, <1>5, <1>7
<1> HIDE DEF m
<1>9. /\ w \in Facts /\ w.main = m /\ w.alias = NoFacts.alias /\ w.gh = NoFacts.gh
  <2> DEFINE a == NewAttr(r.pairs)
  <2>1. a \in Facts /\ a.alias = NoFacts.alias /\ a.gh = NoFacts.gh BY <1>5, NewAttrTyped
  <2>2. r.todo \intersect facts.prs \in SUBSET Tasks BY <1>5
  <2>3. w = [a EXCEPT !.prs = r.todo \intersect facts.prs, !.main = m] BY DEF w
  <2> HIDE DEF a
  <2> QED BY <1>8, <2>1, <2>2, <2>3 DEF Facts
<1> HIDE DEF w
<1>10. i \in Nat
  <2> DEFINE f == Join(facts, w)
  <2>1. \A s \in Shas : MainIDForSHA(f, s) \in Nat /\ MainIDForSHA(f, s) <= seq + n
    <3> SUFFICES ASSUME NEW s \in Shas
                 PROVE  MainIDForSHA(f, s) \in Nat /\ MainIDForSHA(f, s) <= seq + n
      OBVIOUS
    <3>1. f \in Facts /\ f.main[s] \in Nat /\ f.alias[s] \in Nat
      BY <1>4, <1>9, Joined DEF Facts
    <3>2. f.main[s] = IF facts.main[s] = 0 THEN m[s] ELSE facts.main[s]
      BY <1>4, <1>9, Joined
    <3>3. f.main[s] <= seq + n
      BY <1>1, <1>4, <1>5, <1>7, <1>8, <3>2, Named
    <3>4. f.alias[s] = facts.alias[s]
      BY <1>4, <1>9, NoFactsTyped, Joined
    <3>5. Source[s] \in Shas BY SourceAssumption, MainAssumption
    <3>6. f.alias[s] <= seq + n
      <4>1. facts.alias[s] # 0 => facts.alias[s] = facts.main[Source[s]]
        BY <1>1 DEF AllReported, ReportedIn
      <4>2. facts.main[Source[s]] <= seq /\ facts.main[Source[s]] \in Nat
        BY <1>1, <3>5, Named
      <4> QED BY <1>4, <1>7, <3>4, <4>1, <4>2
    <3> QED BY <3>1, <3>3, <3>6 DEF MainIDForSHA, coalesce
  <2>2. \A d \in sends : d.sha \in Shas BY <1>4, KindsAssumption
  <2> HIDE DEF f
  <2>3. rels \in SUBSET Nat /\ rels # {} /\ \A j \in rels : j <= seq + n
    BY <1>4, <1>7, <2>1, <2>2 DEF f
  <2>4. seq + n \in Nat BY <1>4, <1>7
  <2> HIDE DEF rels
  <2>5. i \in rels BY <2>3, <2>4, Greatest
  <2> QED BY <2>3, <2>5
<1> HIDE DEF i
<1>11. v \in Facts /\ v.main = m /\ v.alias = NoFacts.alias /\ v.gh = NoFacts.gh
  BY <1>9, <1>10 DEF Facts
<1> HIDE DEF v
<1>12. FreshIds(v)
  <2>1. {s \in Shas : v.main[s] # 0} = fresh BY <1>5, <1>8, <1>11
  <2>2. Cardinality({s \in Shas : v.main[s] # 0}) = n BY <2>1 DEF n
  <2> QED BY <1>5, <1>6, <1>8, <1>11, <2>2 DEF FreshIds
<1>13. ReportedIn(v, facts.main, Logged) BY <1>11, NoFactsTyped DEF ReportedIn
<1>14. Ready(Reconciler, r.d) BY <1>2 DEF Ready
<1>15. phase' \in {"rest", "replay"} /\ batch' \subseteq batch BY <1>1, <1>2 DEF Typed
<1> QED BY <1>2, <1>3, <1>4, <1>11, <1>12, <1>13, <1>14, <1>15, WrittenKeeps

\* People, the repository's mapping and GitHub's branch.
LEMMA OthersKeep ==
    ASSUME IngestInv, MapRepo \/ Land \/ \E t \in Tasks : Claim(t) \/ Abandon(t)
    PROVE  IngestInv'
<1>1. Typed /\ LoggedFirst /\ Backed BY DEF IngestInv
<1>2. /\ UNCHANGED <<facts, log, applied, seq, reopened, phase, batch, tx, faults,
                     doneState, sends>>
  BY DEF MapRepo, Land, Claim, Abandon, storeVars, envVars, runVars
<1>3. state' \in [Tasks -> States] /\ \A t \in Tasks : state'[t] \in deliveredStates => state'[t] = state[t]
  <2>1. state \in [Tasks -> States] BY <1>1 DEF Typed
  <2>2. CASE MapRepo \/ Land BY <2>1, <2>2 DEF MapRepo, Land, storeVars
  <2>3. CASE \E t \in Tasks : Claim(t) \/ Abandon(t)
    BY <2>1, <2>3 DEF Claim, Abandon, States, openStates, deliveredStates
  <2> QED BY <2>2, <2>3
<1>4. mapped' \in BOOLEAN /\ head' \in Nat
  <2>1. mapped' = mapped \/ mapped' = TRUE
    <3>1. CASE MapRepo BY <3>1 DEF MapRepo
    <3>2. CASE Land BY <3>2 DEF Land
    <3>3. CASE \E t \in Tasks : Claim(t) \/ Abandon(t) BY <3>3 DEF Claim, Abandon, envVars
    <3> QED BY <3>1, <3>2, <3>3
  <2>2. head' = head \/ head' = head + 1
    <3>1. CASE MapRepo BY <3>1 DEF MapRepo
    <3>2. CASE Land BY <3>2 DEF Land
    <3>3. CASE \E t \in Tasks : Claim(t) \/ Abandon(t) BY <3>3 DEF Claim, Abandon, envVars
    <3> QED BY <3>1, <3>2, <3>3
  <2>3. mapped \in BOOLEAN /\ head \in Nat BY <1>1 DEF Typed
  <2>4. mapped' \in BOOLEAN BY <2>1, <2>3
  <2>5. head' \in Nat BY <2>2, <2>3
  <2> QED BY <2>4, <2>5
<1>5. Backed' BY <1>1, <1>2, <1>3 DEF Backed
<1>6. Reconciler \in Procs BY DEF Procs
<1>7. /\ sends' \subseteq Deliveries /\ doneState' \in States /\ faults' \in Nat
      /\ phase' \in {"rest", "replay"} /\ batch' \subseteq DOMAIN log
      /\ \A i \in batch' : log[i].kind \in githubKinds
  BY <1>1, <1>2 DEF Typed, LoggedFirst
<1> QED BY <1>2, <1>3, <1>4, <1>5, <1>6, <1>7, NoTxTyped, QuietKeeps

LEMMA InitEstablishes ==
    ASSUME Init
    PROVE  IngestInv
<1>1. /\ facts = NoFacts /\ seq = 0 /\ state = [t \in Tasks |-> "ready"]
      /\ log = <<>> /\ applied = {} /\ phase = "rest" /\ batch = {}
      /\ tx = [p \in Procs |-> NoTx]
      /\ head = 0 /\ reopened = [t \in Tasks |-> 0] /\ faults = 0
  BY DEF Init
<1>2. PICK sc \in Scenarios : sends = sc.sends /\ doneState = sc.doneState /\ mapped = sc.mapped
  BY DEF Init
<1>3. sends \subseteq Deliveries /\ doneState \in States /\ mapped \in BOOLEAN
  BY <1>2, ScenarioAssumption DEF Deliveries, States, deliveredStates
<1>4. \A p \in Procs : tx[p] = NoTx BY <1>1
<1>5. Typed
  <2>1. state \in [Tasks -> States] /\ reopened \in [Tasks -> Nat]
    BY <1>1 DEF States, openStates
  <2>2. tx \in [Procs -> Txs] BY <1>1, NoTxTyped
  <2>3. \A p \in Procs : tx[p].delta = NoFacts BY <1>4, NoTxTyped
  <2> QED BY <1>1, <1>3, <2>1, <2>2, <2>3, NoFactsTyped DEF Typed
<1>6. IdsOnce
  <2>1. \A p \in Procs, s \in Shas : tx[p].delta.main[s] = 0 BY <1>4, NoTxTyped, NoFactsTyped
  <2> QED BY <1>1, <2>1, NoFactsTyped DEF IdsOnce
<1>7. AllReported BY <1>1, <1>4, NoTxTyped, NoFactsTyped, NothingNew DEF AllReported
<1>8. LoggedFirst BY <1>1, <1>4, NoTxTyped DEF LoggedFirst, Idle, Procs
<1>9. Effective BY <1>1, <1>4, NoTxTyped DEF Effective
<1>10. Backed BY <1>1 DEF Backed, deliveredStates
<1> QED BY <1>5, <1>6, <1>7, <1>8, <1>9, <1>10 DEF IngestInv

LEMMA StutterKeeps ==
    ASSUME IngestInv, UNCHANGED vars
    PROVE  IngestInv'
<1>1. Typed /\ LoggedFirst BY DEF IngestInv
<1>2. /\ UNCHANGED <<storeVars, envVars, seq>> /\ UNCHANGED <<phase, batch, tx, faults>>
  BY DEF vars, runVars
<1>3. /\ faults' \in Nat /\ phase' \in {"rest", "replay"} /\ batch' \subseteq DOMAIN log
      /\ \A i \in batch' : log[i].kind \in githubKinds
  BY <1>1, <1>2 DEF Typed, LoggedFirst
<1>4. Reconciler \in Procs BY DEF Procs
<1> QED BY <1>2, <1>3, <1>4, NoTxTyped, ChoosesKeeps

LEMMA StepKeeps ==
    ASSUME IngestInv, [Next]_vars
    PROVE  IngestInv'
<1>1. CASE \E h \in Hooks : Receive(h)
  BY <1>1, ReceiveGitHubKeeps, ReceiveFluxKeeps, RecordLocalMergeKeeps DEF Receive
<1>2. CASE \E p \in Procs : Work(p) \/ Abort(p)
  BY <1>2, ApplyGitHubKeeps, ApplyFactsKeeps, FinishKeeps, AbortKeeps DEF Work
<1>3. CASE Reconcile BY <1>3, StartReplayKeeps, ReplayNextKeeps, GatherRepoKeeps DEF Reconcile
<1>4. CASE \E t \in Tasks : User(t) BY <1>4, OthersKeep, ReopenKeeps DEF User
<1>5. CASE MapRepo \/ Land BY <1>5, OthersKeep
<1>6. CASE UNCHANGED vars BY <1>6, StutterKeeps
<1> QED BY <1>1, <1>2, <1>3, <1>4, <1>5, <1>6 DEF Next

LEMMA Invariance == Spec => []IngestInv
<1>1. Init => IngestInv BY InitEstablishes
<1>2. IngestInv /\ [Next]_vars => IngestInv' BY StepKeeps
<1> QED BY <1>1, <1>2, PTL DEF Spec

-----------------------------------------------------------------------------
\* Main ids come from the sequence and are given once, by pushes, local merges
\* and polls that overlap as much as by committed ones (AppendMainCommit); the
\* log holds a delivery once, and only what is in it is marked applied.
THEOREM TypeCorrect == Spec => []TypeOK
<1>1. ASSUME IngestInv PROVE TypeOK
  <2>1. Typed /\ IdsOnce /\ LoggedFirst BY <1>1 DEF IngestInv
  <2>2. \A f \in Facts : FactsOk(f) BY DEF Facts, FactsOk
  <2>3. \A s \in Shas : facts.main[s] \in Nat /\ facts.main[s] <= seq
    BY <2>1 DEF Typed, IdsOnce, Facts
  <2>4. \A p \in Procs : TxOk(tx[p])
    <3> TAKE p \in Procs
    <3>1. tx[p] \in Txs /\ (tx[p].at # "resolve" => tx[p].delta = NoFacts) BY <2>1 DEF Typed
    <3> QED BY <3>1, <2>2 DEF Txs, TxOk
  <2>5. tx \in [Procs -> [at : {"idle", "apply", "resolve"}, d : Deliveries \union {None},
                          pairs : SUBSET (Tasks \X Shas), shas : SUBSET Main,
                          todo : SUBSET Tasks, delta : {tx[p].delta : p \in Procs}]]
    BY <2>1 DEF Typed, Txs
  <2> QED BY <2>1, <2>2, <2>3, <2>4, <2>5 DEF TypeOK, Typed, IdsOnce, LoggedFirst
<1> QED BY <1>1, Invariance, PTL

\* A delivery state rests on facts that are on record, whatever was resolved
\* meanwhile, reopened or lost with a process (ResolveDelivery, ClearTaskCommits).
THEOREM StatesBacked == Spec => []Backed
<1>1. IngestInv => Backed BY DEF IngestInv
<1> QED BY <1>1, Invariance, PTL

\* What the marker says was applied has had its whole effect (markApplied in
\* the transaction of the effects), so that the redelivery it skips, or the
\* replay, would add nothing.
THEOREM MarkerTellsTheTruth == Spec => []AppliedIsWhole
<1>1. IngestInv => AppliedIsWhole BY DEF IngestInv, Effective, Effect, AppliedIsWhole
<1> QED BY <1>1, Invariance, PTL

\* While main ids are in git order, no task is deployed but by a deployment
\* report of its commit or a later one (applyDeploymentStatus drops the commits
\* it does not know): cherry-picks count as the commit they were picked from.
THEOREM DeploymentsReported == Spec => []DeployedIsTrue
<1>1. ASSUME IngestInv PROVE DeployedIsTrue
  <2>1. Typed /\ IdsOnce /\ AllReported /\ Backed BY <1>1 DEF IngestInv
  <2>2. ASSUME InGitOrder, NEW t \in Tasks, NEW e \in Envs,
               NEW i \in LandedIds(facts, t), i <= facts.gh[e]
        PROVE  ReallyDeployed(t, e)
    <3>1. facts \in Facts /\ \A s \in Shas : facts.main[s] \in Nat /\ \A x \in Envs : facts.gh[x] \in Nat
      BY <2>1 DEF Typed, Facts
    <3>2. PICK s \in Shas : <<t, s>> \in facts.attr /\ i = facts.main[s] /\ i # 0
      BY <2>2 DEF LandedIds
    <3>3. s \in Main BY <2>1, <3>2 DEF IdsOnce
    <3>4. facts.gh[e] # 0 BY <2>2, <3>1, <3>2
    <3>5. PICK d \in Logged : d.kind = "deploy" /\ d.env = e /\ facts.gh[e] = facts.main[Source[d.sha]]
      BY <2>1, <3>4 DEF AllReported, ReportedIn
    <3>6. d.sha \in Shas BY <2>1, KindsAssumption DEF Logged, Typed
    <3>7. Source[d.sha] \in Main /\ Source[d.sha] \in Nat /\ s \in Nat /\ Source[d.sha] \in Shas
      BY <3>3, <3>6, SourceAssumption, MainAssumption
    <3>8. ~(Source[d.sha] < s)
      <4>1. facts.main[s] <= facts.main[Source[d.sha]] BY <2>2, <3>2, <3>5
      <4>2. facts.main[Source[d.sha]] # 0 BY <3>4, <3>5
      <4> QED BY <2>2, <3>1, <3>2, <3>3, <3>7, <4>1, <4>2 DEF InGitOrder
    <3>9. s <= Source[d.sha] BY <3>7, <3>8
    <3> QED BY <3>2, <3>3, <3>5, <3>9 DEF ReallyDeployed
  <2> SUFFICES ASSUME InGitOrder, NEW t \in Tasks
               PROVE  /\ state[t] = "deployed_dev"  => ReallyDeployed(t, "dev")
                      /\ state[t] = "deployed_prod" => ReallyDeployed(t, "prod")
    BY DEF DeployedIsTrue
  <2>3. ASSUME state[t] = "deployed_dev" PROVE ReallyDeployed(t, "dev")
    <3>1. PICK i \in LandedIds(facts, t) : i <= facts.gh["dev"]
      BY <2>1, <2>3 DEF Backed, deliveredStates
    <3> QED BY <2>2, <3>1 DEF Envs
  <2>4. ASSUME state[t] = "deployed_prod" PROVE ReallyDeployed(t, "prod")
    <3>1. PICK i \in LandedIds(facts, t) : i <= facts.gh["prod"]
      BY <2>1, <2>4 DEF Backed, deliveredStates
    <3> QED BY <2>2, <3>1 DEF Envs
  <2> QED BY <2>3, <2>4
<1> QED BY <1>1, Invariance, PTL

\* Only a reopening takes a delivered task back, and it leaves no commit that
\* would restore it; a resolution that had read older facts does not
\* (ResolveDelivery never moves a task to an earlier state).
THEOREM DeliveryGoesForward == Spec => ForwardOnly
<1>1. ASSUME IngestInv, [Next]_vars, NEW t \in Tasks, rank(state'[t]) < rank(state[t])
      PROVE  state'[t] = "ready" /\ LandedIds(facts', t) = {}
  <2>1. Typed /\ Backed BY <1>1 DEF IngestInv
  <2>2. state \in [Tasks -> States] BY <2>1 DEF Typed
  <2>3. \A s : rank(s) \in Nat BY DEF rank
  <2>4. state' # state
    <3>1. rank(state[t]) \in Nat BY <2>3
    <3> QED BY <1>1, <3>1
  <2>5. CASE \E p \in Procs : Finish(p)
    <3>1. PICK p \in Procs : Finish(p) BY <2>5
    <3>2. state'[t] = Moved(p, Join(facts, tx[p].delta), t) BY <3>1 DEF Finish
    <3>3. rank(state[t]) <= rank(state'[t]) BY <2>1, <3>2, MovedForward
    <3> QED BY <1>1, <2>3, <3>3
  <2>6. CASE \E u \in Tasks : Claim(u)
    <3>1. PICK u \in Tasks : state[u] = "ready" /\ state' = [state EXCEPT ![u] = "in_progress"]
      BY <2>6 DEF Claim
    <3>2. u = t \/ state'[t] = state[t] BY <2>2, <3>1
    <3>3. rank("ready") = 0 BY DEF rank
    <3> QED BY <1>1, <2>3, <3>1, <3>2, <3>3
  <2>7. CASE \E u \in Tasks : Abandon(u)
    <3>1. PICK u \in Tasks : state[u] \in openStates /\ state' = [state EXCEPT ![u] = "abandoned"]
      BY <2>7 DEF Abandon
    <3>2. u = t \/ state'[t] = state[t] BY <2>2, <3>1
    <3>3. state[u] \in openStates => rank(state[u]) = 0 BY DEF rank, openStates
    <3> QED BY <1>1, <2>3, <3>1, <3>2, <3>3
  <2>8. CASE \E u \in Tasks : reopenTask(u)
    <3>1. PICK u \in Tasks : /\ state' = [state EXCEPT ![u] = "ready"]
                             /\ facts' = [facts EXCEPT !.attr = {pr \in @ : pr[1] # u}]
      BY <2>8 DEF reopenTask
    <3>2. u = t
      <4>1. u = t \/ state'[t] = state[t] BY <2>2, <3>1
      <4> QED BY <1>1, <2>3, <4>1
    <3>3. facts \in Facts BY <2>1 DEF Typed
    <3>4. facts'.attr = {pr \in facts.attr : pr[1] # t} BY <3>1, <3>2, <3>3 DEF Facts
    <3>5. \A s \in Shas : <<t, s>> \notin facts'.attr BY <3>4
    <3>6. LandedIds(facts', t) = {} BY <3>5 DEF LandedIds
    <3>7. state'[t] = "ready" BY <2>2, <3>1, <3>2
    <3> QED BY <3>6, <3>7
  <2>9. \/ \E p \in Procs : Finish(p)
        \/ \E u \in Tasks : Claim(u) \/ Abandon(u) \/ reopenTask(u)
    BY <1>1, <2>4
    DEF Next, Receive, ReceiveGitHub, ReceiveFlux, RecordLocalMerge, Work, ApplyGitHub,
        ApplyFacts, Abort, Reconcile, StartReplay, ReplayNext, GatherRepo, User,
        MapRepo, Land, storeVars, vars
  <2> QED BY <2>5, <2>6, <2>7, <2>8, <2>9
<1>2. IngestInv /\ [Next]_vars =>
        [\A t \in Tasks : rank(state'[t]) < rank(state[t]) =>
           state'[t] = "ready" /\ LandedIds(facts', t) = {}]_vars
  BY <1>1
<1> QED BY <1>2, Invariance, PTL DEF Spec, ForwardOnly
=============================================================================

------------------------------ MODULE Delivery ------------------------------
(***************************************************************************)
(* The delivery facts of one repository and the rules that turn them into  *)
(* a task's state (internal/store/delivery.go, delivery_resolve.go).       *)
(*                                                                         *)
(* Facts only accumulate: rows are inserted once and watermarks move by    *)
(* greatest(), so what a transaction contributes is a record of the same   *)
(* shape that Join adds to what is committed.  An id or a watermark of 0   *)
(* is a row or a column that is not there.                                 *)
(***************************************************************************)
EXTENDS Naturals

CONSTANTS
  Tasks,
  Shas      \* commits: of the default branch and cherry-picks of them

Envs == {"dev", "prod"}

openStates      == {"ready", "in_progress", "in_review"}
deliveredStates == {"merged", "deployed_dev", "deployed_prod", "released"}
advanceable     == openStates \union {"merged", "deployed_dev"}
States          == openStates \union deliveredStates \union {"abandoned"}

Facts == [
  main    : [Shas -> Nat],           \* main_commits: the id of a sha
  alias   : [Shas -> Nat],           \* github_deploy_shas: the main id it names
  attr    : SUBSET (Tasks \X Shas),  \* task_commits
  prs     : SUBSET Tasks,            \* tasks with a correlated pull request
  gh      : [Envs -> Nat],           \* env_deploys.gh_main_id
  flux    : [Envs -> Nat],           \* env_deploys.flux_main_id; its first value
                                     \* latches flux_seen
  release : Nat ]                    \* the newest github_release_frontiers.main_id

NoFacts == [
  main    |-> [s \in Shas |-> 0],
  alias   |-> [s \in Shas |-> 0],
  attr    |-> {},
  prs     |-> {},
  gh      |-> [e \in Envs |-> 0],
  flux    |-> [e \in Envs |-> 0],
  release |-> 0 ]

greatest(a, b)  == IF a < b THEN b ELSE a
coalesce(a, b)  == IF a = 0 THEN b ELSE a

\* Both sets of facts.  An insert does nothing where the row is there already.
Join(f, g) == [
  main    |-> [s \in Shas |-> coalesce(f.main[s], g.main[s])],
  alias   |-> [s \in Shas |-> coalesce(f.alias[s], g.alias[s])],
  attr    |-> f.attr \union g.attr,
  prs     |-> f.prs \union g.prs,
  gh      |-> [e \in Envs |-> greatest(f.gh[e], g.gh[e])],
  flux    |-> [e \in Envs |-> greatest(f.flux[e], g.flux[e])],
  release |-> greatest(f.release, g.release) ]

-----------------------------------------------------------------------------
(* Reading the facts *)

MainIDForSHA(f, s) == coalesce(f.main[s], f.alias[s])

\* The newest id, 0 when there is none.
LatestMainID(f) ==
  LET ids == {f.main[s] : s \in Shas} \union {0}
  IN  CHOOSE i \in ids : \A j \in ids : j <= i

TaskIDsForSHA(f, s) == {t \in Tasks : <<t, s>> \in f.attr}

\* Ids of the task's commits that are on the default branch.
LandedIds(f, t) == {f.main[s] : s \in {r \in Shas : <<t, r>> \in f.attr}} \ {0}

\* ConfirmedFrontier had Flux, once seen, replaced GitHub.
ConfirmedFrontierFlux(f, e) == IF f.flux[e] = 0 THEN f.gh[e] ELSE f.flux[e]

\* The dual-signal rule: GitHub alone until Flux has been seen once.
ConfirmedFrontier(f, e) ==
  IF f.flux[e] = 0 \/ f.gh[e] < f.flux[e] THEN f.gh[e] ELSE f.flux[e]

TasksBelowFrontier(f, x, state) ==
  {t \in Tasks : state[t] \in advanceable /\ \E i \in LandedIds(f, t) : i <= x}

\* The frontier has reached the newest landed commit.
Covered(f, t, x) == \A i \in LandedIds(f, t) : i <= x

-----------------------------------------------------------------------------
(* ResolveDelivery: the state the facts support, never an earlier one. *)

ResolveDelivery(f, t, s, doneState) ==
  LET terminal == IF doneState = "released" THEN "released" ELSE "deployed_prod"
      final    == IF doneState = "released" THEN f.release
                                            ELSE ConfirmedFrontier(f, "prod")
  IN  IF LandedIds(f, t) = {} \/ s \notin advanceable THEN s
      ELSE IF Covered(f, t, final) THEN terminal
      ELSE IF s = "deployed_dev" \/ Covered(f, t, ConfirmedFrontier(f, "dev"))
           THEN "deployed_dev"
      ELSE "merged"
=============================================================================

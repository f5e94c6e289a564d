------------------------------ MODULE MCIngest ------------------------------
(* Commits 1 and 2 of the default branch and 3, a cherry-pick of 1 on a      *)
(* deploy branch.  Each scenario is a handful of deliveries that may come in *)
(* any order, repeatedly or not at all.                                      *)
EXTENDS Ingest

MCSource == [s \in Shas |-> IF s = 3 THEN 1 ELSE s]
MCPR     == [t \in Tasks |-> 1]

D(k, ts, s) == [kind |-> k, tasks |-> ts, sha |-> s, env |-> "dev", named |-> TRUE]
Prod(d)     == [d EXCEPT !.env = "prod"]
OfBranch(d) == [d EXCEPT !.named = FALSE]

Alien     == D("deploy", {}, 1)
MCForeign == {Alien}

S(ds, done, known) == [sends |-> ds, doneState |-> done, mapped |-> known]

\* A merge that a pull request and a push report; a prod deployment of a
\* cherry-pick; pushes out of order; two signals for dev; a release; a
\* repository mapped late beside one that never is.
MCScenarios == {
  S({D("merged", {1}, 1), D("main", {}, 1)}, "deployed_prod", TRUE),
  S({D("main", {1}, 1), D("lastdeploy", {}, 3), Prod(D("deploy", {}, 3))}, "deployed_prod", TRUE),
  S({D("main", {1}, 2), D("main", {}, 1), Prod(D("deploy", {}, 1))}, "deployed_prod", TRUE),
  S({D("local", {1}, 1), Prod(D("deploy", {}, 1)), Prod(D("flux", {}, 1))}, "deployed_prod", TRUE),
  S({D("main", {1}, 1), D("release", {}, 1), OfBranch(D("release", {}, 2))}, "released", TRUE),
  S({D("opened", {1}, 1), D("branch", {1}, 1), Alien}, "deployed_prod", FALSE) }

\* A merge reported twice, a push that never comes, and a backlog.
MCRepairs == {
  S({D("merged", {1}, 1), D("main", {}, 1)}, "merged", TRUE),
  S({D("branch", {1}, 1), D("release", {}, 1), Alien}, "released", FALSE) }

MCAll == MCScenarios \cup MCRepairs
=============================================================================

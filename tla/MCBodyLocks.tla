---------------------------- MODULE MCBodyLocks ----------------------------
(* BodyLocks for TLC: two tabs of one person and one of another.             *)
EXTENDS BodyLocks, TLC

CONSTANTS t1, t2, t3, ann, bob

MCTabs   == {t1, t2, t3}
MCPerson == t1 :> ann @@ t2 :> ann @@ t3 :> bob
=============================================================================

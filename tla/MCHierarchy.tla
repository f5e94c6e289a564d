---------------------------- MODULE MCHierarchy -----------------------------
(* The instance of Hierarchy that TLC checks, in scenes that differ in the   *)
(* operations: two clients at once, on edges and leases or on deliveries;    *)
(* and one transaction at a time, with everything done by hand or with       *)
(* deliveries and reopenings.                                                *)
EXTENDS Hierarchy, TLC

VARIABLE scene

Together == INSTANCE Hierarchy WITH
  Ops <- Ops \intersect {"claim", "release", "pr", "edge", "unlink", "decompose"}
Landing  == INSTANCE Hierarchy WITH
  Ops <- Ops \intersect {"claim", "edge", "unlink", "land", "facts"}
ByHand   == INSTANCE Hierarchy WITH
  Ops <- Ops \intersect {"manual", "patch", "edge", "decompose", "delete"}
Reopened == INSTANCE Hierarchy WITH
  Ops <- Ops \intersect {"manual", "edge", "decompose", "land", "facts"}

OthersIdle(p) == \A q \in Clients \ {p} : Idle(q)

MCInit == Init /\ scene \in {"together", "landing", "by hand", "reopened"}
MCNext ==
  /\ UNCHANGED scene
  /\ \/ scene = "together" /\ Together!Next
     \/ scene = "landing"  /\ Landing!Next
     \/ /\ scene = "by hand"
        /\ \E p \in Clients : OthersIdle(p) /\ (ByHand!Step(p) \/ ByHand!Request(p))
     \/ /\ scene = "reopened"
        /\ \E p \in Clients : OthersIdle(p) /\ (Reopened!Step(p) \/ Reopened!Request(p))
MCSpec == MCInit /\ [][MCNext]_<<vars, scene>>

Symmetry == Permutations(Tasks \ Fresh) \union Permutations(Fresh)
            \union Permutations(Clients)
=============================================================================

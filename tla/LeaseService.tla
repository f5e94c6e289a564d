---------------------------- MODULE LeaseService ----------------------------
(***************************************************************************)
(* What the lease tables promise whoever hands out work: a task that is    *)
(* offered may be granted, is held under one grant at a time, and a grant  *)
(* that has ended never holds anything again.  Who ends a grant, and when  *)
(* a task is offered, is open.                                             *)
(***************************************************************************)
EXTENDS Naturals

CONSTANTS Tasks, Grants

VARIABLES
  offered, \* tasks that may be claimed
  held,    \* pairs of a task and the grant it is held under
  spent    \* grants that have ended

vars == <<offered, held, spent>>

Init == offered \subseteq Tasks /\ held = {} /\ spent = {}

\* The offer of one task may change with a step that is about it.
Reoffer(t) == offered' \in {offered \union {t}, offered \ {t}}

Publish(t) == Reoffer(t) /\ UNCHANGED <<held, spent>>

Grant(t, g) ==
  /\ t \in offered /\ g \notin spent
  /\ \A h \in held : h[1] # t /\ h[2] # g
  /\ held' = held \union {<<t, g>>}
  /\ offered' = offered \ {t}
  /\ UNCHANGED spent

End(t, g) ==
  /\ <<t, g>> \in held
  /\ held' = held \ {<<t, g>>}
  /\ spent' = spent \union {g}
  /\ Reoffer(t)

Next ==
  \E t \in Tasks : Publish(t) \/ \E g \in Grants : Grant(t, g) \/ End(t, g)

Spec == Init /\ [][Next]_vars
=============================================================================

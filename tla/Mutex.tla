-------------------------------- MODULE Mutex --------------------------------
(***************************************************************************)
(* What an exclusive lock promises: one holder at a time, chosen among the *)
(* threads that asked for it, and a release that always completes.         *)
(***************************************************************************)
CONSTANTS Threads, Nobody

VARIABLES asking, holder, releasing

vars == <<asking, holder, releasing>>

Init == asking = {} /\ holder = Nobody /\ releasing = {}

Ask(t) ==
  /\ t \notin asking \cup releasing /\ t # holder
  /\ asking' = asking \cup {t}
  /\ UNCHANGED <<holder, releasing>>

Acquire(t) ==
  /\ t \in asking /\ holder = Nobody
  /\ asking' = asking \ {t} /\ holder' = t
  /\ UNCHANGED releasing

\* The lock is free before the call that releases it has returned.
Release(t) ==
  /\ holder = t
  /\ holder' = Nobody /\ releasing' = releasing \cup {t}
  /\ UNCHANGED asking

Released(t) ==
  /\ t \in releasing
  /\ releasing' = releasing \ {t}
  /\ UNCHANGED <<asking, holder>>

Next == \E t \in Threads : Ask(t) \/ Acquire(t) \/ Release(t) \/ Released(t)

Spec == Init /\ [][Next]_vars
=============================================================================

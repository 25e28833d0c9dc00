----------------------------- MODULE SwarmLease -----------------------------
(***************************************************************************)
(* What the cluster election promises the rest of the resident swarm: one   *)
(* scheduling lease.  It is free or held by one member under one term, it   *)
(* is granted only while it is free, and it lapses before it is granted     *)
(* again, so that a leader never changes hands, or terms, in one step.      *)
(***************************************************************************)
CONSTANTS Members, Terms

VARIABLE holders    \* <<member, term>>: who may schedule now

Init == holders = {}

Grant(m, t) == holders = {} /\ holders' = {<<m, t>>}

Lapse == holders' = {}

Next == Lapse \/ \E m \in Members, t \in Terms : Grant(m, t)

Spec == Init /\ [][Next]_holders
=============================================================================

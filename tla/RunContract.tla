----------------------------- MODULE RunContract ----------------------------
(***************************************************************************)
(* What the durable run boundary promises to whoever enqueued a job        *)
(* (durable_run.rs: submit; run_ledger.rs: append_event): a run is accepted *)
(* once, executed by at most one child, and once it is over nothing starts  *)
(* or reopens it.  How the daemon restarts, retries, pauses or loses        *)
(* children is not visible here.                                           *)
(***************************************************************************)
CONSTANTS Runs, Children

VARIABLES stage, executor

Stages == {"none", "accepted", "executing", "over"}

CInit ==
    /\ stage = [r \in Runs |-> "none"]
    /\ executor = [r \in Runs |-> {}]

\* The run is submitted with its Queued event.
Accept(r) ==
    /\ stage[r] = "none"
    /\ stage' = [stage EXCEPT ![r] = "accepted"]
    /\ UNCHANGED executor

\* One child passes the Started event.
Begin(r, c) ==
    /\ stage[r] = "accepted" /\ executor[r] = {}
    /\ stage' = [stage EXCEPT ![r] = "executing"]
    /\ executor' = [executor EXCEPT ![r] = {c}]

\* The terminal event.
Finish(r) ==
    /\ stage[r] \in {"accepted", "executing"}
    /\ stage' = [stage EXCEPT ![r] = "over"]
    /\ UNCHANGED executor

CNext == \E r \in Runs : Accept(r) \/ Finish(r) \/ \E c \in Children : Begin(r, c)

CSpec == CInit /\ [][CNext]_<<stage, executor>>
=============================================================================

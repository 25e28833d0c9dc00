---------------------------- MODULE RunProtocol ----------------------------
(***************************************************************************)
(* The run ledger's status machine: which status an event may move a run   *)
(* to (run_ledger.rs), and the job state a run status is read as by the    *)
(* daemon (daemon/store.rs).  Pure definitions, shared by every module that *)
(* reads or appends to a run.                                              *)
(***************************************************************************)

\* RunStatus, with "none" for a run that was never submitted.
RunTerminal == {"succeeded", "failed", "cancelled", "needs_reconciliation"}
RunActive   == {"queued", "running", "waiting_for_permission", "paused"}
RunStatuses == {"none", "cancelling"} \cup RunActive \cup RunTerminal

\* Mutant: a run that is over takes further events.
CanEmitReopening(s, t) == s # "none" /\ (s = "cancelling" => t \notin RunActive)

\* append_event accepts an event that moves a run from status s to status t:
\* never on a run that was not submitted, never after the terminal event, and
\* a cancelling run does not return to an active status.
CanEmit(s, t) ==
    /\ s # "none"
    /\ s \notin RunTerminal
    /\ s = "cancelling" => t \notin RunActive

\* An event that leaves the status alone (a mutation record, a task event).
CanRecord(s) == s # "none" /\ s \notin RunTerminal

\* JobState of the daemon store, with "absent" for a job without a row.
JobTerminal == {"succeeded", "failed", "cancelled", "needs_reconciliation"}
\* active_jobs: the states a job with a child can be in.
JobActive   == {"running", "waiting_approval", "paused", "cancelling"}
JobStates   == {"absent", "preparing", "queued"} \cup JobActive \cup JobTerminal

\* map_run_status: the two enumerations differ in one name.
MapRunStatus(s) == IF s = "waiting_for_permission" THEN "waiting_approval" ELSE s
=============================================================================

---------------------------- MODULE DaemonEngine ----------------------------
(***************************************************************************)
(* The resident daemon that runs background jobs (bin/monkey-cli/daemon).   *)
(*                                                                         *)
(* Four parties share durable state and no memory:                         *)
(*   - the daemon, which supervises one child process per running job and  *)
(*     moves the job's row in the daemon store (engine.rs, store.rs);       *)
(*   - the child, which executes the run and appends to the run ledger      *)
(*     (task.rs, durable_run.rs).  It is in its own process group, so it    *)
(*     outlives a daemon that dies;                                        *)
(*   - the clients that enqueue, pause, resume, cancel, signal and approve  *)
(*     (daemon/mod.rs, remote/api.rs);                                     *)
(*   - the service manager, which starts the daemon again.                 *)
(*                                                                         *)
(* The daemon store and the ledger are two SQLite files: no transaction     *)
(* spans them, and every step below is one committed write (or one child   *)
(* process signal) of one of them, with the crash that can follow it.      *)
(***************************************************************************)
EXTENDS RunProtocol, ProcessRow, Naturals, FiniteSets

CONSTANTS
    Jobs,             \* daemon jobs; each has one durable run
    Inputs,           \* what the environment does in this instance
    MaxAttempts,      \* the job's max_attempts
    KindAttempts,     \* ProcessKind::DaemonJob's restart ceiling (3)
    Slots,            \* config.concurrency
    MaxQueue,         \* config.max_queue
    LiveHandoff,      \* the daemon may adopt a live worker at start
    BootWithinLease,  \* a child reaches Started (or dies) within one lease
    MaxSpawns,        \* bound: children started per job
    MaxCrashes,       \* bound: daemon deaths other than its own errors
    NoJob             \* not a job

Environment ==
    {"enqrace", "enqfail", "park", "cancel", "pause", "resume", "signal", "kill",
     "budget", "hold", "reject", "spawnfail", "badtree", "approve", "mutate",
     "workercrash"}

ASSUME DaemonAssumption ==
    /\ NoJob \notin Jobs
    /\ Inputs \subseteq Environment
    /\ MaxAttempts \in Nat /\ KindAttempts \in Nat /\ Slots \in Nat
    /\ MaxQueue \in Nat /\ MaxSpawns \in Nat /\ MaxCrashes \in Nat
    /\ LiveHandoff \in BOOLEAN /\ BootWithinLease \in BOOLEAN

Spawns   == 1 .. MaxSpawns      \* a job's children, in the order started
Ordinals == 0 .. MaxSpawns      \* attempt ordinals of its process rows

VARIABLES
    \* the daemon store: daemon_jobs and the kill switch
    jobState, attempt, pauseReq, cancelReq, pid, linked, killSwitch,
    \* the profile ledger: runs, approvals, external_mutations, run_leases
    runStatus, approval, mutation, lease,
    \* the process table: row[j][o] is the row "<j>#<o>"
    row,
    \* the daemon process: where it is in its loop, and its memory
    phase, todo, cur, active, adopted, tickKill, crashes,
    \* the children of job j: worker[j][k] is the k-th one started
    worker, frozen, spawns,
    \* clients in the middle of an enqueue or of a cancellation
    enq, appending,
    \* history: children past Started, children started but never recorded
    begun, lost

storeVars  == <<jobState, attempt, pauseReq, cancelReq, pid, linked, killSwitch>>
ledgerVars == <<runStatus, approval, mutation, lease>>
daemonVars == <<phase, todo, cur, active, adopted, tickKill, crashes>>
workerVars == <<worker, frozen, spawns, begun, lost>>
clientVars == <<enq, appending>>
vars == <<storeVars, ledgerVars, row, daemonVars, workerVars, clientVars>>

Phases ==
    {"down", "prepare", "recover", "tick", "active", "grace", "cancelq",
     "cancelrec", "schedule", "spawned", "failrec", "sweep", "project"}
WorkerStates == {"none", "boot", "ready", "executing", "asking", "closing", "dead"}
WorkerLive   == WorkerStates \ {"none", "dead"}
Unstarted    == {"boot", "ready"}   \* children that may still emit Started

StoreTypeOK ==
    /\ jobState  \in [Jobs -> JobStates]
    /\ attempt   \in [Jobs -> Ordinals]
    /\ pauseReq  \in [Jobs -> BOOLEAN]
    /\ cancelReq \in [Jobs -> BOOLEAN]
    /\ pid       \in [Jobs -> 0 .. MaxSpawns]
    /\ linked    \in [Jobs -> BOOLEAN]
    /\ killSwitch \in BOOLEAN
LedgerTypeOK ==
    /\ runStatus \in [Jobs -> RunStatuses]
    /\ approval  \in [Jobs -> {"none", "pending", "decided"}]
    /\ mutation  \in [Jobs -> {"none", "pending", "confirmed", "needs_reconciliation"}]
    /\ lease     \in [Jobs -> {"none", "held", "stale", "expired"}]
RowTypeOK == row \in [Jobs -> [Ordinals -> Row]]
DaemonTypeOK ==
    /\ phase \in Phases
    /\ todo \in SUBSET Jobs
    /\ cur \in Jobs \cup {NoJob}
    /\ active    \in [Jobs -> 0 .. MaxSpawns]
    /\ adopted \in SUBSET Jobs
    /\ tickKill \in BOOLEAN
    /\ crashes \in 0 .. MaxCrashes
WorkerTypeOK ==
    /\ worker    \in [Jobs -> [Spawns -> WorkerStates]]
    /\ frozen    \in [Jobs -> SUBSET Spawns]
    /\ spawns    \in [Jobs -> 0 .. MaxSpawns]
    /\ begun     \in [Jobs -> SUBSET Spawns]
    /\ lost      \in [Jobs -> SUBSET Spawns]
ClientTypeOK ==
    /\ enq       \in [Jobs -> {"idle", "inserted", "submitted", "done"}]
    /\ appending \in [Jobs -> BOOLEAN]

\* The values every variable can take; in particular no pid, attempt or child
\* outside the ones the daemon has started.
TypeOK ==
    StoreTypeOK /\ LedgerTypeOK /\ RowTypeOK /\ DaemonTypeOK /\ WorkerTypeOK /\ ClientTypeOK

Init ==
    /\ jobState  = [j \in Jobs |-> "absent"]
    /\ attempt   = [j \in Jobs |-> 0]
    /\ pauseReq  = [j \in Jobs |-> FALSE]
    /\ cancelReq = [j \in Jobs |-> FALSE]
    /\ pid       = [j \in Jobs |-> 0]
    /\ linked    = [j \in Jobs |-> FALSE]
    /\ killSwitch = FALSE
    /\ runStatus = [j \in Jobs |-> "none"]
    /\ approval  = [j \in Jobs |-> "none"]
    /\ mutation  = [j \in Jobs |-> "none"]
    /\ lease     = [j \in Jobs |-> "none"]
    /\ row       = [j \in Jobs |-> [o \in Ordinals |-> NoRow]]
    /\ phase = "down"
    /\ todo = {}
    /\ cur = NoJob
    /\ active    = [j \in Jobs |-> 0]
    /\ adopted = {}
    /\ tickKill = FALSE
    /\ crashes = 0
    /\ worker    = [j \in Jobs |-> [k \in Spawns |-> "none"]]
    /\ frozen    = [j \in Jobs |-> {}]
    /\ spawns    = [j \in Jobs |-> 0]
    /\ enq       = [j \in Jobs |-> "idle"]
    /\ appending = [j \in Jobs |-> FALSE]
    /\ begun     = [j \in Jobs |-> {}]
    /\ lost      = [j \in Jobs |-> {}]

-----------------------------------------------------------------------------
(* The writes the handlers are made of.                                    *)

Nonterminal(j) == jobState[j] \notin JobTerminal \cup {"absent"}

\* retry_permitted: the job's own bound and the kind's, both against `attempt`.
RetryPermitted(j) == attempt[j] + 1 < KindAttempts /\ attempt[j] + 1 < MaxAttempts

\* Mutant: every move to running counts as an attempt, a resume too.
TransitionCountsResumes(j, state, process) ==
    /\ jobState' = [jobState EXCEPT ![j] = state]
    /\ attempt'  = [attempt EXCEPT ![j] =
                      IF state = "running"
                      THEN @ + 1 ELSE @]
    /\ pid'      = [pid EXCEPT ![j] = process]
    /\ UNCHANGED <<pauseReq, cancelReq, linked, killSwitch>>

\* DaemonStore::transition: unconditional on the state it leaves; `attempt`
\* counts the moves from the queue to running; the pid is overwritten.
Transition(j, state, process) ==
    /\ jobState' = [jobState EXCEPT ![j] = state]
    /\ attempt'  = [attempt EXCEPT ![j] =
                      IF state = "running" /\ jobState[j] \in {"preparing", "queued"}
                      THEN @ + 1 ELSE @]
    /\ pid'      = [pid EXCEPT ![j] = process]
    /\ UNCHANGED <<pauseReq, cancelReq, linked, killSwitch>>

\* Mutant: a terminal event is appended over another one.
EndedOverwrites(s, terminal) ==
    IF s \in RunTerminal /\ terminal \notin RunTerminal THEN s ELSE terminal

\* cancel_run and fail_run: append the terminal event unless one is there.
Ended(s, terminal) == IF s \in RunTerminal THEN s ELSE terminal

\* attempt_ordinal: which of a job's rows its current state belongs to.
AttemptOrdinal(j) ==
    IF jobState[j] \in {"preparing", "queued"} THEN attempt[j]
    ELSE IF attempt[j] = 0 THEN 0 ELSE attempt[j] - 1

\* process_state_for, on the nonterminal states.
ProcessStateFor(state) ==
    CASE state \in {"preparing", "queued"} -> "admitted"
      [] state = "paused"                  -> "suspended"
      [] OTHER                             -> "running"

Alive(j, k)  == k \in Spawns /\ worker[j][k] \in WorkerLive
Killed(j, k) == [worker EXCEPT ![j] = [i \in Spawns |->
                    IF i = k /\ @[i] # "none" THEN "dead" ELSE @[i]]]

\* Mutant: an interrupted run is left as it is.
ReconciledJobOnly(j) ==
    [job |-> IF runStatus[j] \in RunTerminal \cup {"queued"} THEN MapRunStatus(runStatus[j]) ELSE "failed",
     run |-> runStatus[j], mutation |-> mutation[j]]

\* What reconcile_interrupted makes of a job whose child is gone: it is over if
\* its run is; it goes back to the queue if nothing was started; otherwise an
\* unconfirmed external mutation, a cancellation or a plain interruption decides.
Reconciled(j) ==
    LET outcome(job, run, mut) == [job |-> job, run |-> run, mutation |-> mut]
        s == runStatus[j]
    IN  IF ~linked[j]
        THEN outcome("failed", s, mutation[j])
        ELSE IF s \in RunTerminal \cup {"queued"}
        THEN outcome(MapRunStatus(s), s, mutation[j])
        ELSE IF mutation[j] = "pending"
        THEN outcome("needs_reconciliation", "needs_reconciliation", "needs_reconciliation")
        ELSE IF s = "cancelling" \/ cancelReq[j]
        THEN outcome("cancelled", "cancelled", mutation[j])
        ELSE outcome("failed", "failed", mutation[j])

ReconcileInterrupted(j) ==
    /\ Transition(j, Reconciled(j).job, 0)
    /\ runStatus' = [runStatus EXCEPT ![j] = Reconciled(j).run]
    /\ mutation'  = [mutation EXCEPT ![j] = Reconciled(j).mutation]

\* The daemon process ends: by a crash, or because an error of a handler reached
\* serve's `?`.  Its memory is gone, its leases are no longer renewed, and the
\* children it started keep running.
GoDown ==
    /\ phase' = "down"
    /\ todo' = {} /\ cur' = NoJob /\ adopted' = {} /\ tickKill' = FALSE
    /\ active' = [j \in Jobs |-> 0]
    /\ lease' = [j \in Jobs |-> IF lease[j] = "held" THEN "stale" ELSE lease[j]]

-----------------------------------------------------------------------------
(* Start-up: serve, recover_preparing and Engine::recover.                  *)

\* The service manager starts the daemon; DaemonLock makes it the only one.
\* "enqrace": it may do so while a client is in the middle of an enqueue.
Start ==
    /\ phase = "down"
    /\ "enqrace" \in Inputs \/ \A j \in Jobs : enq[j] \notin {"inserted", "submitted"}
    /\ phase' = "prepare"
    /\ todo' = {j \in Jobs : jobState[j] = "preparing"}
    /\ UNCHANGED <<storeVars, ledgerVars, row, cur, active, adopted, tickKill,
                   crashes, workerVars, clientVars>>

\* Mutant: the interrupted job is queued without submitting its run.
RecoverPreparingUnsubmitted(j) ==
    /\ phase = "prepare" /\ j \in todo
    /\ jobState[j] = "preparing"
    /\ jobState' = [jobState EXCEPT ![j] = "queued"]
    /\ linked' = [linked EXCEPT ![j] = TRUE]
    /\ UNCHANGED runStatus
    /\ todo' = todo \ {j}
    /\ UNCHANGED <<attempt, pauseReq, cancelReq, pid, killSwitch, approval,
                   mutation, lease, row, phase, cur, active, adopted, tickKill,
                   crashes, workerVars, clientVars>>

\* A job whose enqueue was cut short: submit its run (idempotently), queue it.
RecoverPreparing(j) ==
    /\ phase = "prepare" /\ j \in todo
    /\ jobState[j] = "preparing"
    /\ jobState' = [jobState EXCEPT ![j] = "queued"]
    /\ linked' = [linked EXCEPT ![j] = TRUE]
    /\ runStatus' = [runStatus EXCEPT ![j] = IF @ = "none" THEN "queued" ELSE @]
    /\ todo' = todo \ {j}
    /\ UNCHANGED <<attempt, pauseReq, cancelReq, pid, killSwitch, approval,
                   mutation, lease, row, phase, cur, active, adopted, tickKill,
                   crashes, workerVars, clientVars>>

\* The submission fails: the job is failed, whatever became of it meanwhile.
RecoverPreparingFails(j) ==
    /\ "enqfail" \in Inputs
    /\ phase = "prepare" /\ j \in todo
    /\ Transition(j, "failed", 0)
    /\ todo' = todo \ {j}
    /\ UNCHANGED <<ledgerVars, row, phase, cur, active, adopted, tickKill,
                   crashes, workerVars, clientVars>>

\* The enqueuing client queued the job first: mark_queued finds no preparing
\* row and its error ends the daemon.
RecoverPreparingRaced(j) ==
    /\ phase = "prepare" /\ j \in todo
    /\ jobState[j] # "preparing"
    /\ GoDown
    /\ UNCHANGED <<storeVars, runStatus, approval, mutation, row, crashes,
                   workerVars, clientVars>>

\* Mutant: the jobs to recover are all that are no longer in the queue.
PrepareDoneAll ==
    /\ phase = "prepare" /\ todo = {}
    /\ phase' = "recover"
    /\ todo' = {j \in Jobs : jobState[j] \notin {"absent", "preparing", "queued"}}
    /\ UNCHANGED <<storeVars, ledgerVars, row, cur, active, adopted, tickKill,
                   crashes, workerVars, clientVars>>

PrepareDone ==
    /\ phase = "prepare" /\ todo = {}
    /\ phase' = "recover"
    /\ todo' = {j \in Jobs : jobState[j] \in JobActive}
    /\ UNCHANGED <<storeVars, ledgerVars, row, cur, active, adopted, tickKill,
                   crashes, workerVars, clientVars>>

\* Mutant: the recorded child of the dead daemon is not killed.
RecoverJobSpares(j) ==
    /\ phase = "recover" /\ j \in todo
    /\ ~(LiveHandoff /\ Alive(j, pid[j]))
    /\ UNCHANGED worker
    /\ ReconcileInterrupted(j)
    /\ todo' = todo \ {j}
    /\ UNCHANGED <<approval, lease, row, phase, cur, active, adopted, tickKill,
                   crashes, frozen, spawns, begun, lost, clientVars>>

\* recover, one job: the recorded child is killed (terminate_orphan), or found
\* dead by a daemon that would have adopted it, and the job is reconciled.
RecoverJob(j) ==
    /\ phase = "recover" /\ j \in todo
    /\ ~(LiveHandoff /\ Alive(j, pid[j]))
    /\ worker' = Killed(j, pid[j])
    /\ ReconcileInterrupted(j)
    /\ todo' = todo \ {j}
    /\ UNCHANGED <<approval, lease, row, phase, cur, active, adopted, tickKill,
                   crashes, frozen, spawns, begun, lost, clientVars>>

\* Mutant: the worker is adopted without taking over its lease.
AdoptJobUnleased(j) ==
    /\ LiveHandoff
    /\ phase = "recover" /\ j \in todo
    /\ Alive(j, pid[j]) /\ lease[j] # "none"
    /\ UNCHANGED lease
    /\ active' = [active EXCEPT ![j] = pid[j]]
    /\ adopted' = adopted \cup {j}
    /\ todo' = todo \ {j}
    /\ UNCHANGED <<storeVars, runStatus, approval, mutation, row, phase, cur,
                   tickKill, crashes, workerVars, clientVars>>

\* recover with live handoff: the attested worker is adopted and its lease
\* taken over, expired or not; the lease row must still be there.
AdoptJob(j) ==
    /\ LiveHandoff
    /\ phase = "recover" /\ j \in todo
    /\ Alive(j, pid[j]) /\ lease[j] # "none"
    /\ lease' = [lease EXCEPT ![j] = "held"]
    /\ active' = [active EXCEPT ![j] = pid[j]]
    /\ adopted' = adopted \cup {j}
    /\ todo' = todo \ {j}
    /\ UNCHANGED <<storeVars, runStatus, approval, mutation, row, phase, cur,
                   tickKill, crashes, workerVars, clientVars>>

RecoverDone ==
    /\ phase = "recover" /\ todo = {}
    /\ phase' = "tick"
    /\ UNCHANGED <<storeVars, ledgerVars, row, todo, cur, active, adopted,
                   tickKill, crashes, workerVars, clientVars>>

-----------------------------------------------------------------------------
(* Engine::tick, first half: intent, then every supervised child.           *)

\* The row of the attempt the job is living as, and its durable intent.
CurrentRow(j) == row[j][AttemptOrdinal(j)]

\* The kill switch cancels every job; then apply_signal_intent copies the
\* latches of each nonterminal job's current row onto the job: a stop latch
\* cancels, and otherwise the pause bit takes the value of the suspend latch.
TickSignals ==
    /\ phase = "tick"
    /\ phase' = "active"
    /\ tickKill' = killSwitch
    /\ todo' = {j \in Jobs : active[j] # 0}
    /\ cancelReq' = [j \in Jobs |-> cancelReq[j] \/
                        (Nonterminal(j) /\ (killSwitch \/ CurrentRow(j).stop))]
    /\ pauseReq' = [j \in Jobs |->
                        IF Nonterminal(j) /\ CurrentRow(j).state # "none" /\ ~CurrentRow(j).stop
                        THEN CurrentRow(j).suspend ELSE pauseReq[j]]
    /\ UNCHANGED <<jobState, attempt, pid, linked, killSwitch, ledgerVars, row,
                   cur, active, adopted, crashes, workerVars, clientVars>>

\* The guards of tick_active's branches, in the order it tries them.
WantsCancel(j) == cancelReq[j] \/ killSwitch
WantsPause(j)  == ~WantsCancel(j) /\ pauseReq[j] /\ jobState[j] # "paused"
WantsResume(j) == ~WantsCancel(j) /\ ~pauseReq[j] /\ jobState[j] = "paused"
Settled(j)     == ~WantsCancel(j) /\ ~WantsPause(j) /\ ~WantsResume(j)

\* A signal to an adopted worker that is gone is refused; to a child of this
\* daemon it succeeds.
SignalRefused(j) == j \in adopted /\ ~Alive(j, active[j])

\* A cancellation or an exceeded budget: ensure_cancelling, then the child has
\* its grace period.  ensure_cancelling does not ask whether the run is over.
CancelBegin(j) ==
    /\ phase = "active" /\ j \in todo
    /\ WantsCancel(j) \/ (Settled(j) /\ "budget" \in Inputs)
    /\ CanEmit(runStatus[j], "cancelling")
    /\ runStatus' = [runStatus EXCEPT ![j] = "cancelling"]
    /\ phase' = "grace" /\ cur' = j
    /\ UNCHANGED <<storeVars, approval, mutation, lease, row, todo, active,
                   adopted, tickKill, crashes, workerVars, clientVars>>

\* The child made its run terminal first: the append is refused and the error
\* ends the daemon.
CancelRefused(j) ==
    /\ phase = "active" /\ j \in todo
    /\ WantsCancel(j) \/ (Settled(j) /\ "budget" \in Inputs)
    /\ ~CanEmit(runStatus[j], "cancelling")
    /\ GoDown
    /\ UNCHANGED <<storeVars, runStatus, approval, mutation, row, crashes,
                   workerVars, clientVars>>

\* finish_active: drop the child from memory, release the lease, move the job.
FinishActive(j, state) ==
    /\ active' = [active EXCEPT ![j] = 0]
    /\ adopted' = adopted \ {j}
    /\ lease' = [lease EXCEPT ![j] = "none"]
    /\ Transition(j, state, 0)

\* Mutant: the grace period ends without the kill.
CancelEndSpares ==
    /\ phase = "grace"
    /\ ~SignalRefused(cur)
    /\ UNCHANGED worker
    /\ runStatus' = [runStatus EXCEPT ![cur] = Ended(@, "cancelled")]
    /\ FinishActive(cur, "cancelled")
    /\ phase' = "active" /\ cur' = NoJob
    /\ todo' = todo \ {cur}
    /\ UNCHANGED <<approval, mutation, row, tickKill, crashes, frozen, spawns,
                   begun, lost, clientVars>>

\* The grace period is over: the group is killed, the run gets the terminal
\* event the child may have written first, and the job is cancelled.
CancelEnd ==
    /\ phase = "grace"
    /\ ~SignalRefused(cur)
    /\ worker' = Killed(cur, active[cur])
    /\ runStatus' = [runStatus EXCEPT ![cur] = Ended(@, "cancelled")]
    /\ FinishActive(cur, "cancelled")
    /\ phase' = "active" /\ cur' = NoJob
    /\ todo' = todo \ {cur}
    /\ UNCHANGED <<approval, mutation, row, tickKill, crashes, frozen, spawns,
                   begun, lost, clientVars>>

CancelSignalRefused ==
    /\ phase = "grace"
    /\ SignalRefused(cur)
    /\ GoDown
    /\ UNCHANGED <<storeVars, runStatus, approval, mutation, row, crashes,
                   workerVars, clientVars>>

\* Pause: SIGSTOP the group, then record it.
PauseJob(j) ==
    /\ phase = "active" /\ j \in todo
    /\ WantsPause(j) /\ ~SignalRefused(j)
    /\ CanEmit(runStatus[j], "paused")
    /\ frozen' = [frozen EXCEPT ![j] = @ \cup ({active[j]} \cap Spawns)]
    /\ runStatus' = [runStatus EXCEPT ![j] = "paused"]
    /\ Transition(j, "paused", active[j])
    /\ todo' = todo \ {j}
    /\ UNCHANGED <<approval, mutation, lease, row, phase, cur, active, adopted,
                   tickKill, crashes, worker, spawns, begun, lost, clientVars>>

\* The run is over or being cancelled: the Paused event is refused after the
\* SIGSTOP (or the SIGSTOP itself is), and the error ends the daemon.
PauseRefused(j) ==
    /\ phase = "active" /\ j \in todo
    /\ WantsPause(j)
    /\ SignalRefused(j) \/ ~CanEmit(runStatus[j], "paused")
    /\ frozen' = [frozen EXCEPT ![j] = IF SignalRefused(j) THEN @
                                       ELSE @ \cup ({active[j]} \cap Spawns)]
    /\ GoDown
    /\ UNCHANGED <<storeVars, runStatus, approval, mutation, row, crashes,
                   worker, spawns, begun, lost, clientVars>>

\* Resume: the memory it gave back may be taken (reacquire), so it stays paused.
ResumeHeld(j) ==
    /\ "hold" \in Inputs
    /\ phase = "active" /\ j \in todo
    /\ WantsResume(j)
    /\ todo' = todo \ {j}
    /\ UNCHANGED <<storeVars, ledgerVars, row, phase, cur, active, adopted,
                   tickKill, crashes, workerVars, clientVars>>

\* Mutant: the resume is recorded and the child not continued.
ResumeJobUnsignalled(j) ==
    /\ phase = "active" /\ j \in todo
    /\ WantsResume(j) /\ ~SignalRefused(j)
    /\ CanEmit(runStatus[j], "running")
    /\ UNCHANGED frozen
    /\ runStatus' = [runStatus EXCEPT ![j] = "running"]
    /\ Transition(j, "running", active[j])
    /\ UNCHANGED <<approval, mutation, lease, row, phase, todo, cur, active,
                   adopted, tickKill, crashes, worker, spawns, begun, lost, clientVars>>

\* Resume: SIGCONT, record it, and fall through to the checks of a running job
\* (j stays in todo).
ResumeJob(j) ==
    /\ phase = "active" /\ j \in todo
    /\ WantsResume(j) /\ ~SignalRefused(j)
    /\ CanEmit(runStatus[j], "running")
    /\ frozen' = [frozen EXCEPT ![j] = @ \ {active[j]}]
    /\ runStatus' = [runStatus EXCEPT ![j] = "running"]
    /\ Transition(j, "running", active[j])
    /\ UNCHANGED <<approval, mutation, lease, row, phase, todo, cur, active,
                   adopted, tickKill, crashes, worker, spawns, begun, lost, clientVars>>

ResumeRefused(j) ==
    /\ phase = "active" /\ j \in todo
    /\ WantsResume(j)
    /\ SignalRefused(j) \/ ~CanEmit(runStatus[j], "running")
    /\ frozen' = [frozen EXCEPT ![j] = IF SignalRefused(j) THEN @ ELSE @ \ {active[j]}]
    /\ GoDown
    /\ UNCHANGED <<storeVars, runStatus, approval, mutation, row, crashes,
                   worker, spawns, begun, lost, clientVars>>

\* The child has exited.  Its run decides: over, so the job is; never started
\* and a retry permitted, so the job is queued again; otherwise the job goes
\* through reconcile_interrupted and leaves memory without releasing the lease.
\* The code retries only after a nonzero exit code, which the model leaves open.
ExitFinishes(j) ==
    /\ runStatus[j] \in RunTerminal
    /\ FinishActive(j, MapRunStatus(runStatus[j]))
    /\ UNCHANGED <<runStatus, mutation>>

ExitRetries(j) ==
    /\ runStatus[j] = "queued" /\ RetryPermitted(j)
    /\ FinishActive(j, "queued")
    /\ UNCHANGED <<runStatus, mutation>>

ExitInterrupted(j) ==
    /\ runStatus[j] \notin RunTerminal
    /\ ReconcileInterrupted(j)
    /\ active' = [active EXCEPT ![j] = 0]
    /\ adopted' = adopted \ {j}
    /\ UNCHANGED lease

TickExited(j) ==
    /\ phase = "active" /\ j \in todo
    /\ Settled(j) /\ ~Alive(j, active[j])
    /\ ExitFinishes(j) \/ ExitRetries(j) \/ ExitInterrupted(j)
    /\ todo' = todo \ {j}
    /\ UNCHANGED <<approval, row, phase, cur, tickKill, crashes, workerVars, clientVars>>

\* The child runs on: a run waiting for permission is shown as such.
TickAlive(j) ==
    /\ phase = "active" /\ j \in todo
    /\ Settled(j) /\ Alive(j, active[j])
    /\ IF runStatus[j] = "waiting_for_permission" /\ jobState[j] # "waiting_approval"
       THEN Transition(j, "waiting_approval", active[j])
       ELSE UNCHANGED storeVars
    /\ todo' = todo \ {j}
    /\ UNCHANGED <<ledgerVars, row, phase, cur, active, adopted, tickKill,
                   crashes, workerVars, clientVars>>

\* Mutant: only jobs still being prepared are cancelled from the queue.
ActiveDoneSkipsQueued ==
    /\ phase = "active" /\ todo = {}
    /\ phase' = "cancelq"
    /\ todo' = {j \in Jobs : jobState[j] = "preparing" /\ cancelReq[j]}
    /\ UNCHANGED <<storeVars, ledgerVars, row, cur, active, adopted, tickKill,
                   crashes, workerVars, clientVars>>

ActiveDone ==
    /\ phase = "active" /\ todo = {}
    /\ phase' = "cancelq"
    /\ todo' = {j \in Jobs : jobState[j] \in {"queued", "preparing"} /\ cancelReq[j]}
    /\ UNCHANGED <<storeVars, ledgerVars, row, cur, active, adopted, tickKill,
                   crashes, workerVars, clientVars>>

-----------------------------------------------------------------------------
(* Engine::tick, second half: the queue, the schedule, the process table.   *)

\* cancel_queued, first its run (when it has one) ...
CancelQueued(j) ==
    /\ phase = "cancelq" /\ j \in todo
    /\ linked[j] => CanEmit(runStatus[j], "cancelling")
    /\ runStatus' = [runStatus EXCEPT ![j] = IF linked[j] THEN "cancelled" ELSE @]
    /\ phase' = "cancelrec" /\ cur' = j
    /\ UNCHANGED <<storeVars, approval, mutation, lease, row, todo, active,
                   adopted, tickKill, crashes, workerVars, clientVars>>

\* ... whose events are refused when it is already over, which ends the daemon;
CancelQueuedRefused(j) ==
    /\ phase = "cancelq" /\ j \in todo
    /\ linked[j] /\ ~CanEmit(runStatus[j], "cancelling")
    /\ GoDown
    /\ UNCHANGED <<storeVars, runStatus, approval, mutation, row, crashes,
                   workerVars, clientVars>>

\* ... and then the job, in the other database.
CancelRecord ==
    /\ phase = "cancelrec"
    /\ Transition(cur, "cancelled", 0)
    /\ phase' = "cancelq" /\ cur' = NoJob
    /\ todo' = todo \ {cur}
    /\ UNCHANGED <<ledgerVars, row, active, adopted, tickKill, crashes,
                   workerVars, clientVars>>

\* ready_jobs, less the retries whose backoff has not elapsed.
Ready == {j \in Jobs : jobState[j] = "queued" /\ ~pauseReq[j] /\ ~cancelReq[j]}

CancelQueuedDone ==
    /\ phase = "cancelq" /\ todo = {}
    /\ IF tickKill
       THEN phase' = "sweep" /\ todo' = {}
       ELSE /\ phase' = "schedule"
            /\ \E waiting \in SUBSET {j \in Ready : attempt[j] > 0} :
                   todo' = Ready \ waiting
    /\ UNCHANGED <<storeVars, ledgerVars, row, cur, active, adopted, tickKill,
                   crashes, workerVars, clientVars>>

\* Mutant: jobs that are over still count against the limit.
FreeSlotCountsFinished ==
    Cardinality({j \in Jobs : jobState[j] \notin {"absent", "preparing", "queued"}}) < Slots

\* schedule's loop goes on while the daemon supervises fewer children than slots.
FreeSlot == Cardinality({j \in Jobs : active[j] # 0}) < Slots

\* A candidate is passed over: it does not fit yet, or another owner's lease on
\* its run has not expired, or the bound on children is reached.
PassOver(j) ==
    /\ phase = "schedule" /\ j \in todo /\ FreeSlot
    /\ "hold" \in Inputs \/ lease[j] = "stale" \/ spawns[j] = MaxSpawns
    /\ todo' = todo \ {j}
    /\ UNCHANGED <<storeVars, ledgerVars, row, phase, cur, active, adopted,
                   tickKill, crashes, workerVars, clientVars>>

\* A job that will not be started is failed in both databases: its run first ...
FailRun(j) ==
    /\ runStatus' = [runStatus EXCEPT ![j] = Ended(@, "failed")]
    /\ phase' = "failrec" /\ cur' = j
    /\ UNCHANGED <<storeVars, todo>>

\* ... and then the job.  A daemon that dies between them leaves a queued job
\* whose run has failed.
FailRecord ==
    /\ phase = "failrec"
    /\ Transition(cur, "failed", 0)
    /\ phase' = "schedule" /\ cur' = NoJob
    /\ todo' = todo \ {cur}
    /\ UNCHANGED <<ledgerVars, row, active, adopted, tickKill, crashes,
                   workerVars, clientVars>>

\* reject_oversized: it cannot fit on this machine at all.
RejectOversized(j) ==
    /\ "reject" \in Inputs
    /\ phase = "schedule" /\ j \in todo /\ FreeSlot
    /\ FailRun(j)
    /\ UNCHANGED <<approval, mutation, lease, row, active, adopted, tickKill,
                   crashes, workerVars, clientVars>>

\* start_job: validate_worktree fails, and its error ends the daemon.
WorktreeInvalid(j) ==
    /\ "badtree" \in Inputs
    /\ phase = "schedule" /\ j \in todo /\ FreeSlot
    /\ GoDown
    /\ UNCHANGED <<storeVars, runStatus, approval, mutation, row, crashes,
                   workerVars, clientVars>>

\* Mutant: another owner's lease does not keep the child from being started.
StartJobUnleased(j) ==
    /\ phase = "schedule" /\ j \in todo /\ FreeSlot
    /\ spawns[j] < MaxSpawns
    /\ lease' = [lease EXCEPT ![j] = "held"]
    /\ spawns' = [spawns EXCEPT ![j] = @ + 1]
    /\ worker' = [worker EXCEPT ![j][spawns[j] + 1] = "boot"]
    /\ phase' = "spawned" /\ cur' = j
    /\ UNCHANGED <<storeVars, runStatus, approval, mutation, row, todo, active,
                   adopted, tickKill, crashes, frozen, begun, lost, clientVars>>

\* start_job: take the lease and spawn the child ...
StartJob(j) ==
    /\ phase = "schedule" /\ j \in todo /\ FreeSlot
    /\ lease[j] # "stale" /\ spawns[j] < MaxSpawns
    /\ lease' = [lease EXCEPT ![j] = "held"]
    /\ spawns' = [spawns EXCEPT ![j] = @ + 1]
    /\ worker' = [worker EXCEPT ![j][spawns[j] + 1] = "boot"]
    /\ phase' = "spawned" /\ cur' = j
    /\ UNCHANGED <<storeVars, runStatus, approval, mutation, row, todo, active,
                   adopted, tickKill, crashes, frozen, begun, lost, clientVars>>

\* ... then record it as running.  Until then the store does not know of it.
RecordSpawn ==
    /\ phase = "spawned"
    /\ Transition(cur, "running", spawns[cur])
    /\ active' = [active EXCEPT ![cur] = spawns[cur]]
    /\ phase' = "schedule" /\ cur' = NoJob
    /\ todo' = todo \ {cur}
    /\ UNCHANGED <<ledgerVars, row, adopted, tickKill, crashes, workerVars, clientVars>>

\* start_job: the spawn fails.  No attempt is counted.
SpawnFails(j) ==
    /\ "spawnfail" \in Inputs
    /\ phase = "schedule" /\ j \in todo /\ FreeSlot
    /\ lease[j] # "stale"
    /\ lease' = [lease EXCEPT ![j] = "none"]
    /\ IF RetryPermitted(j)
       THEN /\ Transition(j, "queued", 0)
            /\ todo' = todo \ {j}
            /\ UNCHANGED <<runStatus, phase, cur>>
       ELSE FailRun(j)
    /\ UNCHANGED <<approval, mutation, row, active, adopted, tickKill, crashes,
                   workerVars, clientVars>>

ScheduleDone ==
    /\ phase = "schedule"
    /\ todo = {} \/ ~FreeSlot
    /\ phase' = "sweep" /\ todo' = {}
    /\ UNCHANGED <<storeVars, ledgerVars, row, cur, active, adopted, tickKill,
                   crashes, workerVars, clientVars>>

\* Mutant: every row of a nonterminal job is taken for its current one.
IsCurrentAnyAttempt(j, o) == Nonterminal(j) /\ o \in Ordinals

\* sync_process_table_inner: first every live row that is not a nonterminal
\* job's current attempt is closed ...
IsCurrent(j, o) == Nonterminal(j) /\ o = AttemptOrdinal(j)
Sweep ==
    /\ phase = "sweep"
    /\ phase' = "project"
    /\ row' = [j \in Jobs |-> [o \in Ordinals |->
                 IF row[j][o].state \in RowLive /\ ~IsCurrent(j, o)
                 THEN [row[j][o] EXCEPT !.state = "exited"] ELSE row[j][o]]]
    /\ UNCHANGED <<storeVars, ledgerVars, todo, cur, active, adopted, tickKill,
                   crashes, workerVars, clientVars>>

\* ... then each nonterminal job is projected onto its row.  The first refused
\* transition ends the pass (the error is logged): the jobs after it in the
\* list keep the row they had.
Refuses(j) == RowRefuses(CurrentRow(j), ProcessStateFor(jobState[j]))
Projected(S) ==
    [j \in Jobs |-> IF j \in S
        THEN [row[j] EXCEPT ![AttemptOrdinal(j)] = Reconcile(@, ProcessStateFor(jobState[j]))]
        ELSE row[j]]
Project ==
    LET live == {j \in Jobs : Nonterminal(j)}
        bad  == {j \in live : Refuses(j)}
    IN  /\ phase = "project"
        /\ phase' = "tick"
        /\ \E done \in SUBSET (live \ bad) :
              /\ IF bad = {} THEN done = live /\ row' = Projected(live)
                 ELSE \E b \in bad : row' = Projected(done \cup {b})
        /\ UNCHANGED <<storeVars, ledgerVars, todo, cur, active, adopted,
                       tickKill, crashes, workerVars, clientVars>>

\* The daemon dies at any point.  A child it has spawned and not recorded is
\* known to nobody from then on.
Crash ==
    /\ phase # "down"
    /\ crashes < MaxCrashes
    /\ crashes' = crashes + 1
    /\ lost' = IF phase = "spawned" THEN [lost EXCEPT ![cur] = @ \cup {spawns[cur]}]
               ELSE lost
    /\ GoDown
    /\ UNCHANGED <<storeVars, runStatus, approval, mutation, row, worker,
                   frozen, spawns, begun, clientVars>>

\* The lease of a dead daemon runs out.
LeaseExpires(j) ==
    /\ lease[j] = "stale"
    /\ BootWithinLease => \A k \in Spawns : worker[j][k] \notin Unstarted
    /\ lease' = [lease EXCEPT ![j] = "expired"]
    /\ UNCHANGED <<storeVars, runStatus, approval, mutation, row, daemonVars,
                   workerVars, clientVars>>

-----------------------------------------------------------------------------
(* Clients: enqueue, the daemon commands, the remote API, signals.          *)

\* enqueue: the job row first, while the queue has room ...
EnqueueInsert(j) ==
    /\ enq[j] = "idle" /\ jobState[j] = "absent"
    /\ Cardinality({i \in Jobs : Nonterminal(i)}) < MaxQueue
    /\ jobState' = [jobState EXCEPT ![j] = "preparing"]
    /\ enq' = [enq EXCEPT ![j] = "inserted"]
    /\ UNCHANGED <<attempt, pauseReq, cancelReq, pid, linked, killSwitch,
                   ledgerVars, row, daemonVars, workerVars, appending>>

\* ... then the run, in the ledger, by a child that stops once it is queued.
\* That child refuses a run which is past its Queued event, and then fails it.
EnqueueSubmit(j) ==
    /\ enq[j] = "inserted"
    /\ runStatus[j] \in {"none", "queued"}
    /\ runStatus' = [runStatus EXCEPT ![j] = "queued"]
    /\ enq' = [enq EXCEPT ![j] = "submitted"]
    /\ UNCHANGED <<storeVars, approval, mutation, lease, row, daemonVars,
                   workerVars, appending>>

\* The submission fails, or finds the run started by a daemon that recovered
\* the job meanwhile: the job is failed whatever state it is in.
EnqueueFails(j) ==
    /\ enq[j] = "inserted"
    /\ \/ "enqfail" \in Inputs /\ UNCHANGED runStatus
       \/ /\ runStatus[j] \notin {"none", "queued"}
          /\ runStatus' = [runStatus EXCEPT ![j] = Ended(@, "failed")]
    /\ Transition(j, "failed", 0)
    /\ enq' = [enq EXCEPT ![j] = "done"]
    /\ UNCHANGED <<approval, mutation, lease, row, daemonVars, workerVars, appending>>

\* ... then the job again: mark_queued, or mark_queued_paused for a job enqueued
\* with --initially-paused.  Both refuse a job that is no longer preparing.
EnqueueMark(j, park) ==
    /\ enq[j] = "submitted"
    /\ park => "park" \in Inputs
    /\ enq' = [enq EXCEPT ![j] = "done"]
    /\ IF jobState[j] = "preparing"
       THEN /\ jobState' = [jobState EXCEPT ![j] = IF park THEN "paused" ELSE "queued"]
            /\ pauseReq' = [pauseReq EXCEPT ![j] = @ \/ park]
            /\ linked' = [linked EXCEPT ![j] = TRUE]
       ELSE UNCHANGED <<jobState, pauseReq, linked>>
    /\ UNCHANGED <<attempt, cancelReq, pid, killSwitch, ledgerVars, row,
                   daemonVars, workerVars, appending>>

\* The enqueuing client dies; recover_preparing finds what it left.
EnqueueAbandoned(j) ==
    /\ enq[j] \in {"inserted", "submitted"}
    /\ enq' = [enq EXCEPT ![j] = "done"]
    /\ UNCHANGED <<storeVars, ledgerVars, row, daemonVars, workerVars, appending>>

\* `daemon pause|resume` and the remote action: one bit of the job.
RequestPause(j, value) ==
    /\ (IF value THEN "pause" ELSE "resume") \in Inputs
    /\ Nonterminal(j)
    /\ pauseReq' = [pauseReq EXCEPT ![j] = value]
    /\ UNCHANGED <<jobState, attempt, cancelReq, pid, linked, killSwitch,
                   ledgerVars, row, daemonVars, workerVars, clientVars>>

\* `daemon cancel` and the remote action: the job's bit, then two events on its
\* run, by another process than the daemon.
RequestCancel(j) ==
    /\ "cancel" \in Inputs
    /\ Nonterminal(j)
    /\ cancelReq' = [cancelReq EXCEPT ![j] = TRUE]
    /\ appending' = [appending EXCEPT ![j] = @ \/ linked[j]]
    /\ UNCHANGED <<jobState, attempt, pauseReq, pid, linked, killSwitch,
                   ledgerVars, row, daemonVars, workerVars, enq>>

AppendCancellation(j) ==
    /\ appending[j]
    /\ appending' = [appending EXCEPT ![j] = FALSE]
    /\ runStatus' = [runStatus EXCEPT ![j] = Ended(@, "cancelling")]
    /\ UNCHANGED <<storeVars, approval, mutation, lease, row, daemonVars,
                   workerVars, enq>>

\* `processes signal`: a latch on a live row.
SignalRow(j, o, sig) ==
    /\ "signal" \in Inputs
    /\ row[j][o].state \in RowLive
    /\ row' = [row EXCEPT ![j][o] = Signalled(@, sig)]
    /\ UNCHANGED <<storeVars, ledgerVars, daemonVars, workerVars, clientVars>>

\* `daemon kill-switch engage|release`
SetKillSwitch(value) ==
    /\ "kill" \in Inputs
    /\ killSwitch' = value
    /\ UNCHANGED <<jobState, attempt, pauseReq, cancelReq, pid, linked,
                   ledgerVars, row, daemonVars, workerVars, clientVars>>

\* decide_approval, or the child itself when the request has expired.
DecideApproval(j) ==
    /\ approval[j] = "pending"
    /\ CanEmit(runStatus[j], "running")
    /\ approval' = [approval EXCEPT ![j] = "decided"]
    /\ runStatus' = [runStatus EXCEPT ![j] = "running"]
    /\ UNCHANGED <<storeVars, mutation, lease, row, daemonVars, workerVars, clientVars>>

-----------------------------------------------------------------------------
(* The child: `task run` under DurableRunRecorder.                          *)

Running(j, k) == worker[j][k] \in WorkerLive /\ k \notin frozen[j]
Becomes(j, k, state) == worker' = [worker EXCEPT ![j][k] = state]

\* DurableRunRecorder::submit: only a run with nothing but its Queued event may
\* be executed.  A run that is over is reported; any other is refused and failed.
WorkerSubmit(j, k) ==
    /\ Running(j, k) /\ worker[j][k] = "boot"
    /\ IF runStatus[j] = "queued"
       THEN Becomes(j, k, "ready") /\ UNCHANGED runStatus
       ELSE /\ Becomes(j, k, "closing")
            /\ runStatus' = [runStatus EXCEPT ![j] = Ended(@, "failed")]
    /\ UNCHANGED <<storeVars, approval, mutation, lease, row, daemonVars,
                   frozen, spawns, begun, lost, clientVars>>

\* The Started event, after which tools execute.
WorkerBegin(j, k) ==
    /\ Running(j, k) /\ worker[j][k] = "ready"
    /\ CanEmit(runStatus[j], "running")
    /\ Becomes(j, k, "executing")
    /\ runStatus' = [runStatus EXCEPT ![j] = "running"]
    /\ begun' = [begun EXCEPT ![j] = @ \cup {k}]
    /\ UNCHANGED <<storeVars, approval, mutation, lease, row, daemonVars,
                   frozen, spawns, lost, clientVars>>

\* A tool asks for permission, and goes on once it has an answer.
WorkerAsk(j, k) ==
    /\ "approve" \in Inputs
    /\ Running(j, k) /\ worker[j][k] = "executing"
    /\ approval[j] = "none"
    /\ CanEmit(runStatus[j], "waiting_for_permission")
    /\ Becomes(j, k, "asking")
    /\ approval' = [approval EXCEPT ![j] = "pending"]
    /\ runStatus' = [runStatus EXCEPT ![j] = "waiting_for_permission"]
    /\ UNCHANGED <<storeVars, mutation, lease, row, daemonVars, frozen, spawns,
                   begun, lost, clientVars>>

WorkerAnswered(j, k) ==
    /\ Running(j, k) /\ worker[j][k] = "asking"
    /\ approval[j] = "decided"
    /\ Becomes(j, k, "executing")
    /\ UNCHANGED <<storeVars, ledgerVars, row, daemonVars, frozen, spawns,
                   begun, lost, clientVars>>

\* An external mutation is recorded as prepared, performed, and confirmed.  The
\* ledger takes these events from any recorder of the run; reconcile_interrupted
\* is written for a child that dies between them.
WorkerPrepare(j, k) ==
    /\ "mutate" \in Inputs
    /\ Running(j, k) /\ worker[j][k] = "executing"
    /\ mutation[j] = "none" /\ CanRecord(runStatus[j])
    /\ mutation' = [mutation EXCEPT ![j] = "pending"]
    /\ UNCHANGED <<storeVars, runStatus, approval, lease, row, daemonVars,
                   workerVars, clientVars>>

WorkerConfirm(j, k) ==
    /\ Running(j, k) /\ worker[j][k] = "executing"
    /\ mutation[j] = "pending" /\ CanRecord(runStatus[j])
    /\ mutation' = [mutation EXCEPT ![j] = "confirmed"]
    /\ UNCHANGED <<storeVars, runStatus, approval, lease, row, daemonVars,
                   workerVars, clientVars>>

\* The run completes or fails; the child still has to exit.
WorkerFinish(j, k, outcome) ==
    /\ Running(j, k) /\ worker[j][k] = "executing"
    /\ CanEmit(runStatus[j], outcome)
    /\ Becomes(j, k, "closing")
    /\ runStatus' = [runStatus EXCEPT ![j] = outcome]
    /\ UNCHANGED <<storeVars, approval, mutation, lease, row, daemonVars,
                   frozen, spawns, begun, lost, clientVars>>

\* The child exits: its work is done, the ledger refuses its next event, or it
\* dies.
WorkerExit(j, k) ==
    /\ Running(j, k)
    /\ \/ worker[j][k] = "closing"
       \/ worker[j][k] # "boot" /\ runStatus[j] \in RunTerminal
       \/ worker[j][k] = "ready" /\ runStatus[j] = "cancelling"
       \/ "workercrash" \in Inputs
    /\ Becomes(j, k, "dead")
    /\ UNCHANGED <<storeVars, ledgerVars, row, daemonVars, frozen, spawns,
                   begun, lost, clientVars>>

-----------------------------------------------------------------------------
DaemonStep ==
    \/ PrepareDone \/ RecoverDone \/ TickSignals \/ CancelEnd
    \/ CancelSignalRefused \/ ActiveDone \/ CancelRecord \/ CancelQueuedDone
    \/ RecordSpawn \/ FailRecord \/ ScheduleDone \/ Sweep \/ Project
    \/ \E j \in Jobs :
         \/ RecoverPreparing(j) \/ RecoverPreparingFails(j) \/ RecoverPreparingRaced(j)
         \/ RecoverJob(j) \/ AdoptJob(j)
         \/ CancelBegin(j) \/ CancelRefused(j)
         \/ PauseJob(j) \/ PauseRefused(j)
         \/ ResumeHeld(j) \/ ResumeJob(j) \/ ResumeRefused(j)
         \/ TickExited(j) \/ TickAlive(j)
         \/ CancelQueued(j) \/ CancelQueuedRefused(j)
         \/ PassOver(j) \/ RejectOversized(j) \/ WorktreeInvalid(j)
         \/ StartJob(j) \/ SpawnFails(j)

ClientStep ==
    \/ \E j \in Jobs :
         \/ EnqueueInsert(j) \/ EnqueueSubmit(j) \/ EnqueueFails(j) \/ EnqueueAbandoned(j)
         \/ \E park \in BOOLEAN : EnqueueMark(j, park)
         \/ \E value \in BOOLEAN : RequestPause(j, value)
         \/ RequestCancel(j) \/ AppendCancellation(j) \/ DecideApproval(j)
         \/ \E o \in Ordinals, sig \in Signals : SignalRow(j, o, sig)
    \/ \E value \in BOOLEAN : SetKillSwitch(value)

WorkerStep(j, k) ==
    \/ WorkerSubmit(j, k) \/ WorkerBegin(j, k) \/ WorkerAsk(j, k)
    \/ WorkerAnswered(j, k) \/ WorkerPrepare(j, k) \/ WorkerConfirm(j, k)
    \/ \E outcome \in {"succeeded", "failed"} : WorkerFinish(j, k, outcome)
    \/ WorkerExit(j, k)

Next ==
    \/ Start \/ DaemonStep \/ Crash
    \/ ClientStep
    \/ \E j \in Jobs : LeaseExpires(j) \/ \E k \in Spawns : WorkerStep(j, k)

Spec == Init /\ [][Next]_vars

-----------------------------------------------------------------------------
(* Properties.                                                              *)

\* A run is executed at most once: no two children of a job ever get past the
\* Started event, whatever dies and is retried (DurableRunRecorder::submit and
\* the run lease).  Assumes that a child is past submission within one lease.
ExecutedOnce == \A j \in Jobs : \A k, l \in begun[j] : k = l

\* The same as an abstract specification: seen through the run ledger and the
\* Started events, the daemon with its children implements RunContract.
Stage == [j \in Jobs |->
    IF runStatus[j] = "none" THEN "none"
    ELSE IF runStatus[j] \in RunTerminal THEN "over"
    ELSE IF begun[j] = {} THEN "accepted" ELSE "executing"]
Contract == INSTANCE RunContract WITH
    Runs <- Jobs, Children <- Spawns, stage <- Stage, executor <- begun
ImplementsContract == Contract!CSpec

\* Once the daemon has recovered, it supervises every live child of a job in an
\* active state; before that the store names it.  The only others are the
\* children whose daemon died between spawn and transition (start_job).
Recovering == phase \in {"down", "prepare", "recover"}
Supervised ==
    \A j \in Jobs, k \in Spawns :
        worker[j][k] \in WorkerLive /\ k \notin lost[j] =>
            \/ phase = "spawned" /\ cur = j /\ k = spawns[j]
            \/ /\ jobState[j] \in JobActive /\ pid[j] = k
               /\ active[j] = k \/ (Recovering /\ active[j] = 0)

\* The concurrency limit counts processes, not rows: however daemons die and
\* retry, no more children run at once than there are slots (schedule, recover).
\* Again a child lost between spawn and transition escapes the count.
SlotsBound ==
    Cardinality({c \in Jobs \X Spawns : worker[c[1]][c[2]] \in WorkerLive /\ c[2] \notin lost[c[1]]})
        <= Slots

\* A job and its run end alike: a finished job's run has the same end.  Three
\* exceptions: a cancelled job whose child finished during its grace period; a
\* child nobody supervises that finished a run whose job was then refused; and a
\* job cancelled before it was linked to its run, which nobody will execute.
TerminalAgreement ==
    \A j \in Jobs : jobState[j] \in JobTerminal /\ linked[j] =>
        \/ runStatus[j] = jobState[j]
        \/ runStatus[j] \in RunTerminal /\ (jobState[j] = "cancelled" \/ lost[j] # {})
        \/ jobState[j] = "cancelled" /\ attempt[j] = 0 /\ runStatus[j] \in {"queued", "cancelling"}

\* A child stopped by SIGSTOP is never forgotten: once recovered, the daemon has
\* it as a paused job, which a resume will continue or a cancel will kill.
\* (Unless a child nobody supervises writes to the same run.)
FrozenIsPaused ==
    \A j \in Jobs : \A k \in frozen[j] :
        worker[j][k] \in WorkerLive /\ ~Recovering /\ lost[j] = {} =>
            jobState[j] = "paused" /\ active[j] = k

\* sync_process_table_inner: no reader ever sees two live rows of one job.
OneLiveRow ==
    \A j \in Jobs, o, p \in Ordinals :
        row[j][o].state \in RowLive /\ row[j][p].state \in RowLive => o = p

\* A job that is over stays over, although DaemonStore::transition does not ask
\* which state it leaves: no loop of the daemon and no client brings one back.
JobsStayOver ==
    [][\A j \in Jobs : jobState[j] \in JobTerminal => jobState'[j] \in JobTerminal]_vars

\* The end of a run is written once: of the child, the daemon and the clients that
\* append to it, the first terminal event stands, in every race of a completion
\* with a cancellation, a budget, a failed start or a recovery.
EndsStand ==
    [][\A j \in Jobs : runStatus[j] \in RunTerminal => runStatus'[j] = runStatus[j]]_vars

\* insert_preparing's limit holds at every moment, not only at the insertion:
\* recovery, retries and resumes never put more jobs in play than were let in.
QueueBound == Cardinality({j \in Jobs : Nonterminal(j)}) <= MaxQueue

\* The lease the daemon heartbeats is its own, so tick_active's lease-lost branch
\* is never taken, and an adoptable worker always has a lease to take over.
LeaseHeld ==
    \A j \in Jobs :
        /\ active[j] # 0 => lease[j] = "held"
        /\ phase = "recover" /\ j \in todo /\ Alive(j, pid[j]) => lease[j] # "none"

\* The inductive invariant behind ExecutedOnce and LeaseHeld, in parts.
\* What the daemon's place in its loop says about its memory.
PhaseInv ==
    /\ phase \in {"grace", "cancelrec", "spawned", "failrec"} => cur \in Jobs
    /\ phase \in {"down", "prepare"} => \A j \in Jobs : active[j] = 0
    /\ phase \in {"active", "grace"} => \A j \in todo : active[j] # 0
    /\ phase = "grace" => cur \in todo
    /\ phase = "spawned" => lease[cur] = "held"
    /\ phase \in {"spawned", "failrec"} => cur \in todo
    /\ phase = "recover" => \A j \in todo :
         active[j] = 0 /\ jobState[j] \notin {"absent", "preparing", "queued"}
    /\ phase \in {"schedule", "spawned", "failrec"} => \A j \in todo : active[j] = 0 /\ pid[j] = 0

\* Memory, store and ledger agree on who is being run.
StoreInv ==
    \A j \in Jobs :
        /\ active[j] # 0 => lease[j] = "held"
        /\ active[j] # 0 => jobState[j] \notin {"absent", "preparing", "queued"}
        /\ pid[j] # 0 => jobState[j] \in JobActive
        /\ Alive(j, pid[j]) => lease[j] # "none"
        /\ attempt[j] <= spawns[j]
        /\ phase = "spawned" /\ cur = j => attempt[j] < spawns[j]

\* A child that may still start is the last one spawned, is the one the store
\* knows if it knows one, and stands in the way of every other: its lease is held
\* for it, or has not run out since its daemon died.
UnstartedInv ==
    \A j \in Jobs, k \in Spawns :
        /\ k > spawns[j] => worker[j][k] = "none"
        /\ worker[j][k] \in Unstarted =>
             /\ k = spawns[j] /\ pid[j] \in {0, k}
             /\ \/ lease[j] = "stale"
                \/ /\ lease[j] = "held"
                   /\ active[j] = k \/ (phase = "spawned" /\ cur = j)

\* Nothing has begun while a child may still pass the submission.
BegunInv ==
    \A j \in Jobs :
        /\ begun[j] # {} => runStatus[j] \notin {"none", "queued"}
        /\ \A k \in Spawns : worker[j][k] = "ready" => begun[j] = {}
        /\ \A k, l \in begun[j] : k = l

\* A run that was never submitted has no job that is queued, scheduled, started
\* or about to be cancelled by a client.
AcceptedInv ==
    \A j \in Jobs : runStatus[j] = "none" =>
        /\ ~linked[j] /\ ~appending[j] /\ enq[j] # "submitted"
        /\ spawns[j] = 0 /\ active[j] = 0 /\ jobState[j] # "queued"
        /\ phase \in {"schedule", "spawned", "failrec"} => j \notin todo

OnceInv == UnstartedInv /\ BegunInv /\ AcceptedInv

\* The inductive invariants behind the other properties, in parts.
\* The rows: a job without a row in the store has none in the table, and between
\* the sweep and the projection a job that is not over has its current row at
\* most, although clients move jobs in between.
RowInv ==
    /\ OneLiveRow
    /\ \A j \in Jobs : jobState[j] \in {"absent", "preparing"} => attempt[j] = 0
    /\ \A j \in Jobs, o \in Ordinals : row[j][o].state \in RowLive =>
         /\ jobState[j] # "absent"
         /\ phase = "project" /\ Nonterminal(j) => o = AttemptOrdinal(j)

\* An enqueue still under way is of a job nobody has started: the daemon can at
\* most have cancelled it.  Its work lists hold no such job, except the one of
\* cancel_queued.  (Not so if the daemon started during the enqueue: "enqrace".)
EnqueueInv ==
    /\ \A j \in Jobs :
         /\ enq[j] = "idle" <=> jobState[j] = "absent"
         /\ enq[j] \in {"inserted", "submitted"} => jobState[j] \in {"preparing", "cancelled"}
    /\ phase \in {"prepare", "recover", "schedule", "spawned", "failrec"} =>
         \A j \in todo : enq[j] = "done"
    /\ phase = "prepare" => \A j \in todo : jobState[j] = "preparing"
    /\ phase = "recover" => \A j \in todo : jobState[j] \in JobActive
    /\ phase \in {"schedule", "spawned", "failrec"} => \A j \in todo : jobState[j] = "queued"
    /\ phase \in {"cancelq", "cancelrec"} => \A j \in todo : enq[j] # "idle" /\ pid[j] = 0
    /\ phase = "cancelrec" => cur \in todo

\* The pid of the store and the child in memory are the same, but for the jobs
\* recovery has still to visit, and every live child is one of them.
ChildInv ==
    \A j \in Jobs :
        /\ active[j] # 0 \/ ~Recovering \/ (phase = "recover" /\ j \notin todo) => pid[j] = active[j]
        /\ pid[j] <= spawns[j]
        /\ \A k \in Spawns : worker[j][k] \in WorkerLive /\ k \notin lost[j] =>
             (phase = "spawned" /\ cur = j /\ k = spawns[j]) \/ pid[j] = k

\* No more jobs with a child than slots, and one less while a child is started.
Manned == {j \in Jobs : pid[j] # 0}
SlotsInv ==
    /\ IsFiniteSet(Manned)
    /\ Cardinality(Manned) <= Slots
    /\ phase = "spawned" => Cardinality(Manned) < Slots

\* The jobs that are not over, whose number insert_preparing limits.
OpenJobs == {j \in Jobs : Nonterminal(j)}
QueueInv == IsFiniteSet(OpenJobs) /\ Cardinality(OpenJobs) <= MaxQueue

\* A stopped child is never the one just started; without handoff, recovery has
\* none in memory; and nothing shows its run as waiting for permission, which
\* would take the job out of the paused state.
FrozenInv ==
    \A j \in Jobs :
        /\ Recovering => active[j] = 0
        /\ \A k \in frozen[j] :
             /\ k <= spawns[j]
             /\ ~(phase = "spawned" /\ cur = j /\ k = spawns[j])
             /\ worker[j][k] \in WorkerLive /\ ~Recovering /\ lost[j] = {} =>
                  /\ jobState[j] = "paused" /\ active[j] = k
                  /\ runStatus[j] # "waiting_for_permission"

\* A job that is not linked to its run yet has done nothing with it.
UnlinkedInv ==
    \A j \in Jobs :
        /\ jobState[j] \in {"absent", "preparing"} \/ enq[j] \in {"inserted", "submitted"} => ~linked[j]
        /\ enq[j] = "submitted" => runStatus[j] # "none"
        /\ ~linked[j] => /\ runStatus[j] \in {"none", "queued"}
                         /\ spawns[j] = 0 /\ ~appending[j]
                         /\ jobState[j] \in {"absent", "preparing", "failed", "cancelled"}
        /\ spawns[j] = 0 => approval[j] = "none"
        /\ \A k \in Spawns : k > spawns[j] => worker[j][k] = "none"

\* A run that is over while its job is queued was ended by a cancellation or a
\* refusal cut short, by a child nobody supervises, or by the child just started.
QueuedInv ==
    /\ \A j \in Jobs : jobState[j] = "queued" /\ runStatus[j] \in RunTerminal =>
         \/ cancelReq[j] \/ lost[j] # {} \/ runStatus[j] = "failed"
         \/ phase = "spawned" /\ cur = j
    /\ phase \in {"cancelq", "cancelrec"} => \A j \in todo : cancelReq[j]
    /\ phase \in {"schedule", "spawned", "failrec"} => \A j \in todo :
         \/ runStatus[j] \notin RunTerminal \/ lost[j] # {} \/ runStatus[j] = "failed"
         \/ phase = "spawned" /\ cur = j

\* The two halves of cancel_queued and of a refused start, and TerminalAgreement
\* with what makes its third exception last: the job never had a child.
UntouchedRun(j) == spawns[j] = 0 /\ runStatus[j] \in {"queued", "cancelling"}
AgreementInv ==
    /\ phase = "cancelrec" /\ linked[cur] => runStatus[cur] = "cancelled" \/ UntouchedRun(cur)
    /\ phase = "failrec" => /\ runStatus[cur] \in RunTerminal
                            /\ runStatus[cur] = "failed" \/ lost[cur] # {}
    /\ \A j \in Jobs : jobState[j] \in JobTerminal /\ linked[j] =>
         \/ runStatus[j] = jobState[j]
         \/ runStatus[j] \in RunTerminal /\ (jobState[j] = "cancelled" \/ lost[j] # {})
         \/ jobState[j] = "cancelled" /\ UntouchedRun(j)

\* A requested cancellation ends the job.
CancelLeadsToEnd == \A j \in Jobs : cancelReq[j] ~> jobState[j] \in JobTerminal

\* A queued job leaves the queue, also when another one occupies the only slot:
\* that one is over at the latest when its wall-clock budget is.
QueueMoves == \A j \in Jobs : jobState[j] = "queued" ~> jobState[j] # "queued"

\* What the service manager, the daemon's loop and the clock guarantee: the
\* daemon is started again and takes its next step, an enqueuing client finishes
\* or dies, an unrenewed lease runs out, and the wall-clock budget of a child
\* under supervision is exceeded some time.
Fairness ==
    /\ WF_vars(Start) /\ WF_vars(DaemonStep)
    /\ \A j \in Jobs : WF_vars(EnqueueSubmit(j) \/ EnqueueMark(j, FALSE) \/ EnqueueAbandoned(j))
    /\ \A j \in Jobs : WF_vars(LeaseExpires(j))
    /\ "budget" \in Inputs =>
         \A j \in Jobs : SF_vars(CancelBegin(j) \/ CancelRefused(j))
FairSpec == Spec /\ Fairness
=============================================================================

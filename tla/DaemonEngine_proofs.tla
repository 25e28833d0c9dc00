------------------------ MODULE DaemonEngine_proofs ------------------------
(***************************************************************************)
(* Proofs about DaemonEngine, for every set of jobs and every value of the  *)
(* bounds.  The inductive invariant has two layers.  TypeOK, PhaseInv and   *)
(* StoreInv are inductive by themselves: they give TypeOK and LeaseHeld.    *)
(* With BootWithinLease, UnstartedInv, BegunInv and AcceptedInv are added:  *)
(* they give ExecutedOnce and the refinement of RunContract.                *)
(***************************************************************************)
EXTENDS DaemonEngine, TLAPS

USE DaemonAssumption

-----------------------------------------------------------------------------
(* Types of what the handlers are made of.                                  *)

\* The bound on children is a natural number, so 0 (no process) is a pid.
LEMMA MaxSpawnsNat == 0 \in 0 .. MaxSpawns
OBVIOUS

\* DaemonStore::transition keeps the store typed, provided that the job has a child
\* left when its attempt is counted.
LEMMA TransitionType ==
  ASSUME NEW j \in Jobs, NEW state \in JobStates, NEW process \in 0 .. MaxSpawns,
         StoreTypeOK, Transition(j, state, process),
         state = "running" /\ jobState[j] \in {"preparing", "queued"} => attempt[j] <
              MaxSpawns
  PROVE  StoreTypeOK'
BY DEF StoreTypeOK, Transition, Ordinals

\* A daemon that ends leaves its memory and its leases typed.
LEMMA DownType ==
  ASSUME DaemonTypeOK, LedgerTypeOK, GoDown, UNCHANGED <<runStatus, approval, mutation>>,
         crashes' \in 0 .. MaxCrashes
  PROVE  DaemonTypeOK' /\ LedgerTypeOK'
<1>1. lease' \in [Jobs -> {"none", "held", "stale", "expired"}]
  BY DEF LedgerTypeOK, GoDown
<1>2. active' \in [Jobs -> 0 .. MaxSpawns]
  BY DEF GoDown
<1>3. LedgerTypeOK'
  BY <1>1 DEF LedgerTypeOK
<1>4. tickKill' \in BOOLEAN
  BY DEF GoDown
<1>5. phase' \in Phases /\ todo' \in SUBSET Jobs /\ cur' \in Jobs \cup {NoJob} /\
     adopted' \in SUBSET Jobs
  BY DEF GoDown, Phases
<1>6. DaemonTypeOK'
  BY <1>2, <1>4, <1>5 DEF DaemonTypeOK
<1> QED BY <1>3, <1>6

\* reconcile_interrupted decides on a proper job state, and never on running.
LEMMA ReconciledType ==
  ASSUME NEW j \in Jobs, LedgerTypeOK
  PROVE  /\ Reconciled(j).job \in JobStates \ {"running"}
         /\ Reconciled(j).run \in RunStatuses
         /\ Reconciled(j).mutation \in {"none", "pending", "confirmed",
              "needs_reconciliation"}
BY DEF Reconciled, LedgerTypeOK, MapRunStatus, JobStates, JobTerminal, RunStatuses,
   RunTerminal

\* Killing a child keeps the children typed.
LEMMA KilledType ==
  ASSUME NEW j \in Jobs, NEW k, worker \in [Jobs -> [Spawns -> WorkerStates]]
  PROVE  Killed(j, k) \in [Jobs -> [Spawns -> WorkerStates]]
BY DEF Killed, WorkerStates

\* ProcessTable::reconcile returns a row.
LEMMA ReconcileType ==
  ASSUME NEW r \in Row, NEW t \in RowStates PROVE Reconcile(r, t) \in Row
BY DEF Reconcile, Admitted, AdmitRow, Row, RowStates, RowLive

\* ProcessTable::signal returns a row.
LEMMA SignalledType ==
  ASSUME NEW r \in Row, NEW sig \in Signals PROVE Signalled(r, sig) \in Row
BY DEF Signalled, Row

\* finish_active keeps what it writes typed.
LEMMA FinishType ==
  ASSUME NEW j \in Jobs, NEW state \in JobStates, state # "running",
         StoreTypeOK, LedgerTypeOK, DaemonTypeOK, FinishActive(j, state)
  PROVE  /\ StoreTypeOK'
         /\ active' \in [Jobs -> 0 .. MaxSpawns] /\ adopted' \in SUBSET Jobs
         /\ lease' \in [Jobs -> {"none", "held", "stale", "expired"}]
<1>1. StoreTypeOK'
  BY TransitionType DEF FinishActive
<1> QED BY <1>1 DEF FinishActive, LedgerTypeOK, DaemonTypeOK

\* reconcile_interrupted keeps what it writes typed.
LEMMA InterruptedType ==
  ASSUME NEW j \in Jobs, StoreTypeOK, LedgerTypeOK, ReconcileInterrupted(j)
  PROVE  /\ StoreTypeOK'
         /\ runStatus' \in [Jobs -> RunStatuses]
         /\ mutation' \in [Jobs -> {"none", "pending", "confirmed",
              "needs_reconciliation"}]
<1>1. StoreTypeOK'
  BY ReconciledType, TransitionType DEF ReconcileInterrupted
<1> QED BY <1>1, ReconciledType DEF ReconcileInterrupted, LedgerTypeOK

\* attempt_ordinal names one of the job's rows.
LEMMA OrdinalType ==
  ASSUME NEW j \in Jobs, StoreTypeOK PROVE AttemptOrdinal(j) \in Ordinals
BY DEF AttemptOrdinal, StoreTypeOK, Ordinals

\* process_state_for returns a row state.
LEMMA ProcessStateType ==
  ASSUME NEW state PROVE ProcessStateFor(state) \in RowStates
BY DEF ProcessStateFor, RowStates, RowLive

\* Projecting jobs onto their rows keeps the table typed.
LEMMA ProjectedType ==
  ASSUME NEW S, StoreTypeOK, RowTypeOK PROVE Projected(S) \in [Jobs -> [Ordinals -> Row]]
<1> SUFFICES ASSUME NEW j \in Jobs
             PROVE  [row[j] EXCEPT ![AttemptOrdinal(j)] = Reconcile(@,
                  ProcessStateFor(jobState[j]))]
                        \in [Ordinals -> Row]
  BY DEF Projected, RowTypeOK
<1>1. Reconcile(row[j][AttemptOrdinal(j)], ProcessStateFor(jobState[j])) \in Row
  BY OrdinalType, ProcessStateType, ReconcileType DEF RowTypeOK
<1> QED BY <1>1, OrdinalType DEF RowTypeOK

-----------------------------------------------------------------------------
(* Type correctness.                                                        *)

\* Every step keeps every variable in its type: one case per action, and under it
\* one step per group of variables the action writes.
LEMMA TypeStep == TypeOK /\ PhaseInv /\ StoreInv /\ [Next]_vars => TypeOK'
<1> SUFFICES ASSUME TypeOK, PhaseInv, StoreInv, [Next]_vars PROVE TypeOK'
  OBVIOUS
<1> USE DEF TypeOK
<1>1. CASE Start
  <2>1. DaemonTypeOK'
    BY <1>1 DEF Start, DaemonTypeOK, Phases
  <2> QED BY <1>1, <2>1 DEF Start, StoreTypeOK, storeVars, LedgerTypeOK, ledgerVars,
             RowTypeOK, WorkerTypeOK, workerVars, ClientTypeOK, clientVars
<1>2. CASE PrepareDone
  <2>1. DaemonTypeOK'
    BY <1>2 DEF PrepareDone, DaemonTypeOK, Phases
  <2> QED BY <1>2, <2>1 DEF PrepareDone, StoreTypeOK, storeVars, LedgerTypeOK,
             ledgerVars, RowTypeOK, WorkerTypeOK, workerVars, ClientTypeOK,
             clientVars
<1>3. CASE RecoverDone
  <2>1. DaemonTypeOK'
    BY <1>3 DEF RecoverDone, DaemonTypeOK, Phases
  <2> QED BY <1>3, <2>1 DEF RecoverDone, StoreTypeOK, storeVars, LedgerTypeOK,
             ledgerVars, RowTypeOK, WorkerTypeOK, workerVars, ClientTypeOK,
             clientVars
<1>4. CASE TickSignals
  <2>1. \A j \in Jobs : CurrentRow(j).stop \in BOOLEAN /\ CurrentRow(j).suspend \in
       BOOLEAN
    BY OrdinalType DEF CurrentRow, RowTypeOK, Row
  <2>2. cancelReq' \in [Jobs -> BOOLEAN]
    BY <1>4, Zenon DEF TickSignals
  <2>3. pauseReq' \in [Jobs -> BOOLEAN]
    BY <1>4, <2>1 DEF TickSignals, StoreTypeOK
  <2>4. StoreTypeOK'
    BY <1>4, <2>2, <2>3 DEF TickSignals, StoreTypeOK
  <2>5. DaemonTypeOK'
    <3>1. tickKill' \in BOOLEAN
      BY <1>4 DEF TickSignals, StoreTypeOK
    <3> QED BY <1>4, <3>1 DEF TickSignals, DaemonTypeOK, Phases
  <2> QED BY <1>4, <2>4, <2>5 DEF TickSignals, LedgerTypeOK, ledgerVars, RowTypeOK,
             WorkerTypeOK, workerVars, ClientTypeOK, clientVars
<1>5. CASE CancelEnd
  <2>1. cur \in Jobs
    BY <1>5 DEF CancelEnd, PhaseInv
  <2>2. FinishActive(cur, "cancelled") /\ "cancelled" \in JobStates
    BY <1>5 DEF CancelEnd, JobStates, JobTerminal
  <2>3. /\ StoreTypeOK'
       /\ active' \in [Jobs -> 0 .. MaxSpawns] /\ adopted' \in SUBSET Jobs
       /\ lease' \in [Jobs -> {"none", "held", "stale", "expired"}]
    BY <2>1, <2>2, FinishType
  <2>4. StoreTypeOK'
    BY <2>3
  <2>5. LedgerTypeOK'
    BY <1>5, <2>1, <2>3 DEF CancelEnd, LedgerTypeOK, Ended, RunStatuses, RunTerminal
  <2>6. DaemonTypeOK'
    BY <1>5, <2>1, <2>3 DEF CancelEnd, DaemonTypeOK, Phases
  <2>7. WorkerTypeOK'
    BY <1>5, <2>1, KilledType DEF CancelEnd, WorkerTypeOK
  <2> QED BY <1>5, <2>4, <2>5, <2>6, <2>7 DEF CancelEnd, RowTypeOK, ClientTypeOK, clientVars
<1>6. CASE CancelSignalRefused
  <2>1. DaemonTypeOK' /\ LedgerTypeOK'
    BY <1>6, DownType DEF CancelSignalRefused, DaemonTypeOK
  <2> QED BY <1>6, <2>1 DEF CancelSignalRefused, StoreTypeOK, storeVars, RowTypeOK,
             WorkerTypeOK, workerVars, ClientTypeOK, clientVars
<1>7. CASE ActiveDone
  <2>1. DaemonTypeOK'
    BY <1>7 DEF ActiveDone, DaemonTypeOK, Phases
  <2> QED BY <1>7, <2>1 DEF ActiveDone, StoreTypeOK, storeVars, LedgerTypeOK,
             ledgerVars, RowTypeOK, WorkerTypeOK, workerVars, ClientTypeOK,
             clientVars
<1>8. CASE CancelRecord
  <2>1. cur \in Jobs
    BY <1>8 DEF CancelRecord, PhaseInv
  <2>2. StoreTypeOK'
    BY <1>8, <2>1, MaxSpawnsNat, TransitionType DEF CancelRecord, JobStates, JobTerminal
  <2>3. DaemonTypeOK'
    BY <1>8, <2>1 DEF CancelRecord, DaemonTypeOK, Phases
  <2> QED BY <1>8, <2>2, <2>3 DEF CancelRecord, LedgerTypeOK, ledgerVars, RowTypeOK,
             WorkerTypeOK, workerVars, ClientTypeOK, clientVars
<1>9. CASE CancelQueuedDone
  <2>1. DaemonTypeOK'
    BY <1>9 DEF CancelQueuedDone, DaemonTypeOK, Phases, Ready
  <2> QED BY <1>9, <2>1 DEF CancelQueuedDone, StoreTypeOK, storeVars, LedgerTypeOK,
             ledgerVars, RowTypeOK, WorkerTypeOK, workerVars, ClientTypeOK,
             clientVars
<1>10. CASE RecordSpawn
  <2>1. cur \in Jobs
    BY <1>10 DEF RecordSpawn, PhaseInv
  <2>2. spawns[cur] \in 0 .. MaxSpawns
    BY <2>1 DEF WorkerTypeOK
  <2>3. attempt[cur] < MaxSpawns
    BY <1>10, <2>1, <2>2 DEF RecordSpawn, StoreInv, StoreTypeOK, Ordinals
  <2>4. StoreTypeOK'
    BY <1>10, <2>1, <2>2, <2>3, TransitionType DEF RecordSpawn, JobStates, JobActive
  <2>5. DaemonTypeOK'
    BY <1>10, <2>1, <2>2 DEF RecordSpawn, DaemonTypeOK, Phases
  <2> QED BY <1>10, <2>4, <2>5 DEF RecordSpawn, LedgerTypeOK, ledgerVars, RowTypeOK,
             WorkerTypeOK, workerVars, ClientTypeOK, clientVars
<1>11. CASE FailRecord
  <2>1. cur \in Jobs
    BY <1>11 DEF FailRecord, PhaseInv
  <2>2. StoreTypeOK'
    BY <1>11, <2>1, MaxSpawnsNat, TransitionType DEF FailRecord, JobStates, JobTerminal
  <2>3. DaemonTypeOK'
    BY <1>11, <2>1 DEF FailRecord, DaemonTypeOK, Phases
  <2> QED BY <1>11, <2>2, <2>3 DEF FailRecord, LedgerTypeOK, ledgerVars, RowTypeOK,
             WorkerTypeOK, workerVars, ClientTypeOK, clientVars
<1>12. CASE ScheduleDone
  <2>1. DaemonTypeOK'
    BY <1>12 DEF ScheduleDone, DaemonTypeOK, Phases
  <2> QED BY <1>12, <2>1 DEF ScheduleDone, StoreTypeOK, storeVars, LedgerTypeOK,
             ledgerVars, RowTypeOK, WorkerTypeOK, workerVars, ClientTypeOK,
             clientVars
<1>13. CASE Sweep
  <2>1. RowTypeOK'
    <3>1. \A j \in Jobs, o \in Ordinals : row[j][o] \in Row /\ [row[j][o] EXCEPT !.state
         = "exited"] \in Row
      BY DEF RowTypeOK, Row, RowStates
    <3> QED BY <1>13, <3>1 DEF Sweep, RowTypeOK
  <2>2. DaemonTypeOK'
    BY <1>13 DEF Sweep, DaemonTypeOK, Phases
  <2> QED BY <1>13, <2>1, <2>2 DEF Sweep, StoreTypeOK, storeVars, LedgerTypeOK,
             ledgerVars, WorkerTypeOK, workerVars, ClientTypeOK, clientVars
<1>14. CASE Project
  <2>1. RowTypeOK'
    BY <1>14, ProjectedType DEF Project, RowTypeOK
  <2>2. DaemonTypeOK'
    BY <1>14 DEF Project, DaemonTypeOK, Phases
  <2> QED BY <1>14, <2>1, <2>2 DEF Project, StoreTypeOK, storeVars, LedgerTypeOK,
             ledgerVars, WorkerTypeOK, workerVars, ClientTypeOK, clientVars
<1>15. CASE Crash
  <2>1. crashes' \in 0 .. MaxCrashes
    BY <1>15 DEF Crash, DaemonTypeOK
  <2>2. phase = "spawned" => cur \in Jobs /\ spawns[cur] \in Spawns
    BY <1>15 DEF PhaseInv, StoreInv, WorkerTypeOK, StoreTypeOK, Spawns, Ordinals
  <2>3. DaemonTypeOK' /\ LedgerTypeOK'
    BY <1>15, DownType, <2>1, <2>2 DEF Crash
  <2>4. WorkerTypeOK'
    BY <1>15, <2>2 DEF Crash, WorkerTypeOK
  <2> QED BY <1>15, <2>3, <2>4 DEF Crash, StoreTypeOK, storeVars, RowTypeOK,
             ClientTypeOK, clientVars
<1>16. ASSUME NEW j \in Jobs, RecoverPreparing(j) PROVE TypeOK'
  <2>1. StoreTypeOK'
    BY <1>16 DEF RecoverPreparing, StoreTypeOK, JobStates
  <2>2. LedgerTypeOK'
    BY <1>16 DEF RecoverPreparing, LedgerTypeOK, RunStatuses, RunActive
  <2>3. DaemonTypeOK'
    BY <1>16 DEF RecoverPreparing, DaemonTypeOK
  <2> QED BY <1>16, <2>1, <2>2, <2>3 DEF RecoverPreparing, RowTypeOK, WorkerTypeOK,
             workerVars, ClientTypeOK, clientVars
<1>17. ASSUME NEW j \in Jobs, RecoverPreparingFails(j) PROVE TypeOK'
  <2>1. StoreTypeOK'
    BY <1>17, TransitionType DEF RecoverPreparingFails, JobStates, JobTerminal
  <2>2. DaemonTypeOK'
    BY <1>17 DEF RecoverPreparingFails, DaemonTypeOK
  <2> QED BY <1>17, <2>1, <2>2 DEF RecoverPreparingFails, LedgerTypeOK, ledgerVars,
             RowTypeOK, WorkerTypeOK, workerVars, ClientTypeOK, clientVars
<1>18. ASSUME NEW j \in Jobs, RecoverPreparingRaced(j) PROVE TypeOK'
  <2>1. DaemonTypeOK' /\ LedgerTypeOK'
    BY <1>18, DownType DEF RecoverPreparingRaced, DaemonTypeOK
  <2> QED BY <1>18, <2>1 DEF RecoverPreparingRaced, StoreTypeOK, storeVars, RowTypeOK,
             WorkerTypeOK, workerVars, ClientTypeOK, clientVars
<1>19. ASSUME NEW j \in Jobs, RecoverJob(j) PROVE TypeOK'
  <2>1. ReconcileInterrupted(j)
    BY <1>19 DEF RecoverJob
  <2>2. Killed(j, pid[j]) \in [Jobs -> [Spawns -> WorkerStates]]
    BY KilledType DEF WorkerTypeOK
  <2>3. StoreTypeOK'
    BY <2>1, InterruptedType
  <2>4. LedgerTypeOK'
    BY <1>19, <2>1, InterruptedType DEF RecoverJob, LedgerTypeOK
  <2>5. DaemonTypeOK'
    BY <1>19, <2>1, <2>2 DEF RecoverJob, DaemonTypeOK
  <2>6. WorkerTypeOK'
    BY <1>19, <2>2 DEF RecoverJob, WorkerTypeOK
  <2> QED BY <1>19, <2>3, <2>4, <2>5, <2>6 DEF RecoverJob, RowTypeOK, ClientTypeOK,
             clientVars
<1>20. ASSUME NEW j \in Jobs, AdoptJob(j) PROVE TypeOK'
  <2>1. LedgerTypeOK'
    BY <1>20 DEF AdoptJob, LedgerTypeOK
  <2>2. DaemonTypeOK'
    BY <1>20 DEF AdoptJob, DaemonTypeOK, StoreTypeOK
  <2> QED BY <1>20, <2>1, <2>2 DEF AdoptJob, StoreTypeOK, storeVars, RowTypeOK,
             WorkerTypeOK, workerVars, ClientTypeOK, clientVars
<1>21. ASSUME NEW j \in Jobs, CancelBegin(j) PROVE TypeOK'
  <2>1. LedgerTypeOK'
    BY <1>21 DEF CancelBegin, LedgerTypeOK, RunStatuses
  <2>2. DaemonTypeOK'
    BY <1>21 DEF CancelBegin, DaemonTypeOK, Phases
  <2> QED BY <1>21, <2>1, <2>2 DEF CancelBegin, StoreTypeOK, storeVars, RowTypeOK,
             WorkerTypeOK, workerVars, ClientTypeOK, clientVars
<1>22. ASSUME NEW j \in Jobs, CancelRefused(j) PROVE TypeOK'
  <2>1. DaemonTypeOK' /\ LedgerTypeOK'
    BY <1>22, DownType DEF CancelRefused, DaemonTypeOK
  <2> QED BY <1>22, <2>1 DEF CancelRefused, StoreTypeOK, storeVars, RowTypeOK,
             WorkerTypeOK, workerVars, ClientTypeOK, clientVars
<1>23. ASSUME NEW j \in Jobs, PauseJob(j) PROVE TypeOK'
  <2>1. StoreTypeOK'
    BY <1>23, TransitionType DEF PauseJob, JobStates, JobActive, DaemonTypeOK
  <2>2. LedgerTypeOK'
    BY <1>23 DEF PauseJob, LedgerTypeOK, RunStatuses, RunActive
  <2>3. DaemonTypeOK'
    BY <1>23 DEF PauseJob, DaemonTypeOK
  <2>4. WorkerTypeOK'
    BY <1>23 DEF PauseJob, WorkerTypeOK
  <2> QED BY <1>23, <2>1, <2>2, <2>3, <2>4 DEF PauseJob, RowTypeOK, ClientTypeOK, clientVars
<1>24. ASSUME NEW j \in Jobs, PauseRefused(j) PROVE TypeOK'
  <2>1. DaemonTypeOK' /\ LedgerTypeOK'
    BY <1>24, DownType DEF PauseRefused, DaemonTypeOK
  <2>2. WorkerTypeOK'
    BY <1>24 DEF PauseRefused, WorkerTypeOK
  <2> QED BY <1>24, <2>1, <2>2 DEF PauseRefused, StoreTypeOK, storeVars, RowTypeOK,
             ClientTypeOK, clientVars
<1>25. ASSUME NEW j \in Jobs, ResumeHeld(j) PROVE TypeOK'
  <2>1. DaemonTypeOK'
    BY <1>25 DEF ResumeHeld, DaemonTypeOK
  <2> QED BY <1>25, <2>1 DEF ResumeHeld, StoreTypeOK, storeVars, LedgerTypeOK,
             ledgerVars, RowTypeOK, WorkerTypeOK, workerVars, ClientTypeOK,
             clientVars
<1>26. ASSUME NEW j \in Jobs, ResumeJob(j) PROVE TypeOK'
  <2>1. StoreTypeOK'
    BY <1>26, TransitionType DEF ResumeJob, WantsResume, JobStates, JobActive, DaemonTypeOK
  <2>2. LedgerTypeOK'
    BY <1>26 DEF ResumeJob, LedgerTypeOK, RunStatuses, RunActive
  <2>3. WorkerTypeOK'
    BY <1>26 DEF ResumeJob, WorkerTypeOK
  <2> QED BY <1>26, <2>1, <2>2, <2>3 DEF ResumeJob, RowTypeOK, DaemonTypeOK, daemonVars,
             ClientTypeOK, clientVars
<1>27. ASSUME NEW j \in Jobs, ResumeRefused(j) PROVE TypeOK'
  <2>1. DaemonTypeOK' /\ LedgerTypeOK'
    BY <1>27, DownType DEF ResumeRefused, DaemonTypeOK
  <2>2. WorkerTypeOK'
    BY <1>27 DEF ResumeRefused, WorkerTypeOK
  <2> QED BY <1>27, <2>1, <2>2 DEF ResumeRefused, StoreTypeOK, storeVars, RowTypeOK,
             ClientTypeOK, clientVars
<1>28. ASSUME NEW j \in Jobs, TickExited(j) PROVE TypeOK'
  <2>1. StoreTypeOK' /\ LedgerTypeOK' /\ active' \in [Jobs -> 0 .. MaxSpawns] /\
       adopted' \in SUBSET Jobs
    <3>1. CASE ExitFinishes(j)
      <4>1. MapRunStatus(runStatus[j]) \in JobStates /\ MapRunStatus(runStatus[j]) #
           "running"
        BY <3>1 DEF ExitFinishes, MapRunStatus, RunTerminal, JobStates, JobTerminal
      <4> QED BY <1>28, <3>1, <4>1, FinishType DEF ExitFinishes, LedgerTypeOK, TickExited
    <3>2. CASE ExitRetries(j)
      BY <1>28, <3>2, FinishType DEF ExitRetries, LedgerTypeOK, TickExited, JobStates
    <3>3. CASE ExitInterrupted(j)
      BY <1>28, <3>3, InterruptedType DEF ExitInterrupted, LedgerTypeOK, DaemonTypeOK,
         TickExited
    <3> QED BY <1>28, <3>1, <3>2, <3>3 DEF TickExited
  <2>2. StoreTypeOK'
    BY <2>1
  <2>3. LedgerTypeOK'
    BY <2>1
  <2>4. DaemonTypeOK'
    BY <1>28, <2>1 DEF TickExited, DaemonTypeOK
  <2> QED BY <1>28, <2>2, <2>3, <2>4 DEF TickExited, RowTypeOK, WorkerTypeOK,
             workerVars, ClientTypeOK, clientVars
<1>29. ASSUME NEW j \in Jobs, TickAlive(j) PROVE TypeOK'
  <2>1. StoreTypeOK'
    <3>1. active[j] \in 0 .. MaxSpawns /\ "waiting_approval" \in JobStates
      BY DEF DaemonTypeOK, JobStates, JobActive
    <3>2. CASE Transition(j, "waiting_approval", active[j])
      BY <3>1, <3>2, TransitionType
    <3>3. CASE UNCHANGED storeVars
      BY <3>3 DEF storeVars, StoreTypeOK
    <3> QED BY <1>29, <3>2, <3>3 DEF TickAlive
  <2>2. DaemonTypeOK'
    BY <1>29 DEF TickAlive, DaemonTypeOK
  <2> QED BY <1>29, <2>1, <2>2 DEF TickAlive, LedgerTypeOK, ledgerVars, RowTypeOK,
             WorkerTypeOK, workerVars, ClientTypeOK, clientVars
<1>30. ASSUME NEW j \in Jobs, CancelQueued(j) PROVE TypeOK'
  <2>1. LedgerTypeOK'
    BY <1>30 DEF CancelQueued, LedgerTypeOK, RunStatuses, RunTerminal
  <2>2. DaemonTypeOK'
    BY <1>30 DEF CancelQueued, DaemonTypeOK, Phases
  <2> QED BY <1>30, <2>1, <2>2 DEF CancelQueued, StoreTypeOK, storeVars, RowTypeOK,
             WorkerTypeOK, workerVars, ClientTypeOK, clientVars
<1>31. ASSUME NEW j \in Jobs, CancelQueuedRefused(j) PROVE TypeOK'
  <2>1. DaemonTypeOK' /\ LedgerTypeOK'
    BY <1>31, DownType DEF CancelQueuedRefused, DaemonTypeOK
  <2> QED BY <1>31, <2>1 DEF CancelQueuedRefused, StoreTypeOK, storeVars, RowTypeOK,
             WorkerTypeOK, workerVars, ClientTypeOK, clientVars
<1>32. ASSUME NEW j \in Jobs, PassOver(j) PROVE TypeOK'
  <2>1. DaemonTypeOK'
    BY <1>32 DEF PassOver, DaemonTypeOK
  <2> QED BY <1>32, <2>1 DEF PassOver, StoreTypeOK, storeVars, LedgerTypeOK, ledgerVars,
             RowTypeOK, WorkerTypeOK, workerVars, ClientTypeOK, clientVars
<1>33. ASSUME NEW j \in Jobs, RejectOversized(j) PROVE TypeOK'
  <2>1. StoreTypeOK'
    BY <1>33 DEF RejectOversized, FailRun, StoreTypeOK, storeVars
  <2>2. LedgerTypeOK'
    BY <1>33 DEF RejectOversized, FailRun, Ended, LedgerTypeOK, RunStatuses, RunTerminal
  <2>3. DaemonTypeOK'
    BY <1>33 DEF RejectOversized, FailRun, DaemonTypeOK, Phases
  <2> QED BY <1>33, <2>1, <2>2, <2>3 DEF RejectOversized, FailRun, RowTypeOK, WorkerTypeOK,
             workerVars, ClientTypeOK, clientVars
<1>34. ASSUME NEW j \in Jobs, WorktreeInvalid(j) PROVE TypeOK'
  <2>1. DaemonTypeOK' /\ LedgerTypeOK'
    BY <1>34, DownType DEF WorktreeInvalid, DaemonTypeOK
  <2> QED BY <1>34, <2>1 DEF WorktreeInvalid, StoreTypeOK, storeVars, RowTypeOK,
             WorkerTypeOK, workerVars, ClientTypeOK, clientVars
<1>35. ASSUME NEW j \in Jobs, StartJob(j) PROVE TypeOK'
  <2>1. LedgerTypeOK'
    BY <1>35 DEF StartJob, LedgerTypeOK
  <2>2. DaemonTypeOK'
    BY <1>35 DEF StartJob, DaemonTypeOK, Phases
  <2>3. WorkerTypeOK'
    BY <1>35 DEF StartJob, WorkerTypeOK, Spawns, WorkerStates
  <2> QED BY <1>35, <2>1, <2>2, <2>3 DEF StartJob, StoreTypeOK, storeVars, RowTypeOK,
             ClientTypeOK, clientVars
<1>36. ASSUME NEW j \in Jobs, SpawnFails(j) PROVE TypeOK'
  <2>1. StoreTypeOK'
    <3>1. CASE RetryPermitted(j)
      BY <1>36, <3>1, MaxSpawnsNat, TransitionType DEF SpawnFails, JobStates
    <3>2. CASE ~RetryPermitted(j)
      BY <1>36, <3>2 DEF SpawnFails, FailRun, StoreTypeOK, storeVars
    <3> QED BY <3>1, <3>2
  <2>2. LedgerTypeOK'
    BY <1>36 DEF SpawnFails, FailRun, storeVars, Ended, LedgerTypeOK, RunStatuses, RunTerminal
  <2>3. DaemonTypeOK'
    BY <1>36 DEF SpawnFails, FailRun, DaemonTypeOK, Phases
  <2> QED BY <1>36, <2>1, <2>2, <2>3 DEF SpawnFails, FailRun, storeVars, RowTypeOK, WorkerTypeOK,
             workerVars, ClientTypeOK, clientVars
<1>37. ASSUME NEW j \in Jobs, EnqueueInsert(j) PROVE TypeOK'
  <2>1. StoreTypeOK'
    BY <1>37 DEF EnqueueInsert, StoreTypeOK, JobStates
  <2>2. ClientTypeOK'
    BY <1>37 DEF EnqueueInsert, ClientTypeOK
  <2> QED BY <1>37, <2>1, <2>2 DEF EnqueueInsert, LedgerTypeOK, ledgerVars, RowTypeOK,
             DaemonTypeOK, daemonVars, WorkerTypeOK, workerVars
<1>38. ASSUME NEW j \in Jobs, EnqueueSubmit(j) PROVE TypeOK'
  <2>1. LedgerTypeOK'
    BY <1>38 DEF EnqueueSubmit, LedgerTypeOK, RunStatuses, RunActive
  <2>2. ClientTypeOK'
    BY <1>38 DEF EnqueueSubmit, ClientTypeOK
  <2> QED BY <1>38, <2>1, <2>2 DEF EnqueueSubmit, StoreTypeOK, storeVars, RowTypeOK,
             DaemonTypeOK, daemonVars, WorkerTypeOK, workerVars
<1>39. ASSUME NEW j \in Jobs, EnqueueFails(j) PROVE TypeOK'
  <2>1. StoreTypeOK'
    BY <1>39, TransitionType DEF EnqueueFails, JobStates, JobTerminal
  <2>2. LedgerTypeOK'
    BY <1>39 DEF EnqueueFails, Ended, LedgerTypeOK, RunStatuses, RunTerminal
  <2>3. ClientTypeOK'
    BY <1>39 DEF EnqueueFails, ClientTypeOK
  <2> QED BY <1>39, <2>1, <2>2, <2>3 DEF EnqueueFails, RowTypeOK, DaemonTypeOK,
             daemonVars, WorkerTypeOK, workerVars
<1>40. ASSUME NEW j \in Jobs, EnqueueAbandoned(j) PROVE TypeOK'
  <2>1. ClientTypeOK'
    BY <1>40 DEF EnqueueAbandoned, ClientTypeOK
  <2> QED BY <1>40, <2>1 DEF EnqueueAbandoned, StoreTypeOK, storeVars, LedgerTypeOK,
             ledgerVars, RowTypeOK, DaemonTypeOK, daemonVars, WorkerTypeOK,
             workerVars
<1>41. ASSUME NEW j \in Jobs, RequestCancel(j) PROVE TypeOK'
  <2>1. StoreTypeOK'
    BY <1>41 DEF RequestCancel, StoreTypeOK
  <2>2. ClientTypeOK'
    BY <1>41 DEF RequestCancel, ClientTypeOK
  <2> QED BY <1>41, <2>1, <2>2 DEF RequestCancel, LedgerTypeOK, ledgerVars, RowTypeOK,
             DaemonTypeOK, daemonVars, WorkerTypeOK, workerVars
<1>42. ASSUME NEW j \in Jobs, AppendCancellation(j) PROVE TypeOK'
  <2>1. LedgerTypeOK'
    BY <1>42 DEF AppendCancellation, Ended, LedgerTypeOK, RunStatuses
  <2>2. ClientTypeOK'
    BY <1>42 DEF AppendCancellation, ClientTypeOK
  <2> QED BY <1>42, <2>1, <2>2 DEF AppendCancellation, StoreTypeOK, storeVars,
             RowTypeOK, DaemonTypeOK, daemonVars, WorkerTypeOK, workerVars
<1>43. ASSUME NEW j \in Jobs, DecideApproval(j) PROVE TypeOK'
  <2>1. LedgerTypeOK'
    BY <1>43 DEF DecideApproval, LedgerTypeOK, RunStatuses, RunActive
  <2> QED BY <1>43, <2>1 DEF DecideApproval, StoreTypeOK, storeVars, RowTypeOK,
             DaemonTypeOK, daemonVars, WorkerTypeOK, workerVars, ClientTypeOK,
             clientVars
<1>44. ASSUME NEW j \in Jobs, LeaseExpires(j) PROVE TypeOK'
  <2>1. LedgerTypeOK'
    BY <1>44 DEF LeaseExpires, LedgerTypeOK
  <2> QED BY <1>44, <2>1 DEF LeaseExpires, StoreTypeOK, storeVars, RowTypeOK,
             DaemonTypeOK, daemonVars, WorkerTypeOK, workerVars, ClientTypeOK,
             clientVars
<1>45. ASSUME NEW j \in Jobs, NEW park \in BOOLEAN, EnqueueMark(j, park) PROVE TypeOK'
  <2>1. StoreTypeOK'
    BY <1>45 DEF EnqueueMark, StoreTypeOK, Ordinals, JobStates, JobActive
  <2>2. ClientTypeOK'
    BY <1>45 DEF EnqueueMark, ClientTypeOK
  <2> QED BY <1>45, <2>1, <2>2 DEF EnqueueMark, LedgerTypeOK, ledgerVars, RowTypeOK,
             DaemonTypeOK, daemonVars, WorkerTypeOK, workerVars
<1>46. ASSUME NEW j \in Jobs, NEW value \in BOOLEAN, RequestPause(j, value) PROVE TypeOK'
  <2>1. StoreTypeOK'
    BY <1>46 DEF RequestPause, StoreTypeOK
  <2> QED BY <1>46, <2>1 DEF RequestPause, LedgerTypeOK, ledgerVars, RowTypeOK,
             DaemonTypeOK, daemonVars, WorkerTypeOK, workerVars, ClientTypeOK,
             clientVars
<1>47. ASSUME NEW j \in Jobs, NEW o \in Ordinals, NEW sig \in Signals, SignalRow(j, o,
     sig) PROVE TypeOK'
  <2>1. RowTypeOK'
    BY <1>47, SignalledType DEF SignalRow, RowTypeOK
  <2> QED BY <1>47, <2>1 DEF SignalRow, StoreTypeOK, storeVars, LedgerTypeOK,
             ledgerVars, DaemonTypeOK, daemonVars, WorkerTypeOK, workerVars,
             ClientTypeOK, clientVars
<1>48. ASSUME NEW value \in BOOLEAN, SetKillSwitch(value) PROVE TypeOK'
  <2>1. StoreTypeOK'
    BY <1>48 DEF SetKillSwitch, StoreTypeOK
  <2> QED BY <1>48, <2>1 DEF SetKillSwitch, LedgerTypeOK, ledgerVars, RowTypeOK,
             DaemonTypeOK, daemonVars, WorkerTypeOK, workerVars, ClientTypeOK,
             clientVars
<1>49. ASSUME NEW j \in Jobs, NEW k \in Spawns, WorkerSubmit(j, k) PROVE TypeOK'
  <2>1. LedgerTypeOK'
    BY <1>49 DEF WorkerSubmit, Ended, LedgerTypeOK, RunStatuses, RunTerminal
  <2>2. WorkerTypeOK'
    <3>1. PICK s \in WorkerStates : Becomes(j, k, s)
      BY <1>49 DEF WorkerSubmit, WorkerStates
    <3> QED BY <1>49, <3>1 DEF WorkerSubmit, Becomes, WorkerTypeOK
  <2> QED BY <1>49, <2>1, <2>2 DEF WorkerSubmit, StoreTypeOK, storeVars, RowTypeOK,
             DaemonTypeOK, daemonVars, ClientTypeOK, clientVars
<1>50. ASSUME NEW j \in Jobs, NEW k \in Spawns, WorkerBegin(j, k) PROVE TypeOK'
  <2>1. LedgerTypeOK'
    BY <1>50 DEF WorkerBegin, LedgerTypeOK, RunStatuses, RunActive
  <2>2. WorkerTypeOK'
    BY <1>50 DEF WorkerBegin, Becomes, WorkerTypeOK, WorkerStates
  <2> QED BY <1>50, <2>1, <2>2 DEF WorkerBegin, StoreTypeOK, storeVars, RowTypeOK,
             DaemonTypeOK, daemonVars, ClientTypeOK, clientVars
<1>51. ASSUME NEW j \in Jobs, NEW k \in Spawns, WorkerAsk(j, k) PROVE TypeOK'
  <2>1. LedgerTypeOK'
    BY <1>51 DEF WorkerAsk, LedgerTypeOK, RunStatuses, RunActive
  <2>2. WorkerTypeOK'
    BY <1>51 DEF WorkerAsk, Becomes, WorkerTypeOK, WorkerStates
  <2> QED BY <1>51, <2>1, <2>2 DEF WorkerAsk, StoreTypeOK, storeVars, RowTypeOK,
             DaemonTypeOK, daemonVars, ClientTypeOK, clientVars
<1>52. ASSUME NEW j \in Jobs, NEW k \in Spawns, WorkerAnswered(j, k) PROVE TypeOK'
  <2>1. WorkerTypeOK'
    BY <1>52 DEF WorkerAnswered, Becomes, WorkerTypeOK, WorkerStates
  <2> QED BY <1>52, <2>1 DEF WorkerAnswered, StoreTypeOK, storeVars, LedgerTypeOK,
             ledgerVars, RowTypeOK, DaemonTypeOK, daemonVars, ClientTypeOK,
             clientVars
<1>53. ASSUME NEW j \in Jobs, NEW k \in Spawns, WorkerPrepare(j, k) PROVE TypeOK'
  <2>1. LedgerTypeOK'
    BY <1>53 DEF WorkerPrepare, LedgerTypeOK
  <2> QED BY <1>53, <2>1 DEF WorkerPrepare, StoreTypeOK, storeVars, RowTypeOK,
             DaemonTypeOK, daemonVars, WorkerTypeOK, workerVars, ClientTypeOK,
             clientVars
<1>54. ASSUME NEW j \in Jobs, NEW k \in Spawns, WorkerConfirm(j, k) PROVE TypeOK'
  <2>1. LedgerTypeOK'
    BY <1>54 DEF WorkerConfirm, LedgerTypeOK
  <2> QED BY <1>54, <2>1 DEF WorkerConfirm, StoreTypeOK, storeVars, RowTypeOK,
             DaemonTypeOK, daemonVars, WorkerTypeOK, workerVars, ClientTypeOK,
             clientVars
<1>55. ASSUME NEW j \in Jobs, NEW k \in Spawns, WorkerExit(j, k) PROVE TypeOK'
  <2>1. WorkerTypeOK'
    BY <1>55 DEF WorkerExit, Becomes, WorkerTypeOK, WorkerStates
  <2> QED BY <1>55, <2>1 DEF WorkerExit, StoreTypeOK, storeVars, LedgerTypeOK,
             ledgerVars, RowTypeOK, DaemonTypeOK, daemonVars, ClientTypeOK,
             clientVars
<1>56. ASSUME NEW j \in Jobs, NEW k \in Spawns, NEW outcome \in {"succeeded", "failed"},
     WorkerFinish(j, k, outcome) PROVE TypeOK'
  <2>1. LedgerTypeOK'
    BY <1>56 DEF WorkerFinish, LedgerTypeOK, RunStatuses, RunTerminal
  <2>2. WorkerTypeOK'
    BY <1>56 DEF WorkerFinish, Becomes, WorkerTypeOK, WorkerStates
  <2> QED BY <1>56, <2>1, <2>2 DEF WorkerFinish, StoreTypeOK, storeVars, RowTypeOK,
             DaemonTypeOK, daemonVars, ClientTypeOK, clientVars
<1>57. CASE UNCHANGED vars
  BY <1>57 DEF vars, storeVars, ledgerVars, daemonVars, workerVars, clientVars,
     StoreTypeOK, LedgerTypeOK, RowTypeOK, DaemonTypeOK, WorkerTypeOK, ClientTypeOK
<1> QED BY <1>1, <1>2, <1>3, <1>4, <1>5, <1>6, <1>7, <1>8, <1>9, <1>10, <1>11, <1>12,
   <1>13, <1>14, <1>15, <1>16, <1>17, <1>18, <1>19, <1>20, <1>21, <1>22, <1>23, <1>24,
   <1>25, <1>26, <1>27, <1>28, <1>29, <1>30, <1>31, <1>32, <1>33, <1>34, <1>35, <1>36,
   <1>37, <1>38, <1>39, <1>40, <1>41, <1>42, <1>43, <1>44, <1>45, <1>46, <1>47, <1>48,
   <1>49, <1>50, <1>51, <1>52, <1>53, <1>54, <1>55, <1>56, <1>57 DEF Next, DaemonStep,
   ClientStep, WorkerStep

-----------------------------------------------------------------------------
(* The first layer: the daemon's memory against the store and the leases.   *)

\* Wherever the daemon is in its loop, its work list and its memory are as PhaseInv
\* says, whatever clients and children write meanwhile.
LEMMA PhaseStep == TypeOK /\ PhaseInv /\ StoreInv /\ [Next]_vars => PhaseInv'
<1> SUFFICES ASSUME TypeOK, PhaseInv, StoreInv, [Next]_vars PROVE PhaseInv'
  OBVIOUS
<1> DEFINE Frame == UNCHANGED <<phase, todo, cur, active, lease, jobState, pid>>
<1>1. ASSUME Frame PROVE PhaseInv'
  BY <1>1 DEF PhaseInv
<1>2. CASE Start
  BY <1>2 DEF Start, PhaseInv
<1>3. CASE PrepareDone
  BY <1>3 DEF PrepareDone, storeVars, PhaseInv, JobActive, Ready
<1>4. CASE RecoverDone
  BY <1>4 DEF RecoverDone, PhaseInv
<1>5. CASE TickSignals
  BY <1>5 DEF TickSignals, PhaseInv
<1>6. CASE CancelEnd
  BY <1>6 DEF CancelEnd, FinishActive, PhaseInv
<1>7. CASE CancelSignalRefused
  BY <1>7 DEF CancelSignalRefused, GoDown, PhaseInv
<1>8. CASE ActiveDone
  BY <1>8 DEF ActiveDone, PhaseInv
<1>9. CASE CancelRecord
  BY <1>9 DEF CancelRecord, PhaseInv
<1>10. CASE CancelQueuedDone
  BY <1>10 DEF CancelQueuedDone, storeVars, PhaseInv, StoreInv, JobActive, Ready
<1>11. CASE RecordSpawn
  BY <1>11 DEF RecordSpawn, Transition, PhaseInv
<1>12. CASE FailRecord
  BY <1>12 DEF FailRecord, Transition, PhaseInv
<1>13. CASE ScheduleDone
  BY <1>13 DEF ScheduleDone, PhaseInv
<1>14. CASE Sweep
  BY <1>14 DEF Sweep, PhaseInv
<1>15. CASE Project
  BY <1>15 DEF Project, PhaseInv
<1>16. CASE Crash
  BY <1>16 DEF Crash, GoDown, PhaseInv
<1>17. ASSUME NEW j \in Jobs, RecoverPreparing(j) PROVE PhaseInv'
  BY <1>17 DEF RecoverPreparing, PhaseInv
<1>18. ASSUME NEW j \in Jobs, RecoverPreparingFails(j) PROVE PhaseInv'
  BY <1>18 DEF RecoverPreparingFails, PhaseInv
<1>19. ASSUME NEW j \in Jobs, RecoverPreparingRaced(j) PROVE PhaseInv'
  BY <1>19 DEF RecoverPreparingRaced, GoDown, PhaseInv
<1>20. ASSUME NEW j \in Jobs, RecoverJob(j) PROVE PhaseInv'
  BY <1>20 DEF RecoverJob, ReconcileInterrupted, Transition, PhaseInv
<1>21. ASSUME NEW j \in Jobs, AdoptJob(j) PROVE PhaseInv'
  BY <1>21 DEF AdoptJob, storeVars, PhaseInv
<1>22. ASSUME NEW j \in Jobs, CancelBegin(j) PROVE PhaseInv'
  BY <1>22 DEF CancelBegin, PhaseInv
<1>23. ASSUME NEW j \in Jobs, CancelRefused(j) PROVE PhaseInv'
  BY <1>23 DEF CancelRefused, GoDown, PhaseInv
<1>24. ASSUME NEW j \in Jobs, PauseJob(j) PROVE PhaseInv'
  BY <1>24 DEF PauseJob, PhaseInv
<1>25. ASSUME NEW j \in Jobs, PauseRefused(j) PROVE PhaseInv'
  BY <1>25 DEF PauseRefused, GoDown, PhaseInv
<1>26. ASSUME NEW j \in Jobs, ResumeHeld(j) PROVE PhaseInv'
  BY <1>26 DEF ResumeHeld, PhaseInv
<1>27. ASSUME NEW j \in Jobs, ResumeJob(j) PROVE PhaseInv'
  BY <1>27 DEF ResumeJob, PhaseInv
<1>28. ASSUME NEW j \in Jobs, ResumeRefused(j) PROVE PhaseInv'
  BY <1>28 DEF ResumeRefused, GoDown, PhaseInv
<1>29. ASSUME NEW j \in Jobs, TickExited(j) PROVE PhaseInv'
  BY <1>29 DEF TickExited, ExitFinishes, ExitRetries, ExitInterrupted, FinishActive,
     TypeOK, PhaseInv, DaemonTypeOK
<1>30. ASSUME NEW j \in Jobs, TickAlive(j) PROVE PhaseInv'
  BY <1>30 DEF TickAlive, PhaseInv
<1>31. ASSUME NEW j \in Jobs, CancelQueued(j) PROVE PhaseInv'
  BY <1>31 DEF CancelQueued, PhaseInv
<1>32. ASSUME NEW j \in Jobs, CancelQueuedRefused(j) PROVE PhaseInv'
  BY <1>32 DEF CancelQueuedRefused, GoDown, PhaseInv
<1>33. ASSUME NEW j \in Jobs, PassOver(j) PROVE PhaseInv'
  BY <1>33 DEF PassOver, storeVars, PhaseInv
<1>34. ASSUME NEW j \in Jobs, RejectOversized(j) PROVE PhaseInv'
  BY <1>34 DEF RejectOversized, FailRun, storeVars, PhaseInv
<1>35. ASSUME NEW j \in Jobs, WorktreeInvalid(j) PROVE PhaseInv'
  BY <1>35 DEF WorktreeInvalid, GoDown, PhaseInv
<1>36. ASSUME NEW j \in Jobs, StartJob(j) PROVE PhaseInv'
  BY <1>36 DEF StartJob, storeVars, TypeOK, PhaseInv, LedgerTypeOK
<1>37. ASSUME NEW j \in Jobs, SpawnFails(j) PROVE PhaseInv'
  BY <1>37 DEF SpawnFails, FailRun, storeVars, Transition, TypeOK, PhaseInv, StoreTypeOK
<1>38. ASSUME NEW j \in Jobs, EnqueueInsert(j) PROVE PhaseInv'
  BY <1>38 DEF EnqueueInsert, ledgerVars, daemonVars, PhaseInv
<1>39. ASSUME NEW j \in Jobs, EnqueueFails(j) PROVE PhaseInv'
  BY <1>39 DEF EnqueueFails, Transition, daemonVars, PhaseInv
<1>40. ASSUME NEW j \in Jobs, LeaseExpires(j) PROVE PhaseInv'
  BY <1>40 DEF LeaseExpires, storeVars, daemonVars, PhaseInv
<1>41. ASSUME NEW j \in Jobs, NEW park \in BOOLEAN, EnqueueMark(j, park) PROVE
   PhaseInv'
  BY <1>41 DEF EnqueueMark, ledgerVars, daemonVars, TypeOK, PhaseInv, DaemonTypeOK,
     StoreTypeOK
<1>42. ASSUME NEW j \in Jobs, EnqueueSubmit(j) \/ EnqueueAbandoned(j) \/
   RequestCancel(j) \/ AppendCancellation(j) \/ DecideApproval(j) PROVE Frame
  BY <1>42 DEF EnqueueSubmit, EnqueueAbandoned, RequestCancel, AppendCancellation,
     DecideApproval, storeVars, ledgerVars, daemonVars
<1>43. ASSUME NEW j \in Jobs, NEW value \in BOOLEAN, RequestPause(j, value) PROVE
   Frame
  BY <1>43 DEF RequestPause, ledgerVars, daemonVars
<1>44. ASSUME NEW j \in Jobs, NEW o \in Ordinals, NEW sig \in Signals, SignalRow(j,
   o, sig) PROVE Frame
  BY <1>44 DEF SignalRow, storeVars, ledgerVars, daemonVars
<1>45. ASSUME NEW value \in BOOLEAN, SetKillSwitch(value) PROVE Frame
  BY <1>45 DEF SetKillSwitch, ledgerVars, daemonVars
<1>46. ASSUME NEW j \in Jobs, NEW k \in Spawns, WorkerSubmit(j, k) \/ WorkerBegin(j,
   k) \/ WorkerAsk(j, k) \/ WorkerAnswered(j, k) \/ WorkerPrepare(j, k) \/
   WorkerConfirm(j, k) \/ WorkerExit(j, k) PROVE Frame
  BY <1>46 DEF WorkerSubmit, WorkerBegin, WorkerAsk, WorkerAnswered, WorkerPrepare,
     WorkerConfirm, WorkerExit, storeVars, ledgerVars, daemonVars
<1>47. ASSUME NEW j \in Jobs, NEW k \in Spawns, NEW outcome \in {"succeeded",
   "failed"}, WorkerFinish(j, k, outcome) PROVE Frame
  BY <1>47 DEF WorkerFinish, storeVars, daemonVars
<1>48. CASE UNCHANGED vars
  BY <1>1, <1>48 DEF vars, storeVars, ledgerVars, daemonVars
<1> HIDE DEF Frame
<1> QED BY <1>1, <1>2, <1>3, <1>4, <1>5, <1>6, <1>7, <1>8, <1>9, <1>10, <1>11, <1>12,
   <1>13, <1>14, <1>15, <1>16, <1>17, <1>18, <1>19, <1>20, <1>21, <1>22, <1>23, <1>24,
   <1>25, <1>26, <1>27, <1>28, <1>29, <1>30, <1>31, <1>32, <1>33, <1>34, <1>35, <1>36,
   <1>37, <1>38, <1>39, <1>40, <1>41, <1>42, <1>43, <1>44, <1>45, <1>46, <1>47, <1>48
   DEF Next, DaemonStep, ClientStep, WorkerStep

\* Every step keeps memory, store and leases in agreement about who is being run.
LEMMA StoreStep == TypeOK /\ PhaseInv /\ StoreInv /\ [Next]_vars => StoreInv'
<1> SUFFICES ASSUME TypeOK, PhaseInv, StoreInv, [Next]_vars PROVE StoreInv'
  OBVIOUS
<1> DEFINE Frame == UNCHANGED <<phase, cur, active, lease, jobState, pid, attempt,
   spawns, worker>>
<1>1. ASSUME Frame PROVE StoreInv'
  BY <1>1 DEF StoreInv, Alive
<1>2. CASE Start
  BY <1>2 DEF Start, storeVars, ledgerVars, workerVars, StoreInv, Alive
<1>3. CASE PrepareDone
  BY <1>3 DEF PrepareDone, storeVars, ledgerVars, workerVars, StoreInv, Alive
<1>4. CASE RecoverDone
  BY <1>4 DEF RecoverDone, storeVars, ledgerVars, workerVars, StoreInv, Alive
<1>5. CASE TickSignals
  BY <1>5 DEF TickSignals, ledgerVars, workerVars, StoreInv, Alive
<1>6. CASE CancelEnd
  BY <1>6 DEF CancelEnd, FinishActive, Transition, Killed, TypeOK, StoreInv,
     StoreTypeOK, DaemonTypeOK, Alive, Spawns
<1>7. CASE CancelSignalRefused
  BY <1>7 DEF CancelSignalRefused, GoDown, storeVars, workerVars, StoreInv, Alive
<1>8. CASE ActiveDone
  BY <1>8 DEF ActiveDone, storeVars, ledgerVars, workerVars, StoreInv, Alive
<1>9. CASE CancelRecord
  BY <1>9 DEF CancelRecord, Transition, ledgerVars, workerVars, TypeOK, StoreInv,
     StoreTypeOK, Alive, Spawns
<1>10. CASE CancelQueuedDone
  BY <1>10 DEF CancelQueuedDone, storeVars, ledgerVars, workerVars, StoreInv, Alive
<1>11. CASE RecordSpawn
  BY <1>11 DEF RecordSpawn, Transition, ledgerVars, workerVars, TypeOK, PhaseInv,
     StoreInv, StoreTypeOK, WorkerTypeOK, Alive, JobActive, Ordinals
<1>12. CASE FailRecord
  BY <1>12 DEF FailRecord, Transition, ledgerVars, workerVars, TypeOK, StoreInv,
     StoreTypeOK, Alive, Spawns
<1>13. CASE ScheduleDone
  BY <1>13 DEF ScheduleDone, storeVars, ledgerVars, workerVars, StoreInv, Alive
<1>14. CASE Sweep
  BY <1>14 DEF Sweep, storeVars, ledgerVars, workerVars, StoreInv, Alive
<1>15. CASE Project
  BY <1>15 DEF Project, storeVars, ledgerVars, workerVars, StoreInv, Alive
<1>16. CASE Crash
  BY <1>16 DEF Crash, GoDown, storeVars, StoreInv, Alive
<1>17. ASSUME NEW j \in Jobs, RecoverPreparing(j) PROVE StoreInv'
  BY <1>17 DEF RecoverPreparing, workerVars, StoreInv, Alive, JobActive
<1>18. ASSUME NEW j \in Jobs, RecoverPreparingFails(j) PROVE StoreInv'
  BY <1>18 DEF RecoverPreparingFails, Transition, ledgerVars, workerVars, TypeOK,
     StoreInv, StoreTypeOK, Alive, Spawns
<1>19. ASSUME NEW j \in Jobs, RecoverPreparingRaced(j) PROVE StoreInv'
  BY <1>19 DEF RecoverPreparingRaced, GoDown, storeVars, workerVars, StoreInv, Alive
<1>20. ASSUME NEW j \in Jobs, RecoverJob(j) PROVE StoreInv'
  BY <1>20 DEF RecoverJob, ReconcileInterrupted, Transition, Killed, TypeOK, PhaseInv,
     StoreInv, StoreTypeOK, Alive, Spawns
<1>21. ASSUME NEW j \in Jobs, AdoptJob(j) PROVE StoreInv'
  BY <1>21 DEF AdoptJob, storeVars, workerVars, TypeOK, PhaseInv, StoreInv,
     LedgerTypeOK, Alive
<1>22. ASSUME NEW j \in Jobs, CancelBegin(j) PROVE StoreInv'
  BY <1>22 DEF CancelBegin, storeVars, workerVars, StoreInv, Alive
<1>23. ASSUME NEW j \in Jobs, CancelRefused(j) PROVE StoreInv'
  BY <1>23 DEF CancelRefused, GoDown, storeVars, workerVars, StoreInv, Alive
<1>24. ASSUME NEW j \in Jobs, PauseJob(j) PROVE StoreInv'
  BY <1>24 DEF PauseJob, Transition, TypeOK, PhaseInv, StoreInv, StoreTypeOK, Alive,
     JobActive
<1>25. ASSUME NEW j \in Jobs, PauseRefused(j) PROVE StoreInv'
  BY <1>25 DEF PauseRefused, GoDown, storeVars, StoreInv, Alive
<1>26. ASSUME NEW j \in Jobs, ResumeJob(j) PROVE StoreInv'
  BY <1>26 DEF ResumeJob, Transition, TypeOK, PhaseInv, StoreInv, StoreTypeOK, Alive,
     JobActive
<1>27. ASSUME NEW j \in Jobs, ResumeRefused(j) PROVE StoreInv'
  BY <1>27 DEF ResumeRefused, GoDown, storeVars, StoreInv, Alive
<1>28. ASSUME NEW j \in Jobs, TickExited(j) PROVE StoreInv'
  BY <1>28 DEF TickExited, ExitFinishes, ExitRetries, ExitInterrupted,
     ReconcileInterrupted, FinishActive, Transition, workerVars, TypeOK, PhaseInv,
     StoreInv, StoreTypeOK, LedgerTypeOK, DaemonTypeOK, Alive, Ordinals, Spawns
<1>29. ASSUME NEW j \in Jobs, TickAlive(j) PROVE StoreInv'
  <2>1. CASE UNCHANGED storeVars
    BY <1>1, <1>29, <2>1 DEF TickAlive, storeVars, ledgerVars, workerVars
  <2>2. CASE Transition(j, "waiting_approval", active[j])
    BY <1>29, <2>2 DEF TickAlive, Transition, ledgerVars, workerVars, TypeOK,
       StoreTypeOK, PhaseInv, StoreInv, Alive, JobActive
  <2> QED BY <1>29, <2>1, <2>2 DEF TickAlive
<1>30. ASSUME NEW j \in Jobs, CancelQueued(j) PROVE StoreInv'
  BY <1>30 DEF CancelQueued, storeVars, workerVars, StoreInv, Alive
<1>31. ASSUME NEW j \in Jobs, CancelQueuedRefused(j) PROVE StoreInv'
  BY <1>31 DEF CancelQueuedRefused, GoDown, storeVars, workerVars, StoreInv, Alive
<1>32. ASSUME NEW j \in Jobs, RejectOversized(j) PROVE StoreInv'
  BY <1>32 DEF RejectOversized, FailRun, storeVars, workerVars, PhaseInv, StoreInv, Alive
<1>33. ASSUME NEW j \in Jobs, WorktreeInvalid(j) PROVE StoreInv'
  BY <1>33 DEF WorktreeInvalid, GoDown, storeVars, workerVars, StoreInv, Alive
<1>34. ASSUME NEW j \in Jobs, StartJob(j) PROVE StoreInv'
  BY <1>34 DEF StartJob, storeVars, TypeOK, PhaseInv, StoreInv, StoreTypeOK,
     WorkerTypeOK, Alive, Ordinals
<1>35. ASSUME NEW j \in Jobs, SpawnFails(j) PROVE StoreInv'
  BY <1>35 DEF SpawnFails, FailRun, storeVars, Transition, workerVars, TypeOK, PhaseInv, StoreInv,
     StoreTypeOK, Alive, Spawns
<1>36. ASSUME NEW j \in Jobs, EnqueueInsert(j) PROVE StoreInv'
  BY <1>36 DEF EnqueueInsert, ledgerVars, daemonVars, workerVars, StoreInv, Alive, JobActive
<1>37. ASSUME NEW j \in Jobs, EnqueueFails(j) PROVE StoreInv'
  BY <1>37 DEF EnqueueFails, Transition, daemonVars, workerVars, TypeOK, StoreInv,
     StoreTypeOK, Alive, Spawns
<1>38. ASSUME NEW j \in Jobs, LeaseExpires(j) PROVE StoreInv'
  BY <1>38 DEF LeaseExpires, storeVars, daemonVars, workerVars, StoreInv, Alive
<1>39. ASSUME NEW j \in Jobs, NEW park \in BOOLEAN, EnqueueMark(j, park) PROVE
   StoreInv'
  BY <1>39 DEF EnqueueMark, ledgerVars, daemonVars, workerVars, TypeOK, StoreInv,
     StoreTypeOK, Alive, JobActive
<1>40. ASSUME NEW j \in Jobs, NEW k \in Spawns, WorkerSubmit(j, k) PROVE StoreInv'
  <2>1. PICK s \in WorkerStates : Becomes(j, k, s)
    BY <1>40 DEF WorkerSubmit, WorkerStates
  <2> QED BY <1>40, <2>1 DEF WorkerSubmit, Running, Becomes, storeVars, daemonVars,
             StoreInv, Alive
<1>41. ASSUME NEW j \in Jobs, NEW k \in Spawns, WorkerBegin(j, k) PROVE StoreInv'
  BY <1>41 DEF WorkerBegin, Becomes, Running, storeVars, daemonVars, StoreInv, Alive
<1>42. ASSUME NEW j \in Jobs, NEW k \in Spawns, WorkerAsk(j, k) PROVE StoreInv'
  BY <1>42 DEF WorkerAsk, Becomes, Running, storeVars, daemonVars, StoreInv, Alive
<1>43. ASSUME NEW j \in Jobs, NEW k \in Spawns, WorkerAnswered(j, k) PROVE StoreInv'
  BY <1>43 DEF WorkerAnswered, Becomes, Running, storeVars, ledgerVars, daemonVars,
     StoreInv, Alive
<1>44. ASSUME NEW j \in Jobs, NEW k \in Spawns, WorkerExit(j, k) PROVE StoreInv'
  BY <1>44 DEF WorkerExit, Becomes, Running, storeVars, ledgerVars, daemonVars,
     StoreInv, Alive
<1>45. ASSUME NEW j \in Jobs, NEW k \in Spawns, NEW outcome \in {"succeeded",
   "failed"}, WorkerFinish(j, k, outcome) PROVE StoreInv'
  BY <1>45 DEF WorkerFinish, Becomes, Running, storeVars, daemonVars, StoreInv, Alive
<1>46. ASSUME NEW j \in Jobs, ResumeHeld(j) \/ PassOver(j) \/ EnqueueSubmit(j) \/
   EnqueueAbandoned(j) \/ RequestCancel(j) \/ AppendCancellation(j) \/
   DecideApproval(j) PROVE Frame
  BY <1>46 DEF ResumeHeld, PassOver, EnqueueSubmit, EnqueueAbandoned, RequestCancel,
     AppendCancellation, DecideApproval, storeVars, ledgerVars, daemonVars, workerVars
<1>47. ASSUME NEW j \in Jobs, NEW value \in BOOLEAN, RequestPause(j, value) PROVE
   Frame
  BY <1>47 DEF RequestPause, ledgerVars, daemonVars, workerVars
<1>48. ASSUME NEW j \in Jobs, NEW o \in Ordinals, NEW sig \in Signals, SignalRow(j,
   o, sig) PROVE Frame
  BY <1>48 DEF SignalRow, storeVars, ledgerVars, daemonVars, workerVars
<1>49. ASSUME NEW value \in BOOLEAN, SetKillSwitch(value) PROVE Frame
  BY <1>49 DEF SetKillSwitch, ledgerVars, daemonVars, workerVars
<1>50. ASSUME NEW j \in Jobs, NEW k \in Spawns, WorkerPrepare(j, k) \/
   WorkerConfirm(j, k) PROVE Frame
  BY <1>50 DEF WorkerPrepare, WorkerConfirm, storeVars, daemonVars, workerVars
<1>51. CASE UNCHANGED vars
  BY <1>1, <1>51 DEF vars, storeVars, ledgerVars, daemonVars, workerVars
<1> HIDE DEF Frame
<1> QED BY <1>1, <1>2, <1>3, <1>4, <1>5, <1>6, <1>7, <1>8, <1>9, <1>10, <1>11, <1>12,
   <1>13, <1>14, <1>15, <1>16, <1>17, <1>18, <1>19, <1>20, <1>21, <1>22, <1>23, <1>24,
   <1>25, <1>26, <1>27, <1>28, <1>29, <1>30, <1>31, <1>32, <1>33, <1>34, <1>35, <1>36,
   <1>37, <1>38, <1>39, <1>40, <1>41, <1>42, <1>43, <1>44, <1>45, <1>46, <1>47, <1>48,
   <1>49, <1>50, <1>51 DEF Next, DaemonStep, ClientStep, WorkerStep

-----------------------------------------------------------------------------
(* The second layer: children that may still start.                         *)

\* If a child reaches Started or dies within one lease, a child that may still start
\* stays the last one spawned, and its lease keeps every other one out.
LEMMA UnstartedStep == BootWithinLease /\ TypeOK /\ PhaseInv /\ StoreInv /\ UnstartedInv
     /\ [Next]_vars => UnstartedInv'
<1> SUFFICES ASSUME BootWithinLease, TypeOK, PhaseInv, StoreInv, UnstartedInv,
     [Next]_vars PROVE UnstartedInv'
  OBVIOUS
<1> DEFINE Frame == UNCHANGED <<phase, cur, active, lease, pid, spawns, worker>>
<1>1. ASSUME Frame PROVE UnstartedInv'
  BY <1>1 DEF UnstartedInv
<1>2. CASE Start
  BY <1>2 DEF Start, storeVars, ledgerVars, workerVars, UnstartedInv
<1>3. CASE PrepareDone
  BY <1>3 DEF PrepareDone, storeVars, ledgerVars, workerVars, UnstartedInv
<1>4. CASE RecoverDone
  BY <1>4 DEF RecoverDone, storeVars, ledgerVars, workerVars, UnstartedInv
<1>5. CASE TickSignals
  BY <1>5 DEF TickSignals, ledgerVars, workerVars, UnstartedInv
<1>6. CASE CancelEnd
  BY <1>6 DEF CancelEnd, FinishActive, Transition, Killed, TypeOK, PhaseInv, StoreInv,
     UnstartedInv, WorkerTypeOK, Unstarted
<1>7. CASE CancelSignalRefused
  BY <1>7 DEF CancelSignalRefused, GoDown, storeVars, workerVars, UnstartedInv
<1>8. CASE ActiveDone
  BY <1>8 DEF ActiveDone, storeVars, ledgerVars, workerVars, UnstartedInv
<1>9. CASE CancelRecord
  BY <1>9 DEF CancelRecord, Transition, ledgerVars, workerVars, UnstartedInv
<1>10. CASE CancelQueuedDone
  BY <1>10 DEF CancelQueuedDone, storeVars, ledgerVars, workerVars, UnstartedInv
<1>11. CASE RecordSpawn
  BY <1>11 DEF RecordSpawn, Transition, ledgerVars, workerVars, TypeOK, UnstartedInv,
     DaemonTypeOK
<1>12. CASE FailRecord
  BY <1>12 DEF FailRecord, Transition, ledgerVars, workerVars, UnstartedInv
<1>13. CASE ScheduleDone
  BY <1>13 DEF ScheduleDone, storeVars, ledgerVars, workerVars, UnstartedInv
<1>14. CASE Sweep
  BY <1>14 DEF Sweep, storeVars, ledgerVars, workerVars, UnstartedInv
<1>15. CASE Project
  BY <1>15 DEF Project, storeVars, ledgerVars, workerVars, UnstartedInv
<1>16. CASE Crash
  BY <1>16 DEF Crash, GoDown, storeVars, UnstartedInv
<1>17. ASSUME NEW j \in Jobs, RecoverPreparingFails(j) PROVE UnstartedInv'
  BY <1>17 DEF RecoverPreparingFails, Transition, ledgerVars, workerVars, UnstartedInv
<1>18. ASSUME NEW j \in Jobs, RecoverPreparingRaced(j) PROVE UnstartedInv'
  BY <1>18 DEF RecoverPreparingRaced, GoDown, storeVars, workerVars, UnstartedInv
<1>19. ASSUME NEW j \in Jobs, RecoverJob(j) PROVE UnstartedInv'
  BY <1>19 DEF RecoverJob, ReconcileInterrupted, Transition, Killed, UnstartedInv, Unstarted
<1>20. ASSUME NEW j \in Jobs, AdoptJob(j) PROVE UnstartedInv'
  BY <1>20 DEF AdoptJob, storeVars, workerVars, TypeOK, UnstartedInv, DaemonTypeOK,
     Alive, Spawns
<1>21. ASSUME NEW j \in Jobs, CancelBegin(j) PROVE UnstartedInv'
  BY <1>21 DEF CancelBegin, storeVars, workerVars, UnstartedInv
<1>22. ASSUME NEW j \in Jobs, CancelRefused(j) PROVE UnstartedInv'
  BY <1>22 DEF CancelRefused, GoDown, storeVars, workerVars, UnstartedInv
<1>23. ASSUME NEW j \in Jobs, PauseJob(j) PROVE UnstartedInv'
  BY <1>23 DEF PauseJob, Transition, StoreInv, UnstartedInv
<1>24. ASSUME NEW j \in Jobs, PauseRefused(j) PROVE UnstartedInv'
  BY <1>24 DEF PauseRefused, GoDown, storeVars, UnstartedInv
<1>25. ASSUME NEW j \in Jobs, ResumeJob(j) PROVE UnstartedInv'
  BY <1>25 DEF ResumeJob, Transition, StoreInv, UnstartedInv
<1>26. ASSUME NEW j \in Jobs, ResumeRefused(j) PROVE UnstartedInv'
  BY <1>26 DEF ResumeRefused, GoDown, storeVars, UnstartedInv
<1>27. ASSUME NEW j \in Jobs, TickExited(j) PROVE UnstartedInv'
  <2>1. \A k \in Spawns : k = active[j] => worker[j][k] \notin Unstarted
    BY <1>27 DEF TickExited, Alive, WorkerLive, WorkerStates, Unstarted
  <2>2. worker[j] = worker'[j] /\ UNCHANGED <<worker, spawns, phase, cur>> /\ phase =
       "active"
    BY <1>27 DEF TickExited, workerVars
  <2>3. \A i \in Jobs \ {j} : active'[i] = active[i] /\ lease'[i] = lease[i] /\ pid'[i]
       = pid[i]
    BY <1>27 DEF TickExited, ExitFinishes, ExitRetries, ExitInterrupted, FinishActive,
       ReconcileInterrupted, Transition, TypeOK, StoreTypeOK, DaemonTypeOK,
       LedgerTypeOK
  <2>4. \A k \in Spawns : worker[j][k] \notin Unstarted
    BY <1>27, <2>1, <2>2 DEF TickExited, UnstartedInv, PhaseInv, StoreInv
  <2> QED BY <2>2, <2>3, <2>4 DEF UnstartedInv
<1>28. ASSUME NEW j \in Jobs, TickAlive(j) PROVE UnstartedInv'
  BY <1>28 DEF TickAlive, Transition, storeVars, ledgerVars, workerVars, TypeOK,
     StoreInv, UnstartedInv, StoreTypeOK
<1>29. ASSUME NEW j \in Jobs, CancelQueued(j) PROVE UnstartedInv'
  BY <1>29 DEF CancelQueued, storeVars, workerVars, UnstartedInv
<1>30. ASSUME NEW j \in Jobs, CancelQueuedRefused(j) PROVE UnstartedInv'
  BY <1>30 DEF CancelQueuedRefused, GoDown, storeVars, workerVars, UnstartedInv
<1>31. ASSUME NEW j \in Jobs, RejectOversized(j) PROVE UnstartedInv'
  BY <1>31 DEF RejectOversized, FailRun, storeVars, workerVars, UnstartedInv
<1>32. ASSUME NEW j \in Jobs, WorktreeInvalid(j) PROVE UnstartedInv'
  BY <1>32 DEF WorktreeInvalid, GoDown, storeVars, workerVars, UnstartedInv
<1>33. ASSUME NEW j \in Jobs, StartJob(j) PROVE UnstartedInv'
  BY <1>33 DEF StartJob, storeVars, TypeOK, PhaseInv, UnstartedInv, LedgerTypeOK,
     WorkerTypeOK, Spawns
<1>34. ASSUME NEW j \in Jobs, SpawnFails(j) PROVE UnstartedInv'
  BY <1>34 DEF SpawnFails, FailRun, storeVars, Transition, workerVars, TypeOK, PhaseInv, UnstartedInv,
     StoreTypeOK, Spawns
<1>35. ASSUME NEW j \in Jobs, EnqueueFails(j) PROVE UnstartedInv'
  BY <1>35 DEF EnqueueFails, Transition, daemonVars, workerVars, UnstartedInv
<1>36. ASSUME NEW j \in Jobs, LeaseExpires(j) PROVE UnstartedInv'
  BY <1>36 DEF LeaseExpires, storeVars, daemonVars, workerVars, UnstartedInv
<1>37. ASSUME NEW j \in Jobs, NEW k \in Spawns, WorkerSubmit(j, k) PROVE
   UnstartedInv'
  <2>1. PICK s \in {"ready", "closing"} : Becomes(j, k, s)
    BY <1>37 DEF WorkerSubmit
  <2> QED BY <1>37, <2>1 DEF WorkerSubmit, Becomes, storeVars, daemonVars, UnstartedInv,
             Unstarted
<1>38. ASSUME NEW j \in Jobs, NEW k \in Spawns, WorkerBegin(j, k) PROVE
   UnstartedInv'
  BY <1>38 DEF WorkerBegin, Becomes, storeVars, daemonVars, UnstartedInv, Unstarted
<1>39. ASSUME NEW j \in Jobs, NEW k \in Spawns, WorkerAsk(j, k) PROVE UnstartedInv'
  BY <1>39 DEF WorkerAsk, Becomes, storeVars, daemonVars, UnstartedInv, Unstarted
<1>40. ASSUME NEW j \in Jobs, NEW k \in Spawns, WorkerAnswered(j, k) PROVE
   UnstartedInv'
  BY <1>40 DEF WorkerAnswered, Becomes, storeVars, ledgerVars, daemonVars, UnstartedInv,
     Unstarted
<1>41. ASSUME NEW j \in Jobs, NEW k \in Spawns, WorkerExit(j, k) PROVE UnstartedInv'
  <2>1. \A i \in Jobs, l \in Spawns : worker'[i][l] = worker[i][l] \/ worker'[i][l] =
       "dead"
    BY <1>41 DEF WorkerExit, Becomes
  <2>2. \A l \in Spawns : l > spawns[j] => l # k
    BY <1>41 DEF WorkerExit, Running, WorkerLive, UnstartedInv
  <2>3. \A i \in Jobs, l \in Spawns : l > spawns[i] => worker'[i][l] = "none"
    BY <1>41, <2>2 DEF WorkerExit, Becomes, UnstartedInv
  <2> QED BY <1>41, <2>1, <2>3 DEF WorkerExit, storeVars, ledgerVars, daemonVars,
             UnstartedInv, Unstarted
<1>42. ASSUME NEW j \in Jobs, NEW k \in Spawns, NEW outcome \in {"succeeded",
   "failed"}, WorkerFinish(j, k, outcome) PROVE UnstartedInv'
  BY <1>42 DEF WorkerFinish, Becomes, storeVars, daemonVars, UnstartedInv, Unstarted
<1>43. ASSUME NEW j \in Jobs, RecoverPreparing(j) \/ ResumeHeld(j) \/ PassOver(j) \/
   EnqueueInsert(j) \/ EnqueueSubmit(j) \/ EnqueueAbandoned(j) \/ RequestCancel(j)
   \/ AppendCancellation(j) \/ DecideApproval(j) PROVE Frame
  BY <1>43 DEF RecoverPreparing, ResumeHeld, PassOver, EnqueueInsert, EnqueueSubmit,
     EnqueueAbandoned, RequestCancel, AppendCancellation, DecideApproval, storeVars,
     ledgerVars, daemonVars, workerVars
<1>44. ASSUME NEW j \in Jobs, NEW park \in BOOLEAN, EnqueueMark(j, park) PROVE Frame
  BY <1>44 DEF EnqueueMark, ledgerVars, daemonVars, workerVars
<1>45. ASSUME NEW j \in Jobs, NEW value \in BOOLEAN, RequestPause(j, value) PROVE
   Frame
  BY <1>45 DEF RequestPause, ledgerVars, daemonVars, workerVars
<1>46. ASSUME NEW j \in Jobs, NEW o \in Ordinals, NEW sig \in Signals, SignalRow(j,
   o, sig) PROVE Frame
  BY <1>46 DEF SignalRow, storeVars, ledgerVars, daemonVars, workerVars
<1>47. ASSUME NEW value \in BOOLEAN, SetKillSwitch(value) PROVE Frame
  BY <1>47 DEF SetKillSwitch, ledgerVars, daemonVars, workerVars
<1>48. ASSUME NEW j \in Jobs, NEW k \in Spawns, WorkerPrepare(j, k) \/
   WorkerConfirm(j, k) PROVE Frame
  BY <1>48 DEF WorkerPrepare, WorkerConfirm, storeVars, daemonVars, workerVars
<1>49. CASE UNCHANGED vars
  BY <1>1, <1>49 DEF vars, storeVars, ledgerVars, daemonVars, workerVars
<1> HIDE DEF Frame
<1> QED BY <1>1, <1>2, <1>3, <1>4, <1>5, <1>6, <1>7, <1>8, <1>9, <1>10, <1>11, <1>12,
   <1>13, <1>14, <1>15, <1>16, <1>17, <1>18, <1>19, <1>20, <1>21, <1>22, <1>23, <1>24,
   <1>25, <1>26, <1>27, <1>28, <1>29, <1>30, <1>31, <1>32, <1>33, <1>34, <1>35, <1>36,
   <1>37, <1>38, <1>39, <1>40, <1>41, <1>42, <1>43, <1>44, <1>45, <1>46, <1>47, <1>48,
   <1>49 DEF Next, DaemonStep, ClientStep, WorkerStep

\* Nothing begins twice: the one child that may still pass the Started event does so
\* only while nothing has begun.
LEMMA BegunStep == TypeOK /\ UnstartedInv /\ BegunInv /\ [Next]_vars => BegunInv'
<1> SUFFICES ASSUME TypeOK, UnstartedInv, BegunInv, [Next]_vars PROVE BegunInv'
  OBVIOUS
<1> DEFINE Frame == UNCHANGED <<begun, runStatus, worker>>
<1>1. ASSUME Frame PROVE BegunInv'
  BY <1>1 DEF BegunInv
<1>2. CASE CancelEnd
  BY <1>2 DEF CancelEnd, Killed, BegunInv, RunActive, Ended, Reconciled
<1>3. ASSUME NEW j \in Jobs, RecoverPreparing(j) PROVE BegunInv'
  BY <1>3 DEF RecoverPreparing, workerVars, BegunInv, CanEmit, RunTerminal, RunActive,
     Ended, Reconciled
<1>4. ASSUME NEW j \in Jobs, RecoverJob(j) PROVE BegunInv'
  BY <1>4 DEF RecoverJob, ReconcileInterrupted, Killed, BegunInv, RunActive, Ended,
     Reconciled
<1>5. ASSUME NEW j \in Jobs, CancelBegin(j) PROVE BegunInv'
  BY <1>5 DEF CancelBegin, workerVars, BegunInv, Ended, Reconciled
<1>6. ASSUME NEW j \in Jobs, PauseJob(j) PROVE BegunInv'
  BY <1>6 DEF PauseJob, BegunInv, Ended, Reconciled
<1>7. ASSUME NEW j \in Jobs, ResumeJob(j) PROVE BegunInv'
  BY <1>7 DEF ResumeJob, BegunInv, Ended, Reconciled
<1>8. ASSUME NEW j \in Jobs, TickExited(j) PROVE BegunInv'
  BY <1>8 DEF TickExited, ExitFinishes, ExitRetries, ExitInterrupted,
     ReconcileInterrupted, workerVars, TypeOK, BegunInv, LedgerTypeOK, RunActive,
     Ended, Reconciled
<1>9. ASSUME NEW j \in Jobs, CancelQueued(j) PROVE BegunInv'
  BY <1>9 DEF CancelQueued, workerVars, BegunInv, Ended, Reconciled
<1>10. ASSUME NEW j \in Jobs, RejectOversized(j) PROVE BegunInv'
  BY <1>10 DEF RejectOversized, FailRun, workerVars, BegunInv, RunActive, Ended, Reconciled
<1>11. ASSUME NEW j \in Jobs, StartJob(j) PROVE BegunInv'
  BY <1>11 DEF StartJob, BegunInv, CanEmit, RunTerminal, RunActive, Ended, Reconciled
<1>12. ASSUME NEW j \in Jobs, SpawnFails(j) PROVE BegunInv'
  BY <1>12 DEF SpawnFails, FailRun, storeVars, workerVars, TypeOK, BegunInv, LedgerTypeOK, RunActive, Ended,
     Reconciled
<1>13. ASSUME NEW j \in Jobs, EnqueueSubmit(j) PROVE BegunInv'
  BY <1>13 DEF EnqueueSubmit, workerVars, BegunInv, CanEmit, RunTerminal, RunActive,
     Ended, Reconciled
<1>14. ASSUME NEW j \in Jobs, EnqueueFails(j) PROVE BegunInv'
  BY <1>14 DEF EnqueueFails, workerVars, TypeOK, BegunInv, LedgerTypeOK, RunActive,
     Ended, Reconciled
<1>15. ASSUME NEW j \in Jobs, AppendCancellation(j) PROVE BegunInv'
  BY <1>15 DEF AppendCancellation, workerVars, BegunInv, RunActive, Ended, Reconciled
<1>16. ASSUME NEW j \in Jobs, DecideApproval(j) PROVE BegunInv'
  BY <1>16 DEF DecideApproval, workerVars, BegunInv, Ended, Reconciled
<1>17. ASSUME NEW j \in Jobs, NEW k \in Spawns, WorkerSubmit(j, k) PROVE BegunInv'
  <2>1. CASE runStatus[j] = "queued"
    BY <1>17, <2>1 DEF WorkerSubmit, Becomes, TypeOK, WorkerTypeOK, BegunInv
  <2>2. CASE runStatus[j] # "queued"
    BY <1>17, <2>2 DEF WorkerSubmit, Becomes, Ended, TypeOK, WorkerTypeOK, LedgerTypeOK,
       RunTerminal, BegunInv
  <2> QED BY <2>1, <2>2
<1>18. ASSUME NEW j \in Jobs, NEW k \in Spawns, WorkerBegin(j, k) PROVE BegunInv'
  BY <1>18 DEF WorkerBegin, Becomes, TypeOK, BegunInv, LedgerTypeOK, WorkerTypeOK,
     UnstartedInv, Unstarted, Ended, Reconciled
<1>19. ASSUME NEW j \in Jobs, NEW k \in Spawns, WorkerAsk(j, k) PROVE BegunInv'
  BY <1>19 DEF WorkerAsk, Becomes, BegunInv, Ended, Reconciled
<1>20. ASSUME NEW j \in Jobs, NEW k \in Spawns, WorkerAnswered(j, k) PROVE BegunInv'
  BY <1>20 DEF WorkerAnswered, Becomes, ledgerVars, BegunInv, CanEmit, RunTerminal,
     RunActive, Ended, Reconciled
<1>21. ASSUME NEW j \in Jobs, NEW k \in Spawns, WorkerExit(j, k) PROVE BegunInv'
  BY <1>21 DEF WorkerExit, Becomes, ledgerVars, BegunInv, RunActive, Ended, Reconciled
<1>22. ASSUME NEW j \in Jobs, NEW k \in Spawns, NEW outcome \in {"succeeded",
   "failed"}, WorkerFinish(j, k, outcome) PROVE BegunInv'
  BY <1>22 DEF WorkerFinish, Becomes, BegunInv, Ended, Reconciled
<1>23. ASSUME Start \/ PrepareDone \/ RecoverDone \/ TickSignals \/
   CancelSignalRefused \/ ActiveDone \/ CancelRecord \/ CancelQueuedDone \/
   RecordSpawn \/ FailRecord \/ ScheduleDone \/ Sweep \/ Project \/ Crash PROVE Frame
  BY <1>23 DEF Start, PrepareDone, RecoverDone, TickSignals, CancelSignalRefused,
     ActiveDone, CancelRecord, CancelQueuedDone, RecordSpawn, FailRecord, ScheduleDone, Sweep,
     Project, Crash, ledgerVars, workerVars
<1>24. ASSUME NEW j \in Jobs, RecoverPreparingFails(j) \/ RecoverPreparingRaced(j)
   \/ AdoptJob(j) \/ CancelRefused(j) \/ PauseRefused(j) \/ ResumeHeld(j) \/
   ResumeRefused(j) \/ TickAlive(j) \/ CancelQueuedRefused(j) \/ PassOver(j) \/
   WorktreeInvalid(j) \/ EnqueueInsert(j) \/ EnqueueAbandoned(j) \/ RequestCancel(j)
   \/ LeaseExpires(j) PROVE Frame
  BY <1>24 DEF RecoverPreparingFails, RecoverPreparingRaced, AdoptJob, CancelRefused,
     PauseRefused, ResumeHeld, ResumeRefused, TickAlive, CancelQueuedRefused,
     PassOver, WorktreeInvalid, EnqueueInsert, EnqueueAbandoned, RequestCancel,
     LeaseExpires, ledgerVars, workerVars
<1>25. ASSUME NEW j \in Jobs, NEW park \in BOOLEAN, EnqueueMark(j, park) PROVE Frame
  BY <1>25 DEF EnqueueMark, ledgerVars, workerVars
<1>26. ASSUME NEW j \in Jobs, NEW value \in BOOLEAN, RequestPause(j, value) PROVE
   Frame
  BY <1>26 DEF RequestPause, ledgerVars, workerVars
<1>27. ASSUME NEW j \in Jobs, NEW o \in Ordinals, NEW sig \in Signals, SignalRow(j,
   o, sig) PROVE Frame
  BY <1>27 DEF SignalRow, ledgerVars, workerVars
<1>28. ASSUME NEW value \in BOOLEAN, SetKillSwitch(value) PROVE Frame
  BY <1>28 DEF SetKillSwitch, ledgerVars, workerVars
<1>29. ASSUME NEW j \in Jobs, NEW k \in Spawns, WorkerPrepare(j, k) \/
   WorkerConfirm(j, k) PROVE Frame
  BY <1>29 DEF WorkerPrepare, WorkerConfirm, workerVars
<1>30. CASE UNCHANGED vars
  BY <1>1, <1>30 DEF vars, ledgerVars, workerVars
<1> HIDE DEF Frame
<1> QED BY <1>1, <1>2, <1>3, <1>4, <1>5, <1>6, <1>7, <1>8, <1>9, <1>10, <1>11,
   <1>12, <1>13, <1>14, <1>15, <1>16, <1>17, <1>18, <1>19, <1>20, <1>21, <1>22,
   <1>23, <1>24, <1>25, <1>26, <1>27, <1>28, <1>29, <1>30 DEF Next, DaemonStep,
   ClientStep, WorkerStep

\* A run that was never submitted stays out of the daemon's reach.
LEMMA AcceptedStep == TypeOK /\ PhaseInv /\ StoreInv /\ UnstartedInv /\ AcceptedInv /\
     [Next]_vars => AcceptedInv'
<1> SUFFICES ASSUME TypeOK, PhaseInv, StoreInv, UnstartedInv, AcceptedInv, [Next]_vars
     PROVE AcceptedInv'
  OBVIOUS
<1> DEFINE Frame == UNCHANGED <<phase, todo, active, runStatus, linked, appending,
   enq, spawns, jobState>>
<1>1. ASSUME Frame PROVE AcceptedInv'
  BY <1>1 DEF AcceptedInv
<1>2. CASE Start
  BY <1>2 DEF Start, storeVars, ledgerVars, workerVars, clientVars, AcceptedInv
<1>3. CASE PrepareDone
  BY <1>3 DEF PrepareDone, storeVars, ledgerVars, workerVars, clientVars, AcceptedInv
<1>4. CASE RecoverDone
  BY <1>4 DEF RecoverDone, storeVars, ledgerVars, workerVars, clientVars, AcceptedInv
<1>5. CASE TickSignals
  BY <1>5 DEF TickSignals, ledgerVars, workerVars, clientVars, AcceptedInv
<1>6. CASE CancelEnd
  BY <1>6 DEF CancelEnd, FinishActive, Transition, clientVars, AcceptedInv, Ended
<1>7. CASE CancelSignalRefused
  BY <1>7 DEF CancelSignalRefused, GoDown, storeVars, workerVars, clientVars, AcceptedInv
<1>8. CASE ActiveDone
  BY <1>8 DEF ActiveDone, storeVars, ledgerVars, workerVars, clientVars, AcceptedInv
<1>9. CASE CancelRecord
  BY <1>9 DEF CancelRecord, Transition, ledgerVars, workerVars, clientVars, AcceptedInv
<1>10. CASE CancelQueuedDone
  BY <1>10 DEF CancelQueuedDone, storeVars, ledgerVars, workerVars, clientVars,
     AcceptedInv, Ready
<1>11. CASE RecordSpawn
  BY <1>11 DEF RecordSpawn, Transition, ledgerVars, workerVars, clientVars, AcceptedInv
<1>12. CASE FailRecord
  BY <1>12 DEF FailRecord, Transition, ledgerVars, workerVars, clientVars, AcceptedInv
<1>13. CASE ScheduleDone
  BY <1>13 DEF ScheduleDone, storeVars, ledgerVars, workerVars, clientVars, AcceptedInv
<1>14. CASE Sweep
  BY <1>14 DEF Sweep, storeVars, ledgerVars, workerVars, clientVars, AcceptedInv
<1>15. CASE Project
  BY <1>15 DEF Project, storeVars, ledgerVars, workerVars, clientVars, AcceptedInv
<1>16. CASE Crash
  BY <1>16 DEF Crash, GoDown, storeVars, clientVars, AcceptedInv
<1>17. ASSUME NEW j \in Jobs, RecoverPreparing(j) PROVE AcceptedInv'
  BY <1>17 DEF RecoverPreparing, workerVars, clientVars, TypeOK, AcceptedInv, LedgerTypeOK
<1>18. ASSUME NEW j \in Jobs, RecoverPreparingFails(j) PROVE AcceptedInv'
  BY <1>18 DEF RecoverPreparingFails, Transition, ledgerVars, workerVars, clientVars,
     AcceptedInv
<1>19. ASSUME NEW j \in Jobs, RecoverPreparingRaced(j) PROVE AcceptedInv'
  BY <1>19 DEF RecoverPreparingRaced, GoDown, storeVars, workerVars, clientVars, AcceptedInv
<1>20. ASSUME NEW j \in Jobs, RecoverJob(j) PROVE AcceptedInv'
  BY <1>20 DEF RecoverJob, ReconcileInterrupted, Transition, clientVars, AcceptedInv,
     Reconciled
<1>21. ASSUME NEW j \in Jobs, AdoptJob(j) PROVE AcceptedInv'
  <2>1. pid[j] \in Spawns /\ worker[j][pid[j]] # "none"
    BY <1>21 DEF AdoptJob, Alive, WorkerLive
  <2>2. spawns[j] # 0
    BY <2>1 DEF UnstartedInv, Spawns
  <2> QED BY <1>21, <2>2 DEF AdoptJob, storeVars, workerVars, clientVars, AcceptedInv
<1>22. ASSUME NEW j \in Jobs, CancelBegin(j) PROVE AcceptedInv'
  BY <1>22 DEF CancelBegin, storeVars, workerVars, clientVars, AcceptedInv
<1>23. ASSUME NEW j \in Jobs, CancelRefused(j) PROVE AcceptedInv'
  BY <1>23 DEF CancelRefused, GoDown, storeVars, workerVars, clientVars, AcceptedInv
<1>24. ASSUME NEW j \in Jobs, PauseJob(j) PROVE AcceptedInv'
  BY <1>24 DEF PauseJob, Transition, clientVars, AcceptedInv
<1>25. ASSUME NEW j \in Jobs, PauseRefused(j) PROVE AcceptedInv'
  BY <1>25 DEF PauseRefused, GoDown, storeVars, clientVars, AcceptedInv
<1>26. ASSUME NEW j \in Jobs, ResumeHeld(j) PROVE AcceptedInv'
  BY <1>26 DEF ResumeHeld, storeVars, ledgerVars, workerVars, clientVars, AcceptedInv
<1>27. ASSUME NEW j \in Jobs, ResumeJob(j) PROVE AcceptedInv'
  BY <1>27 DEF ResumeJob, Transition, clientVars, AcceptedInv
<1>28. ASSUME NEW j \in Jobs, ResumeRefused(j) PROVE AcceptedInv'
  BY <1>28 DEF ResumeRefused, GoDown, storeVars, clientVars, AcceptedInv
<1>29. ASSUME NEW j \in Jobs, TickExited(j) PROVE AcceptedInv'
  BY <1>29 DEF TickExited, ExitFinishes, ExitRetries, ExitInterrupted,
     ReconcileInterrupted, FinishActive, Transition, workerVars, clientVars, TypeOK,
     PhaseInv, AcceptedInv, StoreTypeOK, LedgerTypeOK, DaemonTypeOK, Reconciled
<1>30. ASSUME NEW j \in Jobs, TickAlive(j) PROVE AcceptedInv'
  BY <1>30 DEF TickAlive, Transition, storeVars, ledgerVars, workerVars, clientVars,
     TypeOK, AcceptedInv, StoreTypeOK
<1>31. ASSUME NEW j \in Jobs, CancelQueued(j) PROVE AcceptedInv'
  BY <1>31 DEF CancelQueued, storeVars, workerVars, clientVars, AcceptedInv
<1>32. ASSUME NEW j \in Jobs, CancelQueuedRefused(j) PROVE AcceptedInv'
  BY <1>32 DEF CancelQueuedRefused, GoDown, storeVars, workerVars, clientVars, AcceptedInv
<1>33. ASSUME NEW j \in Jobs, PassOver(j) PROVE AcceptedInv'
  BY <1>33 DEF PassOver, storeVars, ledgerVars, workerVars, clientVars, AcceptedInv
<1>34. ASSUME NEW j \in Jobs, RejectOversized(j) PROVE AcceptedInv'
  BY <1>34 DEF RejectOversized, FailRun, storeVars, workerVars, clientVars, AcceptedInv, Ended
<1>35. ASSUME NEW j \in Jobs, WorktreeInvalid(j) PROVE AcceptedInv'
  BY <1>35 DEF WorktreeInvalid, GoDown, storeVars, workerVars, clientVars, AcceptedInv
<1>36. ASSUME NEW j \in Jobs, StartJob(j) PROVE AcceptedInv'
  BY <1>36 DEF StartJob, storeVars, clientVars, AcceptedInv
<1>37. ASSUME NEW j \in Jobs, SpawnFails(j) PROVE AcceptedInv'
  BY <1>37 DEF SpawnFails, FailRun, storeVars, Transition, workerVars, clientVars, TypeOK, AcceptedInv,
     StoreTypeOK, LedgerTypeOK, Ended
<1>38. ASSUME NEW j \in Jobs, EnqueueInsert(j) PROVE AcceptedInv'
  BY <1>38 DEF EnqueueInsert, ledgerVars, daemonVars, workerVars, AcceptedInv
<1>39. ASSUME NEW j \in Jobs, EnqueueSubmit(j) PROVE AcceptedInv'
  BY <1>39 DEF EnqueueSubmit, storeVars, daemonVars, workerVars, TypeOK, AcceptedInv,
     LedgerTypeOK
<1>40. ASSUME NEW j \in Jobs, EnqueueFails(j) PROVE AcceptedInv'
  BY <1>40 DEF EnqueueFails, Transition, daemonVars, workerVars, TypeOK, AcceptedInv,
     LedgerTypeOK, Ended
<1>41. ASSUME NEW j \in Jobs, EnqueueAbandoned(j) PROVE AcceptedInv'
  BY <1>41 DEF EnqueueAbandoned, storeVars, ledgerVars, daemonVars, workerVars, AcceptedInv
<1>42. ASSUME NEW j \in Jobs, RequestCancel(j) PROVE AcceptedInv'
  BY <1>42 DEF RequestCancel, ledgerVars, daemonVars, workerVars, TypeOK, AcceptedInv,
     StoreTypeOK
<1>43. ASSUME NEW j \in Jobs, AppendCancellation(j) PROVE AcceptedInv'
  BY <1>43 DEF AppendCancellation, storeVars, daemonVars, workerVars, AcceptedInv, Ended
<1>44. ASSUME NEW j \in Jobs, DecideApproval(j) PROVE AcceptedInv'
  BY <1>44 DEF DecideApproval, storeVars, daemonVars, workerVars, clientVars, AcceptedInv
<1>45. ASSUME NEW j \in Jobs, NEW park \in BOOLEAN, EnqueueMark(j, park) PROVE
   AcceptedInv'
  BY <1>45 DEF EnqueueMark, ledgerVars, daemonVars, workerVars, TypeOK, AcceptedInv,
     StoreTypeOK
<1>46. ASSUME NEW j \in Jobs, NEW k \in Spawns, WorkerSubmit(j, k) PROVE
   AcceptedInv'
  BY <1>46 DEF WorkerSubmit, storeVars, daemonVars, clientVars, TypeOK, AcceptedInv,
     LedgerTypeOK, Ended
<1>47. ASSUME NEW j \in Jobs, NEW k \in Spawns, WorkerBegin(j, k) PROVE AcceptedInv'
  BY <1>47 DEF WorkerBegin, storeVars, daemonVars, clientVars, AcceptedInv
<1>48. ASSUME NEW j \in Jobs, NEW k \in Spawns, WorkerAsk(j, k) PROVE AcceptedInv'
  BY <1>48 DEF WorkerAsk, storeVars, daemonVars, clientVars, AcceptedInv
<1>49. ASSUME NEW j \in Jobs, NEW k \in Spawns, NEW outcome \in {"succeeded",
   "failed"}, WorkerFinish(j, k, outcome) PROVE AcceptedInv'
  BY <1>49 DEF WorkerFinish, storeVars, daemonVars, clientVars, AcceptedInv
<1>50. ASSUME NEW j \in Jobs, LeaseExpires(j) PROVE Frame
  BY <1>50 DEF LeaseExpires, storeVars, daemonVars, workerVars, clientVars
<1>51. ASSUME NEW j \in Jobs, NEW value \in BOOLEAN, RequestPause(j, value) PROVE
   Frame
  BY <1>51 DEF RequestPause, ledgerVars, daemonVars, workerVars, clientVars
<1>52. ASSUME NEW j \in Jobs, NEW o \in Ordinals, NEW sig \in Signals, SignalRow(j,
   o, sig) PROVE Frame
  BY <1>52 DEF SignalRow, storeVars, ledgerVars, daemonVars, workerVars, clientVars
<1>53. ASSUME NEW value \in BOOLEAN, SetKillSwitch(value) PROVE Frame
  BY <1>53 DEF SetKillSwitch, ledgerVars, daemonVars, workerVars, clientVars
<1>54. ASSUME NEW j \in Jobs, NEW k \in Spawns, WorkerAnswered(j, k) \/
   WorkerPrepare(j, k) \/ WorkerConfirm(j, k) \/ WorkerExit(j, k) PROVE Frame
  BY <1>54 DEF WorkerAnswered, WorkerPrepare, WorkerConfirm, WorkerExit, storeVars,
     ledgerVars, daemonVars, workerVars, clientVars
<1>55. CASE UNCHANGED vars
  BY <1>1, <1>55 DEF vars, storeVars, ledgerVars, daemonVars, workerVars, clientVars
<1> HIDE DEF Frame
<1> QED BY <1>1, <1>2, <1>3, <1>4, <1>5, <1>6, <1>7, <1>8, <1>9, <1>10, <1>11, <1>12,
   <1>13, <1>14, <1>15, <1>16, <1>17, <1>18, <1>19, <1>20, <1>21, <1>22, <1>23, <1>24,
   <1>25, <1>26, <1>27, <1>28, <1>29, <1>30, <1>31, <1>32, <1>33, <1>34, <1>35, <1>36,
   <1>37, <1>38, <1>39, <1>40, <1>41, <1>42, <1>43, <1>44, <1>45, <1>46, <1>47, <1>48,
   <1>49, <1>50, <1>51, <1>52, <1>53, <1>54, <1>55 DEF Next, DaemonStep, ClientStep,
   WorkerStep

-----------------------------------------------------------------------------
(* Refinement of RunContract.                                               *)

\* The moves the run ledger allows: a run leaves "none" by its Queued event, and
\* nothing follows a terminal status.
StatusMove(j, t) ==
    /\ runStatus' = [runStatus EXCEPT ![j] = t]
    /\ runStatus[j] = "none" => t \in {"none", "queued"}
    /\ runStatus[j] # "none" => t # "none"
    /\ runStatus[j] \in RunTerminal => t = runStatus[j]

\* Such a move is a step of the contract, or invisible to it.
LEMMA MoveRefines ==
  ASSUME TypeOK, BegunInv, NEW j \in Jobs, NEW t \in RunStatuses,
         StatusMove(j, t), UNCHANGED begun
  PROVE  [Contract!CNext]_<<Stage, begun>>
<1>1. runStatus \in [Jobs -> RunStatuses] /\ runStatus'[j] = t
  BY DEF TypeOK, LedgerTypeOK, StatusMove
<1>2. Stage' = [Stage EXCEPT ![j] = Stage'[j]]
  BY <1>1 DEF Stage, StatusMove
<1>3. CASE Stage'[j] = Stage[j]
  BY <1>2, <1>3 DEF Stage
<1>4. CASE runStatus[j] = "none" /\ t = "queued"
  <2>1. Stage[j] = "none" /\ Stage'[j] = "accepted"
    BY <1>1, <1>4 DEF Stage, BegunInv, RunTerminal
  <2> QED BY <1>2, <2>1 DEF Contract!CNext, Contract!Accept
<1>5. CASE t \in RunTerminal /\ runStatus[j] \notin RunTerminal /\ runStatus[j] # "none"
  <2>1. Stage[j] \in {"accepted", "executing"} /\ Stage'[j] = "over"
    BY <1>1, <1>5 DEF Stage, StatusMove
  <2> QED BY <1>2, <2>1 DEF Contract!CNext, Contract!Finish
<1>6. CASE t \notin RunTerminal /\ runStatus[j] \notin RunTerminal /\ runStatus[j] #
     "none"
  BY <1>1, <1>3, <1>6 DEF Stage, StatusMove
<1>7. CASE runStatus[j] = t
  BY <1>1, <1>3, <1>7 DEF Stage
<1> QED BY <1>4, <1>5, <1>6, <1>7 DEF StatusMove

\* The Started event is the contract's Begin.
LEMMA BeginRefines ==
  ASSUME TypeOK, BegunInv, NEW j \in Jobs, NEW k \in Spawns, WorkerBegin(j, k)
  PROVE  Contract!CNext
<1>1. begun[j] = {} /\ runStatus[j] # "none" /\ runStatus[j] \notin RunTerminal
  BY DEF WorkerBegin, BegunInv, CanEmit
<1>2. runStatus' = [runStatus EXCEPT ![j] = "running"] /\ begun' = [begun EXCEPT ![j] =
     {k}]
  BY <1>1 DEF WorkerBegin
<1>3. Stage[j] = "accepted" /\ Stage' = [Stage EXCEPT ![j] = "executing"]
  BY <1>1, <1>2 DEF Stage, TypeOK, LedgerTypeOK, WorkerTypeOK, RunTerminal
<1> QED BY <1>1, <1>2, <1>3 DEF Contract!CNext, Contract!Begin

\* Every step of the daemon, a client or a child is a step of the contract or a
\* stutter.
LEMMA ContractStep ==
  ASSUME TypeOK, PhaseInv, StoreInv, OnceInv, [Next]_vars
  PROVE  [Contract!CNext]_<<Stage, begun>>
<1> DEFINE Goal == [Contract!CNext]_<<Stage, begun>>
<1> USE DEF OnceInv
<1>1. ASSUME UNCHANGED <<runStatus, begun>> PROVE Goal
  BY <1>1 DEF Stage
<1>2. ASSUME NEW j \in Jobs, NEW t \in RunStatuses, StatusMove(j, t), UNCHANGED begun
     PROVE Goal
  BY <1>2, MoveRefines
<1>3. ASSUME CancelEnd PROVE Goal
  <2> DEFINE t == Ended(runStatus[cur], "cancelled")
  <2>1. cur \in Jobs /\ t \in RunStatuses /\ StatusMove(cur, t) /\ UNCHANGED begun
    BY <1>3 DEF CancelEnd, StatusMove, RunStatuses, RunTerminal, AcceptedInv, Ended,
       PhaseInv
  <2> QED BY <1>2, <2>1
<1>4. ASSUME NEW j \in Jobs, RecoverPreparing(j) PROVE Goal
  <2> DEFINE t == IF runStatus[j] = "none" THEN "queued" ELSE runStatus[j]
  <2>1. j \in Jobs /\ t \in RunStatuses /\ StatusMove(j, t) /\ UNCHANGED begun
    BY <1>4 DEF RecoverPreparing, workerVars, StatusMove, TypeOK, LedgerTypeOK,
       RunStatuses, RunTerminal, RunActive
  <2> QED BY <1>2, <2>1
<1>5. ASSUME NEW j \in Jobs, RecoverJob(j) PROVE Goal
  <2> DEFINE t == Reconciled(j).run
  <2>1. j \in Jobs /\ t \in RunStatuses /\ StatusMove(j, t) /\ UNCHANGED begun
    BY <1>5 DEF RecoverJob, ReconcileInterrupted, StatusMove, TypeOK, LedgerTypeOK,
       RunStatuses, RunTerminal, CanEmit, AcceptedInv, Reconciled
  <2> QED BY <1>2, <2>1
<1>6. ASSUME NEW j \in Jobs, CancelBegin(j) PROVE Goal
  <2> DEFINE t == "cancelling"
  <2>1. j \in Jobs /\ t \in RunStatuses /\ StatusMove(j, t) /\ UNCHANGED begun
    BY <1>6 DEF CancelBegin, workerVars, StatusMove, RunStatuses, CanEmit
  <2> QED BY <1>2, <2>1
<1>7. ASSUME NEW j \in Jobs, PauseJob(j) PROVE Goal
  <2> DEFINE t == "paused"
  <2>1. j \in Jobs /\ t \in RunStatuses /\ StatusMove(j, t) /\ UNCHANGED begun
    BY <1>7 DEF PauseJob, StatusMove, RunStatuses, RunActive, CanEmit
  <2> QED BY <1>2, <2>1
<1>8. ASSUME NEW j \in Jobs, ResumeJob(j) PROVE Goal
  <2> DEFINE t == "running"
  <2>1. j \in Jobs /\ t \in RunStatuses /\ StatusMove(j, t) /\ UNCHANGED begun
    BY <1>8 DEF ResumeJob, StatusMove, RunStatuses, RunActive, CanEmit
  <2> QED BY <1>2, <2>1
<1>9. ASSUME NEW j \in Jobs, TickExited(j) PROVE Goal
  <2>1. CASE ExitFinishes(j) \/ ExitRetries(j)
    BY <1>1, <1>9, <2>1 DEF TickExited, ExitFinishes, ExitRetries, workerVars
  <2>2. CASE ExitInterrupted(j)
    <3>1. Reconciled(j).run \in RunStatuses /\ StatusMove(j, Reconciled(j).run) /\
         UNCHANGED begun
      BY <1>9, <2>2 DEF TickExited, ExitInterrupted, ReconcileInterrupted, Reconciled,
         workerVars, StatusMove, TypeOK, LedgerTypeOK, RunStatuses, RunTerminal,
         AcceptedInv
    <3> QED BY <1>2, <3>1
  <2> QED BY <1>9, <2>1, <2>2 DEF TickExited
<1>10. ASSUME NEW j \in Jobs, CancelQueued(j) PROVE Goal
  <2> DEFINE t == IF linked[j] THEN "cancelled" ELSE runStatus[j]
  <2>1. j \in Jobs /\ t \in RunStatuses /\ StatusMove(j, t) /\ UNCHANGED begun
    BY <1>10 DEF CancelQueued, workerVars, StatusMove, TypeOK, LedgerTypeOK,
       RunStatuses, RunTerminal, CanEmit
  <2> QED BY <1>2, <2>1
<1>11. ASSUME NEW j \in Jobs, RejectOversized(j) PROVE Goal
  <2> DEFINE t == Ended(runStatus[j], "failed")
  <2>1. j \in Jobs /\ t \in RunStatuses /\ StatusMove(j, t) /\ UNCHANGED begun
    BY <1>11 DEF RejectOversized, FailRun, workerVars, StatusMove, RunStatuses, RunTerminal,
       CanEmit, AcceptedInv, Ended
  <2> QED BY <1>2, <2>1
<1>12. ASSUME NEW j \in Jobs, SpawnFails(j) PROVE Goal
  <2>1. CASE UNCHANGED runStatus
    BY <1>1, <1>12, <2>1 DEF SpawnFails, FailRun, storeVars, workerVars
  <2>2. CASE runStatus' = [runStatus EXCEPT ![j] = Ended(@, "failed")]
    <3>1. /\ Ended(runStatus[j], "failed") \in RunStatuses
          /\ StatusMove(j, Ended(runStatus[j], "failed")) /\ UNCHANGED begun
      BY <1>12, <2>2 DEF SpawnFails, FailRun, storeVars, workerVars, StatusMove, Ended, RunStatuses,
         RunTerminal, AcceptedInv
    <3> QED BY <1>2, <3>1
  <2> QED BY <1>12, <2>1, <2>2 DEF SpawnFails, FailRun
<1>13. ASSUME NEW j \in Jobs, EnqueueSubmit(j) PROVE Goal
  <2> DEFINE t == "queued"
  <2>1. j \in Jobs /\ t \in RunStatuses /\ StatusMove(j, t) /\ UNCHANGED begun
    BY <1>13 DEF EnqueueSubmit, workerVars, StatusMove, RunStatuses, RunTerminal, RunActive
  <2> QED BY <1>2, <2>1
<1>14. ASSUME NEW j \in Jobs, EnqueueFails(j) PROVE Goal
  <2>1. CASE UNCHANGED runStatus
    BY <1>1, <1>14, <2>1 DEF EnqueueFails, workerVars
  <2>2. CASE runStatus[j] # "none" /\ runStatus' = [runStatus EXCEPT ![j] = Ended(@,
       "failed")]
    <3>1. /\ Ended(runStatus[j], "failed") \in RunStatuses
          /\ StatusMove(j, Ended(runStatus[j], "failed")) /\ UNCHANGED begun
      BY <1>14, <2>2 DEF EnqueueFails, workerVars, StatusMove, Ended, RunStatuses,
         RunTerminal
    <3> QED BY <1>2, <3>1
  <2> QED BY <1>14, <2>1, <2>2 DEF EnqueueFails
<1>15. ASSUME NEW j \in Jobs, AppendCancellation(j) PROVE Goal
  <2> DEFINE t == Ended(runStatus[j], "cancelling")
  <2>1. j \in Jobs /\ t \in RunStatuses /\ StatusMove(j, t) /\ UNCHANGED begun
    BY <1>15 DEF AppendCancellation, workerVars, StatusMove, RunStatuses, CanEmit,
       AcceptedInv, Ended
  <2> QED BY <1>2, <2>1
<1>16. ASSUME NEW j \in Jobs, DecideApproval(j) PROVE Goal
  <2> DEFINE t == "running"
  <2>1. j \in Jobs /\ t \in RunStatuses /\ StatusMove(j, t) /\ UNCHANGED begun
    BY <1>16 DEF DecideApproval, workerVars, StatusMove, RunStatuses, RunActive, CanEmit
  <2> QED BY <1>2, <2>1
<1>17. ASSUME NEW j \in Jobs, NEW k \in Spawns, WorkerSubmit(j, k) PROVE Goal
  <2>1. CASE UNCHANGED runStatus
    BY <1>1, <1>17, <2>1 DEF WorkerSubmit
  <2>2. CASE runStatus' = [runStatus EXCEPT ![j] = Ended(@, "failed")]
    <3>1. runStatus[j] # "none"
      BY <1>17 DEF WorkerSubmit, UnstartedInv, AcceptedInv, Spawns
    <3>2. /\ Ended(runStatus[j], "failed") \in RunStatuses
          /\ StatusMove(j, Ended(runStatus[j], "failed")) /\ UNCHANGED begun
      BY <1>17, <2>2, <3>1 DEF WorkerSubmit, StatusMove, Ended, RunStatuses, RunTerminal
    <3> QED BY <1>2, <3>2
  <2> QED BY <1>17, <2>1, <2>2 DEF WorkerSubmit
<1>18. ASSUME NEW j \in Jobs, NEW k \in Spawns, WorkerBegin(j, k) PROVE Goal
  BY <1>18, BeginRefines
<1>19. ASSUME NEW j \in Jobs, NEW k \in Spawns, WorkerAsk(j, k) PROVE Goal
  <2> DEFINE t == "waiting_for_permission"
  <2>1. j \in Jobs /\ t \in RunStatuses /\ StatusMove(j, t) /\ UNCHANGED begun
    BY <1>19 DEF WorkerAsk, StatusMove, RunStatuses, RunActive, CanEmit
  <2> QED BY <1>2, <2>1
<1>20. ASSUME NEW j \in Jobs, NEW k \in Spawns, NEW outcome \in {"succeeded",
   "failed"}, WorkerFinish(j, k, outcome) PROVE Goal
  <2> DEFINE t == outcome
  <2>1. j \in Jobs /\ t \in RunStatuses /\ StatusMove(j, t) /\ UNCHANGED begun
    BY <1>20 DEF WorkerFinish, StatusMove, RunStatuses, RunTerminal, CanEmit
  <2> QED BY <1>2, <2>1
<1>21. ASSUME Start \/ PrepareDone \/ RecoverDone \/ TickSignals \/
   CancelSignalRefused \/ ActiveDone \/ CancelRecord \/ CancelQueuedDone \/
   RecordSpawn \/ FailRecord \/ ScheduleDone \/ Sweep \/ Project \/ Crash PROVE Goal
  BY <1>1, <1>21 DEF Start, PrepareDone, RecoverDone, TickSignals, CancelSignalRefused,
     ActiveDone, CancelRecord, CancelQueuedDone, RecordSpawn, FailRecord, ScheduleDone, Sweep,
     Project, Crash, ledgerVars, workerVars
<1>22. ASSUME NEW j \in Jobs, RecoverPreparingFails(j) \/ RecoverPreparingRaced(j)
   \/ AdoptJob(j) \/ CancelRefused(j) \/ PauseRefused(j) \/ ResumeHeld(j) \/
   ResumeRefused(j) \/ TickAlive(j) \/ CancelQueuedRefused(j) \/ PassOver(j) \/
   WorktreeInvalid(j) \/ StartJob(j) \/ EnqueueInsert(j) \/ EnqueueAbandoned(j) \/
   RequestCancel(j) \/ LeaseExpires(j) PROVE Goal
  BY <1>1, <1>22 DEF RecoverPreparingFails, RecoverPreparingRaced, AdoptJob,
     CancelRefused, PauseRefused, ResumeHeld, ResumeRefused, TickAlive,
     CancelQueuedRefused, PassOver, WorktreeInvalid, StartJob, EnqueueInsert,
     EnqueueAbandoned, RequestCancel, LeaseExpires, ledgerVars, workerVars
<1>23. ASSUME NEW j \in Jobs, NEW park \in BOOLEAN, EnqueueMark(j, park) PROVE Goal
  BY <1>1, <1>23 DEF EnqueueMark, ledgerVars, workerVars
<1>24. ASSUME NEW j \in Jobs, NEW value \in BOOLEAN, RequestPause(j, value) PROVE
   Goal
  BY <1>1, <1>24 DEF RequestPause, ledgerVars, workerVars
<1>25. ASSUME NEW j \in Jobs, NEW o \in Ordinals, NEW sig \in Signals, SignalRow(j,
   o, sig) PROVE Goal
  BY <1>1, <1>25 DEF SignalRow, ledgerVars, workerVars
<1>26. ASSUME NEW value \in BOOLEAN, SetKillSwitch(value) PROVE Goal
  BY <1>1, <1>26 DEF SetKillSwitch, ledgerVars, workerVars
<1>27. ASSUME NEW j \in Jobs, NEW k \in Spawns, WorkerAnswered(j, k) \/
   WorkerPrepare(j, k) \/ WorkerConfirm(j, k) \/ WorkerExit(j, k) PROVE Goal
  BY <1>1, <1>27 DEF WorkerAnswered, WorkerPrepare, WorkerConfirm, WorkerExit,
     ledgerVars, workerVars
<1>28. ASSUME UNCHANGED vars PROVE Goal
  BY <1>1, <1>28 DEF vars, ledgerVars, workerVars
<1> HIDE DEF Goal
<1>29. Goal
  BY <1>3, <1>4, <1>5, <1>6, <1>7, <1>8, <1>9, <1>10, <1>11, <1>12, <1>13, <1>14,
     <1>15, <1>16, <1>17, <1>18, <1>19, <1>20, <1>21, <1>22, <1>23, <1>24, <1>25,
     <1>26, <1>27, <1>28 DEF Next, DaemonStep, ClientStep, WorkerStep
<1> QED BY <1>29 DEF Goal

-----------------------------------------------------------------------------
(* The theorems.                                                            *)

\* The initial state satisfies every part of the invariant.
LEMMA InitInv == Init => TypeOK /\ PhaseInv /\ StoreInv /\ OnceInv
<1> SUFFICES ASSUME Init PROVE TypeOK /\ PhaseInv /\ StoreInv /\ OnceInv
  OBVIOUS
<1>1. StoreTypeOK
  <2>1. /\ jobState \in [Jobs -> JobStates] /\ attempt \in [Jobs -> Ordinals]
        /\ pid \in [Jobs -> 0 .. MaxSpawns]
    BY DEF Init, JobStates, Ordinals
  <2>2. pauseReq \in [Jobs -> BOOLEAN] /\ cancelReq \in [Jobs -> BOOLEAN] /\ linked \in
       [Jobs -> BOOLEAN]
    BY DEF Init
  <2>3. killSwitch \in BOOLEAN
    BY DEF Init
  <2> QED BY <2>1, <2>2, <2>3 DEF StoreTypeOK
<1>2. RowTypeOK
  BY DEF Init, RowTypeOK, Row, RowStates, NoRow
<1>3. DaemonTypeOK
  <2>1. tickKill \in BOOLEAN
    BY DEF Init
  <2> QED BY <2>1 DEF Init, DaemonTypeOK, Phases
<1>4. WorkerTypeOK /\ LedgerTypeOK /\ ClientTypeOK
  BY DEF Init, WorkerTypeOK, WorkerStates, LedgerTypeOK, RunStatuses, ClientTypeOK
<1>5. PhaseInv /\ StoreInv
  BY DEF Init, PhaseInv, StoreInv, Alive, WorkerLive
<1>6. UnstartedInv /\ BegunInv /\ AcceptedInv
  BY DEF Init, UnstartedInv, BegunInv, AcceptedInv, Unstarted
<1> QED BY <1>1, <1>2, <1>3, <1>4, <1>5, <1>6 DEF TypeOK, OnceInv

\* The first layer is an invariant of the daemon.
LEMMA MemoryInvariant == Spec => [](TypeOK /\ PhaseInv /\ StoreInv)
<1>1. Init => TypeOK /\ PhaseInv /\ StoreInv
  BY InitInv
<1>2. TypeOK /\ PhaseInv /\ StoreInv /\ [Next]_vars => (TypeOK /\ PhaseInv /\ StoreInv)'
  BY TypeStep, PhaseStep, StoreStep
<1> QED BY <1>1, <1>2, PTL DEF Spec

\* Type correctness: no pid, attempt, row or child outside the ones the daemon has
\* started, whatever crashes, retries and client requests happen.
THEOREM TypeCorrect == Spec => []TypeOK
BY MemoryInvariant, PTL

\* The lease the daemon renews for a supervised child is its own, and a child it may
\* adopt at start has a lease to take over (tick_active's lease-lost branch and
\* take_over_attested_worker_lease's refusal are never taken).
THEOREM LeaseAlwaysHeld == Spec => []LeaseHeld
<1>1. TypeOK /\ PhaseInv /\ StoreInv => LeaseHeld
  BY DEF StoreInv, LeaseHeld
<1> QED BY <1>1, MemoryInvariant, PTL

\* With children that reach Started or die within one lease, both layers together
\* are an invariant.
LEMMA OnceInvariant ==
  ASSUME BootWithinLease
  PROVE  Spec => [](TypeOK /\ PhaseInv /\ StoreInv /\ OnceInv)
<1> DEFINE IInv == TypeOK /\ PhaseInv /\ StoreInv /\ OnceInv
<1>1. Init => IInv
  BY InitInv
<1>2. IInv /\ [Next]_vars => IInv'
  BY TypeStep, PhaseStep, StoreStep, UnstartedStep, BegunStep, AcceptedStep DEF OnceInv
<1> HIDE DEF IInv
<1>3. Spec => []IInv
  BY <1>1, <1>2, PTL DEF Spec
<1> QED BY <1>3 DEF IInv

\* A run is executed at most once (DurableRunRecorder::submit and the run lease): no
\* two children of a job ever pass the Started event.
THEOREM RunExecutedOnce ==
  ASSUME BootWithinLease
  PROVE  Spec => []ExecutedOnce
<1>1. TypeOK /\ PhaseInv /\ StoreInv /\ OnceInv => ExecutedOnce
  BY DEF OnceInv, BegunInv, ExecutedOnce
<1> QED BY <1>1, OnceInvariant, PTL

\* Seen through the run ledger and the Started events, the daemon with its clients,
\* children and crashes implements RunContract.
THEOREM DaemonImplementsContract ==
  ASSUME BootWithinLease
  PROVE  Spec => ImplementsContract
<1> DEFINE IInv == TypeOK /\ PhaseInv /\ StoreInv /\ OnceInv
<1>1. Init => Contract!CInit
  BY DEF Init, Contract!CInit, Stage
<1>2. IInv /\ [Next]_vars => [Contract!CNext]_<<Stage, begun>>
  BY ContractStep
<1>3. Spec => []IInv
  BY OnceInvariant
<1> HIDE DEF IInv
<1> QED BY <1>1, <1>2, <1>3, PTL DEF Spec, ImplementsContract, Contract!CSpec
=============================================================================

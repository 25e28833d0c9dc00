---------------------- MODULE DaemonSupervision_proofs ----------------------
(***************************************************************************)
(* The daemon's children and rows, for every set of jobs and every value of*)
(* the bounds.  RowInv is inductive with the types alone and gives         *)
(* OneLiveRow.  EnqueueInv and ChildInv, on top of PhaseInv and StoreInv,  *)
(* tie the store, the daemon's memory and the live children together: they *)
(* give Supervised, and with SlotsInv and FrozenInv SlotsBound and         *)
(* FrozenIsPaused.                                                         *)
(***************************************************************************)
EXTENDS DaemonEngine_proofs, FiniteSetTheorems

USE DaemonAssumption

-----------------------------------------------------------------------------
(* The process table.                                                      *)

\* Only the current rows of the jobs projected can come to life.
LEMMA ProjectedLive ==
  ASSUME TypeOK, NEW S \in SUBSET {j \in Jobs : Nonterminal(j)}, row' = Projected(S),
         NEW j \in Jobs, NEW o \in Ordinals, row'[j][o].state \in RowLive
  PROVE  row[j][o].state \in RowLive \/ (Nonterminal(j) /\ o = AttemptOrdinal(j))
<1>1. row'[j] = IF j \in S
       THEN [row[j] EXCEPT ![AttemptOrdinal(j)] = Reconcile(@, ProcessStateFor(jobState[j]))]
       ELSE row[j]
  BY DEF Projected
<1>2. row[j] \in [Ordinals -> Row]
  BY DEF TypeOK, RowTypeOK
<1>3. CASE o = AttemptOrdinal(j) /\ j \in S
  BY <1>3
<1>4. CASE o # AttemptOrdinal(j) \/ j \notin S
  BY <1>1, <1>2, <1>4
<1> QED BY <1>3, <1>4

\* reconcile_interrupted never takes a job back to being enqueued.
LEMMA ReconciledNotFresh ==
  ASSUME NEW j \in Jobs, LedgerTypeOK PROVE Reconciled(j).job \notin {"absent", "preparing"}
BY DEF Reconciled, MapRunStatus, RunTerminal

\* Every step keeps RowInv: of the handlers, only the sweep and the projection touch a
\* row's state, and only an enqueue, an end or a recorded spawn moves a job to another row.
LEMMA RowStep == TypeOK /\ RowInv /\ [Next]_vars => RowInv'
<1> SUFFICES ASSUME TypeOK, RowInv, [Next]_vars PROVE RowInv'
  OBVIOUS
<1> DEFINE Frame == UNCHANGED <<jobState, attempt, phase, row>>
<1>1. ASSUME Frame PROVE RowInv'
  BY <1>1 DEF RowInv, OneLiveRow, Nonterminal, AttemptOrdinal
<1>2. CASE Start
  BY <1>2 DEF Start, storeVars, RowInv, OneLiveRow
<1>3. CASE PrepareDone
  BY <1>3 DEF PrepareDone, storeVars, RowInv, OneLiveRow
<1>4. CASE RecoverDone
  BY <1>4 DEF RecoverDone, storeVars, RowInv, OneLiveRow
<1>5. CASE TickSignals
  BY <1>5 DEF TickSignals, RowInv, OneLiveRow
<1>6. CASE CancelEnd
  BY <1>6 DEF CancelEnd, FinishActive, Transition, RowInv, OneLiveRow
<1>7. CASE CancelSignalRefused
  BY <1>7 DEF CancelSignalRefused, GoDown, storeVars, RowInv, OneLiveRow
<1>8. CASE ActiveDone
  BY <1>8 DEF ActiveDone, storeVars, RowInv, OneLiveRow
<1>9. CASE CancelRecord
  BY <1>9 DEF CancelRecord, Transition, RowInv, OneLiveRow
<1>10. CASE CancelQueuedDone
  BY <1>10 DEF CancelQueuedDone, storeVars, RowInv, OneLiveRow
<1>11. CASE RecordSpawn
  BY <1>11 DEF RecordSpawn, Transition, TypeOK, StoreTypeOK, RowInv, OneLiveRow
<1>12. CASE FailRecord
  BY <1>12 DEF FailRecord, Transition, RowInv, OneLiveRow
<1>13. CASE ScheduleDone
  BY <1>13 DEF ScheduleDone, storeVars, RowInv, OneLiveRow
<1>14. CASE Sweep
  <2>1. \A j \in Jobs, o \in Ordinals : row'[j][o].state \in RowLive =>
          row[j][o].state \in RowLive /\ IsCurrent(j, o)
    BY <1>14 DEF Sweep, RowLive
  <2> QED BY <1>14, <2>1 DEF Sweep, IsCurrent, RowInv, OneLiveRow, AttemptOrdinal,
         storeVars
<1>15. CASE Project
  <2>1. \A j \in Jobs, o \in Ordinals : row'[j][o].state \in RowLive =>
          row[j][o].state \in RowLive \/ (Nonterminal(j) /\ o = AttemptOrdinal(j))
    BY <1>15, ProjectedLive DEF Project
  <2>2. phase = "project" /\ phase' = "tick" /\ UNCHANGED <<jobState, attempt>>
    BY <1>15 DEF Project, storeVars
  <2>3. ASSUME NEW j \in Jobs, Nonterminal(j), NEW o \in Ordinals, row'[j][o].state \in RowLive
        PROVE  o = AttemptOrdinal(j)
    BY <2>1, <2>2, <2>3 DEF RowInv
  <2>4. OneLiveRow'
    BY <2>1, <2>3 DEF RowInv, OneLiveRow
  <2> QED BY <2>1, <2>2, <2>4 DEF RowInv, Nonterminal
<1>16. CASE Crash
  BY <1>16 DEF Crash, GoDown, storeVars, RowInv, OneLiveRow
<1>17. ASSUME NEW j \in Jobs, RecoverPreparing(j) PROVE RowInv'
  BY <1>17 DEF RecoverPreparing, RowInv, OneLiveRow
<1>18. ASSUME NEW j \in Jobs, RecoverPreparingFails(j) PROVE RowInv'
  BY <1>18 DEF RecoverPreparingFails, Transition, RowInv, OneLiveRow
<1>19. ASSUME NEW j \in Jobs, RecoverPreparingRaced(j) PROVE RowInv'
  BY <1>19 DEF RecoverPreparingRaced, GoDown, storeVars, RowInv, OneLiveRow
<1>20. ASSUME NEW j \in Jobs, RecoverJob(j) PROVE RowInv'
  BY <1>20, ReconciledNotFresh DEF RecoverJob, ReconcileInterrupted, Transition, TypeOK,
     StoreTypeOK, RowInv, OneLiveRow
<1>21. ASSUME NEW j \in Jobs, CancelBegin(j) PROVE RowInv'
  BY <1>21 DEF CancelBegin, storeVars, RowInv, OneLiveRow
<1>22. ASSUME NEW j \in Jobs, CancelRefused(j) PROVE RowInv'
  BY <1>22 DEF CancelRefused, GoDown, storeVars, RowInv, OneLiveRow
<1>23. ASSUME NEW j \in Jobs, PauseJob(j) PROVE RowInv'
  BY <1>23 DEF PauseJob, Transition, RowInv, OneLiveRow
<1>24. ASSUME NEW j \in Jobs, PauseRefused(j) PROVE RowInv'
  BY <1>24 DEF PauseRefused, GoDown, storeVars, RowInv, OneLiveRow
<1>25. ASSUME NEW j \in Jobs, ResumeJob(j) PROVE RowInv'
  BY <1>25 DEF ResumeJob, Transition, TypeOK, StoreTypeOK, RowInv, OneLiveRow
<1>26. ASSUME NEW j \in Jobs, ResumeRefused(j) PROVE RowInv'
  BY <1>26 DEF ResumeRefused, GoDown, storeVars, RowInv, OneLiveRow
<1>27. ASSUME NEW j \in Jobs, TickExited(j) PROVE RowInv'
  BY <1>27, ReconciledNotFresh DEF TickExited, ExitFinishes, ExitInterrupted,
     ExitRetries, FinishActive, ReconcileInterrupted, Transition, TypeOK, StoreTypeOK,
     RowInv, OneLiveRow, Nonterminal, MapRunStatus, RunTerminal
<1>28. ASSUME NEW j \in Jobs, TickAlive(j) PROVE RowInv'
  BY <1>28 DEF TickAlive, Transition, storeVars, TypeOK, StoreTypeOK, RowInv, OneLiveRow
<1>29. ASSUME NEW j \in Jobs, CancelQueued(j) PROVE RowInv'
  BY <1>29 DEF CancelQueued, storeVars, RowInv, OneLiveRow
<1>30. ASSUME NEW j \in Jobs, CancelQueuedRefused(j) PROVE RowInv'
  BY <1>30 DEF CancelQueuedRefused, GoDown, storeVars, RowInv, OneLiveRow
<1>31. ASSUME NEW j \in Jobs, RejectOversized(j) PROVE RowInv'
  BY <1>31 DEF RejectOversized, FailRun, storeVars, RowInv, OneLiveRow
<1>32. ASSUME NEW j \in Jobs, WorktreeInvalid(j) PROVE RowInv'
  BY <1>32 DEF WorktreeInvalid, GoDown, storeVars, RowInv, OneLiveRow
<1>33. ASSUME NEW j \in Jobs, StartJob(j) PROVE RowInv'
  BY <1>33 DEF StartJob, storeVars, RowInv, OneLiveRow
<1>34. ASSUME NEW j \in Jobs, SpawnFails(j) PROVE RowInv'
  BY <1>34 DEF SpawnFails, FailRun, storeVars, Transition, TypeOK, StoreTypeOK, RowInv, OneLiveRow
<1>35. ASSUME NEW j \in Jobs, EnqueueInsert(j) PROVE RowInv'
  BY <1>35 DEF EnqueueInsert, daemonVars, RowInv, OneLiveRow, Nonterminal,
     AttemptOrdinal
<1>36. ASSUME NEW j \in Jobs, EnqueueFails(j) PROVE RowInv'
  BY <1>36 DEF EnqueueFails, Transition, daemonVars, RowInv, OneLiveRow, Nonterminal,
     AttemptOrdinal, JobTerminal
<1>37. ASSUME NEW j \in Jobs, NEW park \in BOOLEAN, EnqueueMark(j, park) PROVE RowInv'
  BY <1>37 DEF EnqueueMark, daemonVars, TypeOK, StoreTypeOK, RowInv, OneLiveRow,
     Nonterminal, AttemptOrdinal, JobTerminal
<1>38. ASSUME NEW j \in Jobs, NEW o \in Ordinals, NEW sig \in Signals,
              SignalRow(j, o, sig)
       PROVE  RowInv'
  <2>1. \A i \in Jobs, p \in Ordinals : row'[i][p].state \in RowLive => row[i][p].state \in RowLive
    BY <1>38 DEF SignalRow
  <2> QED BY <1>38, <2>1 DEF SignalRow, storeVars, daemonVars, RowInv, OneLiveRow,
         Nonterminal, AttemptOrdinal
<1>39. ASSUME NEW j \in Jobs,
              AdoptJob(j) \/ ResumeHeld(j) \/ PassOver(j) \/ EnqueueSubmit(j) \/
              EnqueueAbandoned(j) \/ RequestCancel(j) \/ AppendCancellation(j) \/
              DecideApproval(j) \/ LeaseExpires(j)
       PROVE  Frame
  BY <1>39 DEF AdoptJob, ResumeHeld, PassOver, EnqueueSubmit, EnqueueAbandoned,
     RequestCancel, AppendCancellation, DecideApproval, LeaseExpires, storeVars,
     daemonVars
<1>40. ASSUME NEW j \in Jobs, NEW value \in BOOLEAN, RequestPause(j, value) PROVE Frame
  BY <1>40 DEF RequestPause, daemonVars
<1>41. ASSUME NEW value \in BOOLEAN, SetKillSwitch(value) PROVE Frame
  BY <1>41 DEF SetKillSwitch, daemonVars
<1>42. ASSUME NEW j \in Jobs, NEW k \in Spawns,
              WorkerSubmit(j, k) \/ WorkerBegin(j, k) \/ WorkerAsk(j, k) \/
              WorkerAnswered(j, k) \/ WorkerPrepare(j, k) \/ WorkerConfirm(j, k) \/
              WorkerExit(j, k)
       PROVE  Frame
  BY <1>42 DEF WorkerSubmit, WorkerBegin, WorkerAsk, WorkerAnswered, WorkerPrepare,
     WorkerConfirm, WorkerExit, storeVars, daemonVars
<1>43. ASSUME NEW j \in Jobs, NEW k \in Spawns,
              NEW outcome \in {"succeeded", "failed"}, WorkerFinish(j, k, outcome)
       PROVE  Frame
  BY <1>43 DEF WorkerFinish, storeVars, daemonVars
<1>44. CASE UNCHANGED vars
  BY <1>1, <1>44 DEF vars, storeVars, daemonVars
<1> HIDE DEF Frame
<1> QED BY <1>1, <1>2, <1>3, <1>4, <1>5, <1>6, <1>7, <1>8, <1>9, <1>10, <1>11, <1>12,
   <1>13, <1>14, <1>15, <1>16, <1>17, <1>18, <1>19, <1>20, <1>21, <1>22, <1>23, <1>24,
   <1>25, <1>26, <1>27, <1>28, <1>29, <1>30, <1>31, <1>32, <1>33, <1>34, <1>35, <1>36,
   <1>37, <1>38, <1>39, <1>40, <1>41, <1>42, <1>43, <1>44 DEF Next, DaemonStep,
   ClientStep, WorkerStep

-----------------------------------------------------------------------------
(* Facts the steps below share.                                            *)

\* A child that takes a step is live and not stopped; it writes to its own run only,
\* and brings no dead child back.
LEMMA WorkerFrame ==
  ASSUME TypeOK, NEW j \in Jobs, NEW k \in Spawns, WorkerStep(j, k)
  PROVE  /\ UNCHANGED <<storeVars, lease, row, daemonVars, frozen, spawns, lost, clientVars>>
         /\ Running(j, k)
         /\ \A i \in Jobs, l \in Spawns :
              worker[i][l] \notin WorkerLive => worker'[i][l] = worker[i][l]
         /\ \A i \in Jobs \ {j} : runStatus'[i] = runStatus[i] /\ approval'[i] = approval[i]
         /\ runStatus[j] \in RunTerminal => runStatus'[j] = runStatus[j]
<1>1. ASSUME NEW state, Becomes(j, k, state), Running(j, k)
      PROVE  \A i \in Jobs, l \in Spawns :
               worker[i][l] \notin WorkerLive => worker'[i][l] = worker[i][l]
  BY <1>1 DEF Becomes, Running
<1>2. CASE WorkerSubmit(j, k)
  BY <1>1, <1>2 DEF WorkerSubmit, TypeOK, LedgerTypeOK, Ended
<1>3. CASE WorkerBegin(j, k)
  BY <1>1, <1>3 DEF WorkerBegin, CanEmit
<1>4. CASE WorkerAsk(j, k)
  BY <1>1, <1>4 DEF WorkerAsk, CanEmit
<1>5. CASE WorkerAnswered(j, k)
  BY <1>1, <1>5 DEF WorkerAnswered, ledgerVars
<1>6. CASE WorkerPrepare(j, k) \/ WorkerConfirm(j, k)
  BY <1>6 DEF WorkerPrepare, WorkerConfirm, workerVars
<1>7. ASSUME NEW outcome \in {"succeeded", "failed"}, WorkerFinish(j, k, outcome)
      PROVE  /\ UNCHANGED <<storeVars, lease, row, daemonVars, frozen, spawns, lost, clientVars>>
             /\ Running(j, k) /\ Becomes(j, k, "closing")
             /\ runStatus' = [runStatus EXCEPT ![j] = outcome] /\ UNCHANGED approval
             /\ runStatus[j] \notin RunTerminal
  BY <1>7 DEF WorkerFinish, CanEmit
<1>8. CASE WorkerExit(j, k)
  BY <1>1, <1>8 DEF WorkerExit, ledgerVars
<1> QED BY <1>1, <1>2, <1>3, <1>4, <1>5, <1>6, <1>7, <1>8 DEF WorkerStep, TypeOK,
       LedgerTypeOK

\* terminate_orphan and the end of a grace period: the child named is dead, and no
\* dead child comes back.
LEMMA KilledLive ==
  ASSUME TypeOK, NEW j \in Jobs, NEW p, worker' = Killed(j, p),
         NEW i \in Jobs, NEW l \in Spawns, worker'[i][l] \in WorkerLive
  PROVE  worker[i][l] \in WorkerLive /\ ~(i = j /\ l = p)
BY DEF Killed, TypeOK, WorkerTypeOK, WorkerLive

\* ... and a child that was never started still was not.
LEMMA KilledNone ==
  ASSUME TypeOK, NEW j \in Jobs, NEW p, worker' = Killed(j, p),
         NEW i \in Jobs, NEW l \in Spawns, worker[i][l] = "none"
  PROVE  worker'[i][l] = "none"
BY DEF Killed, TypeOK, WorkerTypeOK

\* What the daemon has in memory is in the store, as a job in an active state whose
\* enqueue is over.
LEMMA SupervisedJob ==
  ASSUME TypeOK, StoreInv, EnqueueInv, ChildInv, NEW j \in Jobs, active[j] # 0
  PROVE  jobState[j] \in JobActive /\ enq[j] = "done" /\ pid[j] = active[j]
<1>1. pid[j] = active[j] /\ jobState[j] \in JobActive
  BY DEF ChildInv, StoreInv
<1> QED BY <1>1 DEF EnqueueInv, TypeOK, ClientTypeOK, JobActive

-----------------------------------------------------------------------------
(* Enqueues, children and the store.                                       *)

\* Every step keeps EnqueueInv when the daemon does not start in the middle of an enqueue:
\* a client writes to a job until its mark_queued, the daemon's loops only after it.
LEMMA EnqueueStep ==
  ASSUME "enqrace" \notin Inputs
  PROVE  TypeOK /\ PhaseInv /\ StoreInv /\ EnqueueInv /\ ChildInv /\ [Next]_vars =>
          EnqueueInv'
<1> SUFFICES ASSUME TypeOK, PhaseInv, StoreInv, EnqueueInv, ChildInv, [Next]_vars
             PROVE  EnqueueInv'
  OBVIOUS
<1> DEFINE Frame == UNCHANGED <<jobState, pid, phase, todo, cur, enq>>
<1>1. ASSUME Frame PROVE EnqueueInv'
  BY <1>1 DEF EnqueueInv
<1>2. CASE Start
  BY <1>2 DEF Start, storeVars, clientVars, EnqueueInv, TypeOK, ClientTypeOK
<1>3. CASE PrepareDone
  BY <1>3 DEF PrepareDone, storeVars, clientVars, EnqueueInv, JobActive, TypeOK,
     ClientTypeOK
<1>4. CASE RecoverDone
  BY <1>4 DEF RecoverDone, storeVars, clientVars, EnqueueInv
<1>5. CASE TickSignals
  BY <1>5 DEF TickSignals, clientVars, EnqueueInv
<1>6. CASE CancelEnd
  BY <1>6, SupervisedJob DEF CancelEnd, FinishActive, Transition, clientVars, PhaseInv,
     EnqueueInv
<1>7. CASE CancelSignalRefused
  BY <1>7 DEF CancelSignalRefused, GoDown, storeVars, clientVars, EnqueueInv
<1>8. CASE ActiveDone
  BY <1>8 DEF ActiveDone, storeVars, clientVars, StoreInv, EnqueueInv, JobActive
<1>9. CASE CancelRecord
  BY <1>9 DEF CancelRecord, Transition, clientVars, EnqueueInv
<1>10. CASE CancelQueuedDone
  BY <1>10 DEF CancelQueuedDone, storeVars, clientVars, EnqueueInv, Ready, TypeOK,
     ClientTypeOK
<1>11. CASE RecordSpawn
  BY <1>11 DEF RecordSpawn, Transition, clientVars, PhaseInv, EnqueueInv
<1>12. CASE FailRecord
  BY <1>12 DEF FailRecord, Transition, clientVars, PhaseInv, EnqueueInv
<1>13. CASE ScheduleDone
  BY <1>13 DEF ScheduleDone, storeVars, clientVars, EnqueueInv
<1>14. CASE Sweep
  BY <1>14 DEF Sweep, storeVars, clientVars, EnqueueInv
<1>15. CASE Project
  BY <1>15 DEF Project, storeVars, clientVars, EnqueueInv
<1>16. CASE Crash
  BY <1>16 DEF Crash, GoDown, storeVars, clientVars, EnqueueInv
<1>17. ASSUME NEW j \in Jobs, RecoverPreparing(j) PROVE EnqueueInv'
  BY <1>17 DEF RecoverPreparing, clientVars, EnqueueInv
<1>18. ASSUME NEW j \in Jobs, RecoverPreparingFails(j) PROVE EnqueueInv'
  BY <1>18 DEF RecoverPreparingFails, Transition, clientVars, EnqueueInv
<1>19. ASSUME NEW j \in Jobs, RecoverPreparingRaced(j) PROVE EnqueueInv'
  BY <1>19 DEF RecoverPreparingRaced, EnqueueInv
<1>20. ASSUME NEW j \in Jobs, RecoverJob(j) PROVE EnqueueInv'
  BY <1>20, ReconciledNotFresh DEF RecoverJob, ReconcileInterrupted, Transition,
     clientVars, TypeOK, EnqueueInv
<1>21. ASSUME NEW j \in Jobs, AdoptJob(j) PROVE EnqueueInv'
  BY <1>21 DEF AdoptJob, storeVars, clientVars, EnqueueInv
<1>22. ASSUME NEW j \in Jobs, CancelBegin(j) PROVE EnqueueInv'
  BY <1>22 DEF CancelBegin, storeVars, clientVars, EnqueueInv
<1>23. ASSUME NEW j \in Jobs, CancelRefused(j) PROVE EnqueueInv'
  BY <1>23 DEF CancelRefused, GoDown, storeVars, clientVars, EnqueueInv
<1>24. ASSUME NEW j \in Jobs, PauseJob(j) PROVE EnqueueInv'
  BY <1>24, SupervisedJob DEF PauseJob, Transition, clientVars, PhaseInv, EnqueueInv
<1>25. ASSUME NEW j \in Jobs, PauseRefused(j) PROVE EnqueueInv'
  BY <1>25 DEF PauseRefused, GoDown, storeVars, clientVars, EnqueueInv
<1>26. ASSUME NEW j \in Jobs, ResumeHeld(j) PROVE EnqueueInv'
  BY <1>26 DEF ResumeHeld, storeVars, clientVars, EnqueueInv
<1>27. ASSUME NEW j \in Jobs, ResumeJob(j) PROVE EnqueueInv'
  BY <1>27, SupervisedJob DEF ResumeJob, Transition, clientVars, PhaseInv, EnqueueInv
<1>28. ASSUME NEW j \in Jobs, ResumeRefused(j) PROVE EnqueueInv'
  BY <1>28 DEF ResumeRefused, GoDown, storeVars, clientVars, EnqueueInv
<1>29. ASSUME NEW j \in Jobs, TickExited(j) PROVE EnqueueInv'
  <2>1. jobState[j] \in JobActive /\ enq[j] = "done"
    BY <1>29, SupervisedJob DEF TickExited, PhaseInv
  <2>2. jobState' = [jobState EXCEPT ![j] = jobState'[j]] /\ jobState'[j] # "absent"
    BY <1>29, ReconciledNotFresh DEF TickExited, ExitFinishes, ExitRetries,
       ExitInterrupted, FinishActive, ReconcileInterrupted, Transition, MapRunStatus,
       RunTerminal, TypeOK, StoreTypeOK
  <2>3. phase = "active" /\ UNCHANGED <<phase, enq>>
    BY <1>29 DEF TickExited, clientVars
  <2> QED BY <2>1, <2>2, <2>3 DEF EnqueueInv, TypeOK, StoreTypeOK
<1>30. ASSUME NEW j \in Jobs, TickAlive(j) PROVE EnqueueInv'
  BY <1>30, SupervisedJob DEF TickAlive, Transition, storeVars, clientVars, TypeOK,
     StoreTypeOK, PhaseInv, EnqueueInv
<1>31. ASSUME NEW j \in Jobs, CancelQueued(j) PROVE EnqueueInv'
  BY <1>31 DEF CancelQueued, storeVars, clientVars, EnqueueInv
<1>32. ASSUME NEW j \in Jobs, CancelQueuedRefused(j) PROVE EnqueueInv'
  BY <1>32 DEF CancelQueuedRefused, GoDown, storeVars, clientVars, EnqueueInv
<1>33. ASSUME NEW j \in Jobs, PassOver(j) PROVE EnqueueInv'
  BY <1>33 DEF PassOver, storeVars, clientVars, EnqueueInv
<1>34. ASSUME NEW j \in Jobs, RejectOversized(j) PROVE EnqueueInv'
  BY <1>34 DEF RejectOversized, FailRun, storeVars, clientVars, EnqueueInv
<1>35. ASSUME NEW j \in Jobs, WorktreeInvalid(j) PROVE EnqueueInv'
  BY <1>35 DEF WorktreeInvalid, GoDown, storeVars, clientVars, EnqueueInv
<1>36. ASSUME NEW j \in Jobs, StartJob(j) PROVE EnqueueInv'
  BY <1>36 DEF StartJob, storeVars, clientVars, EnqueueInv
<1>37. ASSUME NEW j \in Jobs, SpawnFails(j) PROVE EnqueueInv'
  BY <1>37 DEF SpawnFails, FailRun, storeVars, Transition, clientVars, TypeOK, StoreTypeOK, DaemonTypeOK,
     EnqueueInv
<1>38. ASSUME NEW j \in Jobs, EnqueueInsert(j) PROVE EnqueueInv'
  BY <1>38 DEF EnqueueInsert, daemonVars, TypeOK, StoreTypeOK, ClientTypeOK, EnqueueInv
<1>39. ASSUME NEW j \in Jobs, EnqueueSubmit(j) PROVE EnqueueInv'
  BY <1>39 DEF EnqueueSubmit, storeVars, daemonVars, EnqueueInv
<1>40. ASSUME NEW j \in Jobs, EnqueueFails(j) PROVE EnqueueInv'
  BY <1>40 DEF EnqueueFails, Transition, daemonVars, TypeOK, ClientTypeOK, EnqueueInv
<1>41. ASSUME NEW j \in Jobs, EnqueueAbandoned(j) PROVE EnqueueInv'
  BY <1>41 DEF EnqueueAbandoned, storeVars, daemonVars, EnqueueInv
<1>42. ASSUME NEW j \in Jobs, NEW park \in BOOLEAN, EnqueueMark(j, park) PROVE
     EnqueueInv'
  <2>1. phase \in {"prepare", "recover", "schedule", "spawned", "failrec"} => j \notin todo
    BY <1>42 DEF EnqueueMark, EnqueueInv
  <2>2. enq' = [enq EXCEPT ![j] = "done"] /\ jobState'[j] # "absent"
        /\ \A i \in Jobs \ {j} : jobState'[i] = jobState[i]
    BY <1>42 DEF EnqueueMark, EnqueueInv, TypeOK, StoreTypeOK
  <2>3. UNCHANGED <<pid, phase, todo, cur>>
    BY <1>42 DEF EnqueueMark, daemonVars
  <2> QED BY <2>1, <2>2, <2>3 DEF EnqueueInv, TypeOK, ClientTypeOK, DaemonTypeOK
<1>43. ASSUME NEW j \in Jobs,
              RequestCancel(j) \/ AppendCancellation(j) \/ DecideApproval(j) \/
              LeaseExpires(j)
       PROVE  Frame
  BY <1>43 DEF RequestCancel, AppendCancellation, DecideApproval, LeaseExpires,
     storeVars, daemonVars, clientVars
<1>44. ASSUME NEW j \in Jobs, NEW value \in BOOLEAN, RequestPause(j, value) PROVE Frame
  BY <1>44 DEF RequestPause, daemonVars, clientVars
<1>45. ASSUME NEW j \in Jobs, NEW o \in Ordinals, NEW sig \in Signals,
              SignalRow(j, o, sig)
       PROVE  Frame
  BY <1>45 DEF SignalRow, storeVars, daemonVars, clientVars
<1>46. ASSUME NEW value \in BOOLEAN, SetKillSwitch(value) PROVE Frame
  BY <1>46 DEF SetKillSwitch, daemonVars, clientVars
<1>47. ASSUME NEW j \in Jobs, NEW k \in Spawns,
              WorkerSubmit(j, k) \/ WorkerBegin(j, k) \/ WorkerAsk(j, k) \/
              WorkerAnswered(j, k) \/ WorkerPrepare(j, k) \/ WorkerConfirm(j, k) \/
              WorkerExit(j, k)
       PROVE  Frame
  BY <1>47 DEF WorkerSubmit, WorkerBegin, WorkerAsk, WorkerAnswered, WorkerPrepare,
     WorkerConfirm, WorkerExit, storeVars, daemonVars, clientVars
<1>48. ASSUME NEW j \in Jobs, NEW k \in Spawns,
              NEW outcome \in {"succeeded", "failed"}, WorkerFinish(j, k, outcome)
       PROVE  Frame
  BY <1>48 DEF WorkerFinish, storeVars, daemonVars, clientVars
<1>49. CASE UNCHANGED vars
  BY <1>1, <1>49 DEF vars, storeVars, daemonVars, clientVars
<1> HIDE DEF Frame
<1> QED BY <1>1, <1>2, <1>3, <1>4, <1>5, <1>6, <1>7, <1>8, <1>9, <1>10, <1>11, <1>12,
   <1>13, <1>14, <1>15, <1>16, <1>17, <1>18, <1>19, <1>20, <1>21, <1>22, <1>23, <1>24,
   <1>25, <1>26, <1>27, <1>28, <1>29, <1>30, <1>31, <1>32, <1>33, <1>34, <1>35, <1>36,
   <1>37, <1>38, <1>39, <1>40, <1>41, <1>42, <1>43, <1>44, <1>45, <1>46, <1>47, <1>48,
   <1>49 DEF Next, DaemonStep, ClientStep, WorkerStep

\* Every step keeps ChildInv: memory and store change together, a child leaves them dead,
\* and a crash between spawn and transition puts the child among the lost ones.
LEMMA ChildStep ==
  TypeOK /\ PhaseInv /\ StoreInv /\ EnqueueInv /\ ChildInv /\ [Next]_vars => ChildInv'
<1> SUFFICES ASSUME TypeOK, PhaseInv, StoreInv, EnqueueInv, ChildInv, [Next]_vars
             PROVE  ChildInv'
  OBVIOUS
<1> DEFINE Frame == UNCHANGED <<pid, phase, todo, cur, active, worker, spawns, lost>>
<1>1. ASSUME Frame PROVE ChildInv'
  BY <1>1 DEF ChildInv, Recovering
<1>2. CASE Start
  BY <1>2 DEF Start, storeVars, workerVars, ChildInv, Recovering
<1>3. CASE PrepareDone
  BY <1>3 DEF PrepareDone, storeVars, workerVars, StoreInv, ChildInv, Recovering
<1>4. CASE RecoverDone
  BY <1>4 DEF RecoverDone, storeVars, workerVars, ChildInv
<1>5. CASE TickSignals
  BY <1>5 DEF TickSignals, workerVars, ChildInv, Recovering
<1>6. CASE CancelEnd
  BY <1>6, KilledLive DEF CancelEnd, FinishActive, Transition, TypeOK, StoreTypeOK,
     DaemonTypeOK, WorkerTypeOK, PhaseInv, ChildInv, Recovering
<1>7. CASE CancelSignalRefused
  BY <1>7 DEF CancelSignalRefused, GoDown, storeVars, workerVars, ChildInv, Recovering
<1>8. CASE ActiveDone
  BY <1>8 DEF ActiveDone, storeVars, workerVars, ChildInv, Recovering
<1>9. CASE CancelRecord
  BY <1>9 DEF CancelRecord, Transition, workerVars, EnqueueInv, ChildInv, Recovering
<1>10. CASE CancelQueuedDone
  BY <1>10 DEF CancelQueuedDone, storeVars, workerVars, ChildInv, Recovering
<1>11. CASE RecordSpawn
  <2>1. cur \in Jobs /\ active[cur] = 0 /\ pid[cur] = 0
    BY <1>11 DEF RecordSpawn, PhaseInv
  <2>2. pid' = [pid EXCEPT ![cur] = spawns[cur]] /\ active' = [active EXCEPT ![cur] = spawns[cur]]
    BY <1>11 DEF RecordSpawn, Transition
  <2>3. phase = "spawned" /\ phase' = "schedule" /\ UNCHANGED <<worker, spawns, lost>>
    BY <1>11 DEF RecordSpawn, workerVars
  <2>4. \A k \in Spawns : k # 0
    BY DEF Spawns
  <2>5. spawns[cur] \in 0 .. MaxSpawns
    BY <2>1 DEF TypeOK, WorkerTypeOK
  <2> QED BY <2>1, <2>2, <2>3, <2>4, <2>5 DEF ChildInv, Recovering, TypeOK, StoreTypeOK,
         DaemonTypeOK
<1>12. CASE FailRecord
  BY <1>12 DEF FailRecord, Transition, workerVars, PhaseInv, ChildInv, Recovering
<1>13. CASE ScheduleDone
  BY <1>13 DEF ScheduleDone, storeVars, workerVars, ChildInv, Recovering
<1>14. CASE Sweep
  BY <1>14 DEF Sweep, storeVars, workerVars, ChildInv, Recovering
<1>15. CASE Project
  BY <1>15 DEF Project, storeVars, workerVars, ChildInv, Recovering
<1>16. CASE Crash
  BY <1>16 DEF Crash, GoDown, storeVars, TypeOK, WorkerTypeOK, ChildInv, Recovering
<1>17. ASSUME NEW j \in Jobs, RecoverPreparing(j) PROVE ChildInv'
  BY <1>17 DEF RecoverPreparing, workerVars, ChildInv, Recovering
<1>18. ASSUME NEW j \in Jobs, RecoverPreparingFails(j) PROVE ChildInv'
  BY <1>18 DEF RecoverPreparingFails, Transition, workerVars, StoreInv, EnqueueInv,
     ChildInv, Recovering, JobActive
<1>19. ASSUME NEW j \in Jobs, RecoverPreparingRaced(j) PROVE ChildInv'
  BY <1>19 DEF RecoverPreparingRaced, EnqueueInv
<1>20. ASSUME NEW j \in Jobs, RecoverJob(j) PROVE ChildInv'
  BY <1>20, KilledLive DEF RecoverJob, ReconcileInterrupted, Transition, TypeOK,
     StoreTypeOK, WorkerTypeOK, PhaseInv, ChildInv, Recovering
<1>21. ASSUME NEW j \in Jobs, AdoptJob(j) PROVE ChildInv'
  BY <1>21 DEF AdoptJob, storeVars, workerVars, TypeOK, DaemonTypeOK, ChildInv,
     Recovering
<1>22. ASSUME NEW j \in Jobs, CancelBegin(j) PROVE ChildInv'
  BY <1>22 DEF CancelBegin, storeVars, workerVars, ChildInv, Recovering
<1>23. ASSUME NEW j \in Jobs, CancelRefused(j) PROVE ChildInv'
  BY <1>23 DEF CancelRefused, GoDown, storeVars, workerVars, ChildInv, Recovering
<1>24. ASSUME NEW j \in Jobs, PauseJob(j) PROVE ChildInv'
  BY <1>24 DEF PauseJob, Transition, ChildInv, Recovering
<1>25. ASSUME NEW j \in Jobs, PauseRefused(j) PROVE ChildInv'
  BY <1>25 DEF PauseRefused, GoDown, storeVars, ChildInv, Recovering
<1>26. ASSUME NEW j \in Jobs, ResumeHeld(j) PROVE ChildInv'
  BY <1>26 DEF ResumeHeld, storeVars, workerVars, ChildInv, Recovering
<1>27. ASSUME NEW j \in Jobs, ResumeJob(j) PROVE ChildInv'
  BY <1>27 DEF ResumeJob, Transition, ChildInv, Recovering
<1>28. ASSUME NEW j \in Jobs, ResumeRefused(j) PROVE ChildInv'
  BY <1>28 DEF ResumeRefused, GoDown, storeVars, ChildInv, Recovering
<1>29. ASSUME NEW j \in Jobs, TickExited(j) PROVE ChildInv'
  <2>1. active' = [active EXCEPT ![j] = 0] /\ pid' = [pid EXCEPT ![j] = 0]
    BY <1>29 DEF TickExited, ExitFinishes, ExitRetries, ExitInterrupted, FinishActive,
       ReconcileInterrupted, Transition
  <2>2. phase = "active" /\ ~Alive(j, active[j]) /\ UNCHANGED <<phase, cur, worker, spawns, lost>>
    BY <1>29 DEF TickExited, workerVars
  <2>3. pid[j] = active[j]
    BY <2>2 DEF ChildInv, Recovering
  <2>4. \A k \in Spawns : worker[j][k] \in WorkerLive => k \in lost[j]
    BY <2>2, <2>3 DEF ChildInv, Alive
  <2>5. spawns[j] >= 0
    BY DEF TypeOK, WorkerTypeOK
  <2> QED BY <2>1, <2>2, <2>4, <2>5 DEF ChildInv, Recovering, TypeOK, StoreTypeOK,
         DaemonTypeOK
<1>30. ASSUME NEW j \in Jobs, TickAlive(j) PROVE ChildInv'
  BY <1>30 DEF TickAlive, Transition, storeVars, workerVars, TypeOK, StoreTypeOK,
     ChildInv, Recovering
<1>31. ASSUME NEW j \in Jobs, CancelQueued(j) PROVE ChildInv'
  BY <1>31 DEF CancelQueued, storeVars, workerVars, ChildInv, Recovering
<1>32. ASSUME NEW j \in Jobs, CancelQueuedRefused(j) PROVE ChildInv'
  BY <1>32 DEF CancelQueuedRefused, GoDown, storeVars, workerVars, ChildInv, Recovering
<1>33. ASSUME NEW j \in Jobs, PassOver(j) PROVE ChildInv'
  BY <1>33 DEF PassOver, storeVars, workerVars, ChildInv, Recovering
<1>34. ASSUME NEW j \in Jobs, RejectOversized(j) PROVE ChildInv'
  BY <1>34 DEF RejectOversized, FailRun, storeVars, workerVars, PhaseInv, ChildInv, Recovering
<1>35. ASSUME NEW j \in Jobs, WorktreeInvalid(j) PROVE ChildInv'
  BY <1>35 DEF WorktreeInvalid, GoDown, storeVars, workerVars, ChildInv, Recovering
<1>36. ASSUME NEW j \in Jobs, StartJob(j) PROVE ChildInv'
  BY <1>36 DEF StartJob, storeVars, TypeOK, DaemonTypeOK, WorkerTypeOK, ChildInv,
     Recovering
<1>37. ASSUME NEW j \in Jobs, SpawnFails(j) PROVE ChildInv'
  BY <1>37 DEF SpawnFails, FailRun, storeVars, Transition, workerVars, TypeOK, StoreTypeOK, PhaseInv,
     ChildInv, Recovering
<1>38. ASSUME NEW j \in Jobs, EnqueueFails(j) PROVE ChildInv'
  BY <1>38 DEF EnqueueFails, Transition, daemonVars, workerVars, StoreInv, EnqueueInv,
     ChildInv, Recovering, JobActive
<1>39. ASSUME NEW j \in Jobs, NEW k \in Spawns, WorkerStep(j, k) PROVE ChildInv'
  BY <1>39, WorkerFrame DEF ChildInv, Recovering, storeVars, daemonVars
<1>40. ASSUME NEW j \in Jobs,
              EnqueueInsert(j) \/ EnqueueSubmit(j) \/ EnqueueAbandoned(j) \/
              RequestCancel(j) \/ AppendCancellation(j) \/ DecideApproval(j) \/
              LeaseExpires(j)
       PROVE  Frame
  BY <1>40 DEF EnqueueInsert, EnqueueSubmit, EnqueueAbandoned, RequestCancel,
     AppendCancellation, DecideApproval, LeaseExpires, storeVars, daemonVars, workerVars
<1>41. ASSUME NEW j \in Jobs, NEW park \in BOOLEAN, EnqueueMark(j, park) PROVE Frame
  BY <1>41 DEF EnqueueMark, daemonVars, workerVars
<1>42. ASSUME NEW j \in Jobs, NEW value \in BOOLEAN, RequestPause(j, value) PROVE Frame
  BY <1>42 DEF RequestPause, daemonVars, workerVars
<1>43. ASSUME NEW j \in Jobs, NEW o \in Ordinals, NEW sig \in Signals,
              SignalRow(j, o, sig)
       PROVE  Frame
  BY <1>43 DEF SignalRow, storeVars, daemonVars, workerVars
<1>44. ASSUME NEW value \in BOOLEAN, SetKillSwitch(value) PROVE Frame
  BY <1>44 DEF SetKillSwitch, daemonVars, workerVars
<1>45. CASE UNCHANGED vars
  BY <1>1, <1>45 DEF vars, storeVars, daemonVars, workerVars
<1> HIDE DEF Frame
<1> QED BY <1>1, <1>2, <1>3, <1>4, <1>5, <1>6, <1>7, <1>8, <1>9, <1>10, <1>11, <1>12,
   <1>13, <1>14, <1>15, <1>16, <1>17, <1>18, <1>19, <1>20, <1>21, <1>22, <1>23, <1>24,
   <1>25, <1>26, <1>27, <1>28, <1>29, <1>30, <1>31, <1>32, <1>33, <1>34, <1>35, <1>36,
   <1>37, <1>38, <1>39, <1>40, <1>41, <1>42, <1>43, <1>44, <1>45 DEF Next, DaemonStep,
   ClientStep

-----------------------------------------------------------------------------
(* Stopped children and slots.                                             *)

\* Every step keeps FrozenInv when no worker is adopted: a job leaves the paused state by
\* a SIGCONT to its child, by its child's death, or with its daemon.
LEMMA FrozenStep ==
  ASSUME ~LiveHandoff
  PROVE  TypeOK /\ PhaseInv /\ StoreInv /\ EnqueueInv /\ ChildInv /\ FrozenInv /\
          [Next]_vars => FrozenInv'
<1> SUFFICES ASSUME TypeOK, PhaseInv, StoreInv, EnqueueInv, ChildInv, FrozenInv,
                    [Next]_vars
             PROVE  FrozenInv'
  OBVIOUS
<1> DEFINE Frame == UNCHANGED <<jobState, runStatus, phase, cur, active, worker, frozen,
     spawns, lost>>
<1>1. ASSUME Frame PROVE FrozenInv'
  BY <1>1 DEF FrozenInv, Recovering
<1>2. CASE Start
  BY <1>2 DEF Start, workerVars, FrozenInv, Recovering
<1>3. CASE PrepareDone
  BY <1>3 DEF PrepareDone, workerVars, FrozenInv, Recovering
<1>4. CASE RecoverDone
  BY <1>4 DEF RecoverDone, workerVars, PhaseInv, EnqueueInv, ChildInv, FrozenInv,
     Recovering, Spawns, TypeOK, WorkerTypeOK
<1>5. CASE TickSignals
  BY <1>5 DEF TickSignals, ledgerVars, workerVars, FrozenInv, Recovering
<1>6. CASE CancelEnd
  BY <1>6, KilledLive DEF CancelEnd, FinishActive, Transition, TypeOK, WorkerTypeOK,
     PhaseInv, FrozenInv, Recovering
<1>7. CASE CancelSignalRefused
  BY <1>7 DEF CancelSignalRefused, GoDown, workerVars, FrozenInv, Recovering
<1>8. CASE ActiveDone
  BY <1>8 DEF ActiveDone, storeVars, ledgerVars, workerVars, FrozenInv, Recovering
<1>9. CASE CancelRecord
  <2>1. cur \in Jobs /\ active[cur] = 0
    BY <1>9 DEF CancelRecord, PhaseInv, EnqueueInv, ChildInv
  <2>2. /\ phase = "cancelrec" /\ phase' = "cancelq"
        /\ UNCHANGED <<runStatus, active, worker, frozen, spawns, lost>>
        /\ \A i \in Jobs \ {cur} : jobState'[i] = jobState[i]
    BY <1>9, <2>1 DEF CancelRecord, Transition, ledgerVars, workerVars
  <2>3. \A k \in frozen[cur] : k # 0
    BY <2>1 DEF TypeOK, WorkerTypeOK, Spawns
  <2> QED BY <2>1, <2>2, <2>3 DEF FrozenInv, Recovering
<1>10. CASE CancelQueuedDone
  BY <1>10 DEF CancelQueuedDone, storeVars, ledgerVars, workerVars, FrozenInv,
     Recovering
<1>11. CASE RecordSpawn
  BY <1>11 DEF RecordSpawn, Transition, ledgerVars, workerVars, PhaseInv, EnqueueInv,
     FrozenInv, Recovering
<1>12. CASE FailRecord
  <2>1. cur \in Jobs /\ active[cur] = 0
    BY <1>12 DEF FailRecord, PhaseInv, EnqueueInv, ChildInv
  <2>2. /\ phase = "failrec" /\ phase' = "schedule"
        /\ UNCHANGED <<runStatus, active, worker, frozen, spawns, lost>>
        /\ \A i \in Jobs \ {cur} : jobState'[i] = jobState[i]
    BY <1>12, <2>1 DEF FailRecord, Transition, ledgerVars, workerVars
  <2>3. \A k \in frozen[cur] : k # 0
    BY <2>1 DEF TypeOK, WorkerTypeOK, Spawns
  <2> QED BY <2>1, <2>2, <2>3 DEF FrozenInv, Recovering
<1>13. CASE ScheduleDone
  BY <1>13 DEF ScheduleDone, storeVars, ledgerVars, workerVars, FrozenInv, Recovering
<1>14. CASE Sweep
  BY <1>14 DEF Sweep, storeVars, ledgerVars, workerVars, FrozenInv, Recovering
<1>15. CASE Project
  BY <1>15 DEF Project, storeVars, ledgerVars, workerVars, FrozenInv, Recovering
<1>16. CASE Crash
  BY <1>16 DEF Crash, GoDown, FrozenInv, Recovering
<1>17. ASSUME NEW j \in Jobs, RecoverPreparing(j) PROVE FrozenInv'
  BY <1>17 DEF RecoverPreparing, workerVars, FrozenInv, Recovering
<1>18. ASSUME NEW j \in Jobs, RecoverPreparingFails(j) PROVE FrozenInv'
  BY <1>18 DEF RecoverPreparingFails, workerVars, FrozenInv, Recovering
<1>19. ASSUME NEW j \in Jobs, RecoverPreparingRaced(j) PROVE FrozenInv'
  BY <1>19 DEF RecoverPreparingRaced, EnqueueInv
<1>20. ASSUME NEW j \in Jobs, RecoverJob(j) PROVE FrozenInv'
  BY <1>20, KilledLive DEF RecoverJob, FrozenInv, Recovering
<1>21. ASSUME NEW j \in Jobs, AdoptJob(j) PROVE FrozenInv'
  BY <1>21 DEF AdoptJob
<1>22. ASSUME NEW j \in Jobs, CancelBegin(j) PROVE FrozenInv'
  BY <1>22 DEF CancelBegin, storeVars, workerVars, FrozenInv, Recovering
<1>23. ASSUME NEW j \in Jobs, CancelRefused(j) PROVE FrozenInv'
  BY <1>23 DEF CancelRefused, GoDown, workerVars, FrozenInv, Recovering
<1>24. ASSUME NEW j \in Jobs, PauseJob(j) PROVE FrozenInv'
  BY <1>24 DEF PauseJob, Transition, TypeOK, StoreTypeOK, LedgerTypeOK, ChildInv,
     FrozenInv, Recovering
<1>25. ASSUME NEW j \in Jobs, PauseRefused(j) PROVE FrozenInv'
  BY <1>25 DEF PauseRefused, GoDown, EnqueueInv, ChildInv, FrozenInv, Recovering
<1>26. ASSUME NEW j \in Jobs, ResumeJob(j) PROVE FrozenInv'
  BY <1>26 DEF ResumeJob, Transition, TypeOK, WorkerTypeOK, FrozenInv, Recovering
<1>27. ASSUME NEW j \in Jobs, ResumeRefused(j) PROVE FrozenInv'
  BY <1>27 DEF ResumeRefused, GoDown, FrozenInv, Recovering
<1>28. ASSUME NEW j \in Jobs, TickExited(j) PROVE FrozenInv'
  <2>1. active' = [active EXCEPT ![j] = 0] /\ \A i \in Jobs \ {j} :
          jobState'[i] = jobState[i] /\ runStatus'[i] = runStatus[i]
    BY <1>28 DEF TickExited, ExitFinishes, ExitRetries, ExitInterrupted, FinishActive,
       ReconcileInterrupted, Transition, TypeOK, StoreTypeOK, LedgerTypeOK
  <2>2. /\ phase = "active" /\ ~Alive(j, active[j])
        /\ UNCHANGED <<phase, cur, worker, frozen, spawns, lost>>
    BY <1>28 DEF TickExited, workerVars
  <2>3. \A k \in frozen[j] : lost[j] = {} => worker[j][k] \notin WorkerLive
    BY <2>2 DEF FrozenInv, Alive, Recovering, TypeOK, WorkerTypeOK
  <2> QED BY <2>1, <2>2, <2>3 DEF FrozenInv, Recovering
<1>29. ASSUME NEW j \in Jobs, TickAlive(j) PROVE FrozenInv'
  BY <1>29 DEF TickAlive, Transition, storeVars, ledgerVars, workerVars, TypeOK,
     StoreTypeOK, FrozenInv, Recovering
<1>30. ASSUME NEW j \in Jobs, CancelQueued(j) PROVE FrozenInv'
  BY <1>30 DEF CancelQueued, storeVars, workerVars, FrozenInv, Recovering
<1>31. ASSUME NEW j \in Jobs, CancelQueuedRefused(j) PROVE FrozenInv'
  BY <1>31 DEF CancelQueuedRefused, GoDown, workerVars, FrozenInv, Recovering
<1>32. ASSUME NEW j \in Jobs, RejectOversized(j) PROVE FrozenInv'
  BY <1>32 DEF RejectOversized, FailRun, storeVars, workerVars, EnqueueInv, FrozenInv,
     Recovering
<1>33. ASSUME NEW j \in Jobs, WorktreeInvalid(j) PROVE FrozenInv'
  BY <1>33 DEF WorktreeInvalid, GoDown, workerVars, FrozenInv, Recovering
<1>34. ASSUME NEW j \in Jobs, StartJob(j) PROVE FrozenInv'
  <2>1. /\ phase = "schedule" /\ phase' = "spawned" /\ cur' = j
        /\ spawns' = [spawns EXCEPT ![j] = @ + 1]
        /\ UNCHANGED <<jobState, runStatus, active, frozen, lost>>
    BY <1>34 DEF StartJob, storeVars
  <2>2. \A i \in Jobs : \A k \in frozen[i] : worker'[i][k] = worker[i][k]
    <3>1. \A k \in frozen[j] : k # spawns[j] + 1
      BY DEF FrozenInv, TypeOK, WorkerTypeOK
    <3>2. \A i \in Jobs : frozen[i] \subseteq Spawns
      BY DEF TypeOK, WorkerTypeOK
    <3> QED BY <1>34, <3>1, <3>2 DEF StartJob, TypeOK, WorkerTypeOK
  <2> QED BY <2>1, <2>2 DEF FrozenInv, Recovering, TypeOK, WorkerTypeOK, Spawns
<1>35. ASSUME NEW j \in Jobs, SpawnFails(j) PROVE FrozenInv'
  BY <1>35 DEF SpawnFails, FailRun, storeVars, Transition, workerVars, TypeOK, StoreTypeOK, LedgerTypeOK,
     EnqueueInv, FrozenInv, Recovering
<1>36. ASSUME NEW j \in Jobs, EnqueueInsert(j) PROVE FrozenInv'
  BY <1>36 DEF EnqueueInsert, ledgerVars, daemonVars, workerVars, FrozenInv, Recovering
<1>37. ASSUME NEW j \in Jobs, EnqueueSubmit(j) PROVE FrozenInv'
  BY <1>37 DEF EnqueueSubmit, storeVars, daemonVars, workerVars, FrozenInv, Recovering
<1>38. ASSUME NEW j \in Jobs, EnqueueFails(j) PROVE FrozenInv'
  BY <1>38 DEF EnqueueFails, Transition, daemonVars, workerVars, TypeOK, LedgerTypeOK,
     EnqueueInv, FrozenInv, Recovering
<1>39. ASSUME NEW j \in Jobs, AppendCancellation(j) PROVE FrozenInv'
  BY <1>39 DEF AppendCancellation, storeVars, daemonVars, workerVars, FrozenInv,
     Recovering, Ended
<1>40. ASSUME NEW j \in Jobs, DecideApproval(j) PROVE FrozenInv'
  BY <1>40 DEF DecideApproval, storeVars, daemonVars, workerVars, FrozenInv, Recovering
<1>41. ASSUME NEW j \in Jobs, NEW park \in BOOLEAN, EnqueueMark(j, park) PROVE
     FrozenInv'
  BY <1>41 DEF EnqueueMark, ledgerVars, daemonVars, workerVars, TypeOK, StoreTypeOK,
     FrozenInv, Recovering
<1>42. ASSUME NEW j \in Jobs, NEW k \in Spawns, WorkerStep(j, k) PROVE FrozenInv'
  <2>1. /\ UNCHANGED <<storeVars, daemonVars, frozen, spawns, lost>> /\ Running(j, k)
        /\ \A i \in Jobs, l \in Spawns :
             worker[i][l] \notin WorkerLive => worker'[i][l] = worker[i][l]
        /\ \A i \in Jobs \ {j} : runStatus'[i] = runStatus[i]
    BY <1>42, WorkerFrame
  <2>2. ASSUME NEW l \in frozen[j], worker[j][l] \in WorkerLive, ~Recovering,
               lost[j] = {}
        PROVE  FALSE
    <3>1. active[j] = l /\ pid[j] = l
      BY <2>2 DEF FrozenInv, ChildInv
    <3>2. k \notin frozen[j] /\ worker[j][k] \in WorkerLive
      BY <2>1 DEF Running
    <3>3. phase = "spawned" /\ cur = j
      BY <2>2, <3>1, <3>2 DEF ChildInv
    <3>4. l # 0
      BY <2>2 DEF TypeOK, WorkerTypeOK, Spawns
    <3> QED BY <3>1, <3>3, <3>4 DEF PhaseInv
  <2> QED BY <2>1, <2>2 DEF FrozenInv, Recovering, storeVars, daemonVars, TypeOK,
         WorkerTypeOK
<1>43. ASSUME NEW j \in Jobs,
              ResumeHeld(j) \/ PassOver(j) \/ EnqueueAbandoned(j) \/
              RequestCancel(j) \/ LeaseExpires(j)
       PROVE  Frame
  BY <1>43 DEF ResumeHeld, PassOver, EnqueueAbandoned, RequestCancel, LeaseExpires,
     storeVars, ledgerVars, daemonVars, workerVars
<1>44. ASSUME NEW j \in Jobs, NEW value \in BOOLEAN, RequestPause(j, value) PROVE Frame
  BY <1>44 DEF RequestPause, ledgerVars, daemonVars, workerVars
<1>45. ASSUME NEW j \in Jobs, NEW o \in Ordinals, NEW sig \in Signals,
              SignalRow(j, o, sig)
       PROVE  Frame
  BY <1>45 DEF SignalRow, storeVars, ledgerVars, daemonVars, workerVars
<1>46. ASSUME NEW value \in BOOLEAN, SetKillSwitch(value) PROVE Frame
  BY <1>46 DEF SetKillSwitch, ledgerVars, daemonVars, workerVars
<1>47. CASE UNCHANGED vars
  BY <1>1, <1>47 DEF vars, storeVars, ledgerVars, daemonVars, workerVars
<1> HIDE DEF Frame
<1> QED BY <1>1, <1>2, <1>3, <1>4, <1>5, <1>6, <1>7, <1>8, <1>9, <1>10, <1>11, <1>12,
   <1>13, <1>14, <1>15, <1>16, <1>17, <1>18, <1>19, <1>20, <1>21, <1>22, <1>23, <1>24,
   <1>25, <1>26, <1>27, <1>28, <1>29, <1>30, <1>31, <1>32, <1>33, <1>34, <1>35, <1>36,
   <1>37, <1>38, <1>39, <1>40, <1>41, <1>42, <1>43, <1>44, <1>45, <1>46, <1>47 DEF Next,
   DaemonStep, ClientStep

\* Slots are not exceeded by a step that gives no job a child.
LEMMA MannedShrinks ==
  ASSUME SlotsInv, Manned' \subseteq Manned, phase' = "spawned" => phase = "spawned"
  PROVE  SlotsInv'
<1>1. IsFiniteSet(Manned') /\ Cardinality(Manned') <= Cardinality(Manned)
  BY FS_Subset DEF SlotsInv
<1>2. Cardinality(Manned') \in Nat /\ Cardinality(Manned) \in Nat
  BY <1>1, FS_CardinalityType DEF SlotsInv
<1> QED BY <1>1, <1>2 DEF SlotsInv

\* Every step keeps SlotsInv: schedule counts the children in memory, which after
\* recovery are the ones in the store.
LEMMA SlotsStep ==
  TypeOK /\ PhaseInv /\ StoreInv /\ EnqueueInv /\ ChildInv /\ SlotsInv /\ [Next]_vars => SlotsInv'
<1> SUFFICES ASSUME TypeOK, PhaseInv, StoreInv, EnqueueInv, ChildInv, SlotsInv,
                    [Next]_vars
             PROVE  SlotsInv'
  OBVIOUS
<1> DEFINE Frame == UNCHANGED <<pid, phase>>
<1>1. ASSUME Frame PROVE SlotsInv'
  BY <1>1 DEF SlotsInv, Manned
<1>2. CASE Start
  BY <1>2, MannedShrinks DEF Start, storeVars, Manned
<1>3. CASE PrepareDone
  BY <1>3, MannedShrinks DEF PrepareDone, storeVars, Manned
<1>4. CASE RecoverDone
  BY <1>4, MannedShrinks DEF RecoverDone, storeVars, Manned
<1>5. CASE TickSignals
  BY <1>5, MannedShrinks DEF TickSignals, Manned
<1>6. CASE CancelEnd
  BY <1>6, MannedShrinks DEF CancelEnd, FinishActive, Transition, Manned
<1>7. CASE CancelSignalRefused
  BY <1>7, MannedShrinks DEF CancelSignalRefused, GoDown, storeVars, Manned
<1>8. CASE ActiveDone
  BY <1>8, MannedShrinks DEF ActiveDone, storeVars, Manned
<1>9. CASE CancelRecord
  BY <1>9, MannedShrinks DEF CancelRecord, Transition, Manned
<1>10. CASE CancelQueuedDone
  BY <1>10, MannedShrinks DEF CancelQueuedDone, storeVars, Manned
<1>11. CASE RecordSpawn
  <2>1. Manned' \subseteq Manned \cup {cur} /\ phase = "spawned" /\ phase' = "schedule"
    BY <1>11 DEF RecordSpawn, Transition, Manned
  <2>2. /\ IsFiniteSet(Manned \cup {cur})
        /\ Cardinality(Manned \cup {cur}) <= Cardinality(Manned) + 1
    <3>1. IsFiniteSet(Manned) /\ Cardinality(Manned) \in Nat
      BY FS_CardinalityType DEF SlotsInv
    <3>2. /\ IsFiniteSet(Manned \cup {cur})
          /\ Cardinality(Manned \cup {cur}) =
               IF cur \in Manned THEN Cardinality(Manned) ELSE Cardinality(Manned) + 1
      BY <3>1, FS_AddElement
    <3> QED BY <3>1, <3>2
  <2>3. IsFiniteSet(Manned') /\ Cardinality(Manned') <= Cardinality(Manned \cup {cur})
    BY <2>1, <2>2, FS_Subset
  <2>4. /\ Cardinality(Manned') \in Nat /\ Cardinality(Manned \cup {cur}) \in Nat
        /\ Cardinality(Manned) \in Nat
    BY <2>2, <2>3, FS_CardinalityType DEF SlotsInv
  <2> QED BY <2>1, <2>2, <2>3, <2>4 DEF SlotsInv
<1>12. CASE FailRecord
  BY <1>12, MannedShrinks DEF FailRecord, Transition, Manned
<1>13. CASE ScheduleDone
  BY <1>13, MannedShrinks DEF ScheduleDone, storeVars, Manned
<1>14. CASE Sweep
  BY <1>14, MannedShrinks DEF Sweep, storeVars, Manned
<1>15. CASE Project
  BY <1>15, MannedShrinks DEF Project, storeVars, Manned
<1>16. CASE Crash
  BY <1>16, MannedShrinks DEF Crash, GoDown, storeVars, Manned
<1>17. ASSUME NEW j \in Jobs, RecoverPreparingFails(j) PROVE SlotsInv'
  BY <1>17, MannedShrinks DEF RecoverPreparingFails, Transition, Manned
<1>18. ASSUME NEW j \in Jobs, RecoverPreparingRaced(j) PROVE SlotsInv'
  BY <1>18, MannedShrinks DEF RecoverPreparingRaced, GoDown, storeVars, Manned
<1>19. ASSUME NEW j \in Jobs, RecoverJob(j) PROVE SlotsInv'
  BY <1>19, MannedShrinks DEF RecoverJob, ReconcileInterrupted, Transition, Manned
<1>20. ASSUME NEW j \in Jobs, CancelBegin(j) PROVE SlotsInv'
  BY <1>20, MannedShrinks DEF CancelBegin, storeVars, Manned
<1>21. ASSUME NEW j \in Jobs, CancelRefused(j) PROVE SlotsInv'
  BY <1>21, MannedShrinks DEF CancelRefused, GoDown, storeVars, Manned
<1>22. ASSUME NEW j \in Jobs, PauseJob(j) PROVE SlotsInv'
  BY <1>22, MannedShrinks, SupervisedJob DEF PauseJob, Transition, Manned
<1>23. ASSUME NEW j \in Jobs, PauseRefused(j) PROVE SlotsInv'
  BY <1>23, MannedShrinks DEF PauseRefused, GoDown, storeVars, Manned
<1>24. ASSUME NEW j \in Jobs, ResumeJob(j) PROVE SlotsInv'
  BY <1>24, MannedShrinks, SupervisedJob DEF ResumeJob, Transition, Manned
<1>25. ASSUME NEW j \in Jobs, ResumeRefused(j) PROVE SlotsInv'
  BY <1>25, MannedShrinks DEF ResumeRefused, GoDown, storeVars, Manned
<1>26. ASSUME NEW j \in Jobs, TickExited(j) PROVE SlotsInv'
  BY <1>26, MannedShrinks DEF TickExited, ExitFinishes, ExitInterrupted, ExitRetries,
     FinishActive, ReconcileInterrupted, Transition, TypeOK, StoreTypeOK, Manned
<1>27. ASSUME NEW j \in Jobs, TickAlive(j) PROVE SlotsInv'
  BY <1>27, MannedShrinks, SupervisedJob DEF TickAlive, Transition, storeVars, TypeOK,
     StoreTypeOK, Manned
<1>28. ASSUME NEW j \in Jobs, CancelQueued(j) PROVE SlotsInv'
  BY <1>28, MannedShrinks DEF CancelQueued, storeVars, Manned
<1>29. ASSUME NEW j \in Jobs, CancelQueuedRefused(j) PROVE SlotsInv'
  BY <1>29, MannedShrinks DEF CancelQueuedRefused, GoDown, storeVars, Manned
<1>30. ASSUME NEW j \in Jobs, RejectOversized(j) PROVE SlotsInv'
  BY <1>30, MannedShrinks DEF RejectOversized, FailRun, storeVars, Manned
<1>31. ASSUME NEW j \in Jobs, WorktreeInvalid(j) PROVE SlotsInv'
  BY <1>31, MannedShrinks DEF WorktreeInvalid, GoDown, storeVars, Manned
<1>32. ASSUME NEW j \in Jobs, StartJob(j) PROVE SlotsInv'
  <2>1. phase = "schedule" /\ phase' = "spawned" /\ UNCHANGED pid
    BY <1>32 DEF StartJob, storeVars
  <2>2. Manned = {i \in Jobs : active[i] # 0}
    BY <2>1 DEF Manned, ChildInv, Recovering
  <2>3. Cardinality(Manned) < Slots /\ Manned' = Manned
    BY <1>32, <2>1, <2>2 DEF StartJob, FreeSlot, Manned
  <2> QED BY <2>3 DEF SlotsInv
<1>33. ASSUME NEW j \in Jobs, SpawnFails(j) PROVE SlotsInv'
  BY <1>33, MannedShrinks DEF SpawnFails, FailRun, storeVars, Transition, TypeOK, StoreTypeOK, Manned
<1>34. ASSUME NEW j \in Jobs, EnqueueFails(j) PROVE SlotsInv'
  BY <1>34, MannedShrinks DEF EnqueueFails, Transition, daemonVars, Manned
<1>35. ASSUME NEW j \in Jobs,
              RecoverPreparing(j) \/ AdoptJob(j) \/ ResumeHeld(j) \/ PassOver(j) \/
              EnqueueInsert(j) \/ EnqueueSubmit(j) \/ EnqueueAbandoned(j) \/
              RequestCancel(j) \/ AppendCancellation(j) \/ DecideApproval(j) \/
              LeaseExpires(j)
       PROVE  Frame
  BY <1>35 DEF RecoverPreparing, AdoptJob, ResumeHeld, PassOver, EnqueueInsert,
     EnqueueSubmit, EnqueueAbandoned, RequestCancel, AppendCancellation, DecideApproval,
     LeaseExpires, storeVars, daemonVars
<1>36. ASSUME NEW j \in Jobs, NEW park \in BOOLEAN, EnqueueMark(j, park) PROVE Frame
  BY <1>36 DEF EnqueueMark, daemonVars
<1>37. ASSUME NEW j \in Jobs, NEW value \in BOOLEAN, RequestPause(j, value) PROVE Frame
  BY <1>37 DEF RequestPause, daemonVars
<1>38. ASSUME NEW j \in Jobs, NEW o \in Ordinals, NEW sig \in Signals,
              SignalRow(j, o, sig)
       PROVE  Frame
  BY <1>38 DEF SignalRow, storeVars, daemonVars
<1>39. ASSUME NEW value \in BOOLEAN, SetKillSwitch(value) PROVE Frame
  BY <1>39 DEF SetKillSwitch, daemonVars
<1>40. ASSUME NEW j \in Jobs, NEW k \in Spawns,
              WorkerSubmit(j, k) \/ WorkerBegin(j, k) \/ WorkerAsk(j, k) \/
              WorkerAnswered(j, k) \/ WorkerPrepare(j, k) \/ WorkerConfirm(j, k) \/
              WorkerExit(j, k)
       PROVE  Frame
  BY <1>40 DEF WorkerSubmit, WorkerBegin, WorkerAsk, WorkerAnswered, WorkerPrepare,
     WorkerConfirm, WorkerExit, storeVars, daemonVars
<1>41. ASSUME NEW j \in Jobs, NEW k \in Spawns,
              NEW outcome \in {"succeeded", "failed"}, WorkerFinish(j, k, outcome)
       PROVE  Frame
  BY <1>41 DEF WorkerFinish, storeVars, daemonVars
<1>42. CASE UNCHANGED vars
  BY <1>1, <1>42 DEF vars, storeVars, daemonVars
<1> HIDE DEF Frame
<1> QED BY <1>1, <1>2, <1>3, <1>4, <1>5, <1>6, <1>7, <1>8, <1>9, <1>10, <1>11, <1>12,
   <1>13, <1>14, <1>15, <1>16, <1>17, <1>18, <1>19, <1>20, <1>21, <1>22, <1>23, <1>24,
   <1>25, <1>26, <1>27, <1>28, <1>29, <1>30, <1>31, <1>32, <1>33, <1>34, <1>35, <1>36,
   <1>37, <1>38, <1>39, <1>40, <1>41, <1>42 DEF Next, DaemonStep, ClientStep, WorkerStep

-----------------------------------------------------------------------------
(* The theorems.                                                           *)

\* A daemon that has done nothing satisfies the invariants of this module.
LEMMA InitSupervision == Init => RowInv /\ EnqueueInv /\ ChildInv /\ SlotsInv /\ FrozenInv
<1> SUFFICES ASSUME Init PROVE RowInv /\ EnqueueInv /\ ChildInv /\ SlotsInv /\ FrozenInv
  OBVIOUS
<1>1. RowInv
  BY DEF Init, RowInv, OneLiveRow, NoRow, RowLive
<1>2. EnqueueInv
  BY DEF Init, EnqueueInv
<1>3. ChildInv
  BY DEF Init, ChildInv, WorkerLive
<1>4. SlotsInv
  <2>1. Manned = {}
    BY DEF Init, Manned
  <2>2. Cardinality(Manned) = 0 /\ IsFiniteSet(Manned)
    BY <2>1, FS_EmptySet
  <2> QED BY <2>2 DEF Init, SlotsInv
<1>5. FrozenInv
  BY DEF Init, FrozenInv
<1> QED BY <1>1, <1>2, <1>3, <1>4, <1>5

\* sync_process_table_inner: however sweeps, projections, signals, crashes and client
\* commands interleave, no reader sees two live rows of one job.
THEOREM RowsNeverDouble == Spec => []OneLiveRow
<1>1. Init => RowInv
  BY InitSupervision
<1>2. TypeOK /\ RowInv /\ [Next]_vars => RowInv'
  BY RowStep
<1>3. RowInv => OneLiveRow
  BY DEF RowInv
<1> QED BY <1>1, <1>2, <1>3, TypeCorrect, PTL DEF Spec

\* Store, memory and children belong together unless the daemon starts in the middle of
\* an enqueue.
LEMMA ChildInvariant ==
  ASSUME "enqrace" \notin Inputs
  PROVE  Spec => [](TypeOK /\ PhaseInv /\ StoreInv /\ EnqueueInv /\ ChildInv)
<1> DEFINE IInv == TypeOK /\ PhaseInv /\ StoreInv /\ EnqueueInv /\ ChildInv
<1>1. Init => IInv
  BY InitInv, InitSupervision
<1>2. IInv /\ [Next]_vars => IInv'
  BY TypeStep, PhaseStep, StoreStep, EnqueueStep, ChildStep
<1> HIDE DEF IInv
<1>3. Spec => []IInv
  BY <1>1, <1>2, PTL DEF Spec
<1> QED BY <1>3 DEF IInv

\* Once the daemon has recovered, it supervises every live child of an active job, and
\* before that the store names it; only children whose daemon died between spawn and
\* transition (start_job) escape.
THEOREM ChildrenSupervised ==
  ASSUME "enqrace" \notin Inputs
  PROVE  Spec => []Supervised
<1> DEFINE IInv == TypeOK /\ PhaseInv /\ StoreInv /\ EnqueueInv /\ ChildInv
<1>1. IInv => Supervised
  <2> SUFFICES ASSUME StoreInv, ChildInv, NEW j \in Jobs, NEW k \in Spawns,
                      worker[j][k] \in WorkerLive, k \notin lost[j],
                      ~(phase = "spawned" /\ cur = j /\ k = spawns[j])
               PROVE  /\ jobState[j] \in JobActive /\ pid[j] = k
                      /\ active[j] = k \/ (Recovering /\ active[j] = 0)
    BY DEF Supervised
  <2>1. pid[j] = k /\ k # 0
    BY DEF ChildInv, Spawns
  <2>2. jobState[j] \in JobActive
    BY <2>1 DEF StoreInv
  <2> QED BY <2>1, <2>2 DEF ChildInv
<1>2. Spec => []IInv
  BY ChildInvariant
<1> HIDE DEF IInv
<1> QED BY <1>1, <1>2, PTL

\* A job has one live child at most that is not lost, and then a pid or a child being
\* started: so the children that run are no more than SlotsInv allows.
LEMMA SlotsCount == TypeOK /\ PhaseInv /\ ChildInv /\ SlotsInv => SlotsBound
<1> SUFFICES ASSUME TypeOK, PhaseInv, ChildInv, SlotsInv PROVE SlotsBound
  OBVIOUS
<1> DEFINE Live == {c \in Jobs \X Spawns :
                      worker[c[1]][c[2]] \in WorkerLive /\ c[2] \notin lost[c[1]]}
           Held == IF phase = "spawned" THEN Manned \cup {cur} ELSE Manned
           job == [c \in Live |-> c[1]]
<1>1. ASSUME NEW c \in Live
      PROVE  /\ c[1] \in Held
             /\ c[2] = IF phase = "spawned" /\ cur = c[1] THEN spawns[c[1]] ELSE pid[c[1]]
  <2>1. c[1] \in Jobs /\ c[2] \in Spawns /\ c[2] # 0
    BY DEF Spawns
  <2>2. (phase = "spawned" /\ cur = c[1] /\ c[2] = spawns[c[1]]) \/ pid[c[1]] = c[2]
    BY <2>1 DEF ChildInv
  <2>3. phase = "spawned" => pid[cur] = 0
    BY DEF PhaseInv
  <2> QED BY <2>1, <2>2, <2>3 DEF Manned
<1>2. job \in Injection(Live, Held)
  <2>1. job \in [Live -> Held]
    BY <1>1
  <2>2. ASSUME NEW c \in Live, NEW d \in Live, job[c] = job[d] PROVE c = d
    <3>1. c[1] = d[1]
      BY <2>2
    <3>2. c[2] = d[2]
      BY <1>1, <3>1
    <3>3. c \in Jobs \X Spawns /\ d \in Jobs \X Spawns
      OBVIOUS
    <3> QED BY <3>1, <3>2, <3>3
  <2> QED BY <2>1, <2>2 DEF Injection, IsInjective
<1>3. Cardinality(Manned) \in Nat
  BY FS_CardinalityType DEF SlotsInv
<1>4. IsFiniteSet(Held) /\ Cardinality(Held) <= Slots /\ Cardinality(Held) \in Nat
  <2>1. CASE phase # "spawned"
    BY <1>3, <2>1 DEF SlotsInv
  <2>2. CASE phase = "spawned"
    <3>1. IsFiniteSet(Manned \cup {cur})
      BY FS_AddElement DEF SlotsInv
    <3>2. Cardinality(Manned \cup {cur}) =
            IF cur \in Manned THEN Cardinality(Manned) ELSE Cardinality(Manned) + 1
      BY FS_AddElement DEF SlotsInv
    <3>3. Cardinality(Manned \cup {cur}) \in Nat
      BY <3>1, FS_CardinalityType
    <3> QED BY <1>3, <2>2, <3>1, <3>2, <3>3 DEF SlotsInv
  <2> QED BY <2>1, <2>2
<1> HIDE DEF Held, job, Live
<1>5. IsFiniteSet(Live) /\ Cardinality(Live) <= Cardinality(Held)
  BY <1>2, <1>4, FS_Injection
<1>6. Cardinality(Live) \in Nat
  BY <1>5, FS_CardinalityType
<1>7. Cardinality(Live) <= Slots
  BY <1>4, <1>5, <1>6
<1> QED BY <1>7 DEF SlotsBound, Live

\* The concurrency limit counts processes: however daemons die, adopt and retry, no more
\* children run at once than there are slots (schedule, recover), lost ones apart.
THEOREM SlotsRespected ==
  ASSUME "enqrace" \notin Inputs
  PROVE  Spec => []SlotsBound
<1> DEFINE IInv == TypeOK /\ PhaseInv /\ StoreInv /\ EnqueueInv /\ ChildInv
<1>1. Spec => []IInv
  BY ChildInvariant
<1>2. IInv /\ SlotsInv /\ [Next]_vars => SlotsInv'
  BY SlotsStep
<1>3. IInv /\ SlotsInv => SlotsBound
  BY SlotsCount
<1>4. Init => SlotsInv
  BY InitSupervision
<1> HIDE DEF IInv
<1> QED BY <1>1, <1>2, <1>3, <1>4, PTL DEF Spec

\* A child stopped by SIGSTOP is never forgotten: a recovered daemon has it in memory as
\* a paused job, which a resume continues and a cancel kills.  For daemons that kill what
\* they find at start: an adopted worker may be stopped in any state (Engine::recover).
THEOREM FrozenNeverForgotten ==
  ASSUME "enqrace" \notin Inputs, ~LiveHandoff
  PROVE  Spec => []FrozenIsPaused
<1> DEFINE IInv == TypeOK /\ PhaseInv /\ StoreInv /\ EnqueueInv /\ ChildInv
<1>1. Spec => []IInv
  BY ChildInvariant
<1>2. IInv /\ FrozenInv /\ [Next]_vars => FrozenInv'
  BY FrozenStep
<1>3. FrozenInv => FrozenIsPaused
  BY DEF FrozenInv, FrozenIsPaused
<1>4. Init => FrozenInv
  BY InitSupervision
<1> HIDE DEF IInv
<1> QED BY <1>1, <1>2, <1>3, <1>4, PTL DEF Spec
=============================================================================

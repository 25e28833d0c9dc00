----------------------- MODULE DaemonAgreement_proofs -----------------------
(***************************************************************************)
(* A job and its run, and the queue, for every set of jobs and every value *)
(* of the bounds.  UnlinkedInv, QueuedInv and AgreementInv, on top of the  *)
(* invariants of DaemonSupervision_proofs, give TerminalAgreement.  The    *)
(* lemmas EndStep and OpenStep give EndsStand and JobsStayOver, and the    *)
(* latter with QueueInv QueueBound.                                        *)
(***************************************************************************)
EXTENDS DaemonSupervision_proofs

USE DaemonAssumption

-----------------------------------------------------------------------------
(* How a job and its run end.                                              *)

\* reconcile_interrupted moves the job and its run together: a linked job it ends has
\* the end of its run, a job it queues again has a run that was never started, and of a
\* job without a run only the job changes.
LEMMA ReconciledAgrees ==
  ASSUME NEW j \in Jobs, LedgerTypeOK
  PROVE  /\ Reconciled(j).job \in {"queued"} \cup JobTerminal
         /\ Reconciled(j).job = "queued" => Reconciled(j).run = "queued"
         /\ linked[j] /\ Reconciled(j).job \in JobTerminal => Reconciled(j).run = Reconciled(j).job
         /\ ~linked[j] => Reconciled(j).job = "failed" /\ Reconciled(j).run = runStatus[j]
BY DEF Reconciled, MapRunStatus, JobTerminal, RunTerminal

\* The three ways a child's exit is settled: the job and the run agree as above.
LEMMA ExitAgrees ==
  ASSUME TypeOK, NEW j \in Jobs, TickExited(j), linked[j]
  PROVE  /\ jobState' = [jobState EXCEPT ![j] = jobState'[j]]
         /\ runStatus' = [runStatus EXCEPT ![j] = runStatus'[j]]
         /\ jobState'[j] \in {"queued"} \cup JobTerminal
         /\ jobState'[j] = "queued" => runStatus'[j] = "queued"
         /\ jobState'[j] \in JobTerminal => runStatus'[j] = jobState'[j]
         /\ UNCHANGED <<pauseReq, cancelReq, linked>>
<1>1. CASE ExitFinishes(j)
  BY <1>1 DEF ExitFinishes, FinishActive, Transition, MapRunStatus, RunTerminal,
     JobTerminal, TypeOK, StoreTypeOK, LedgerTypeOK
<1>2. CASE ExitRetries(j)
  BY <1>2 DEF ExitRetries, FinishActive, Transition, TypeOK, StoreTypeOK, LedgerTypeOK
<1>3. CASE ExitInterrupted(j)
  BY <1>3, ReconciledAgrees DEF ExitInterrupted, ReconcileInterrupted, Transition,
     TypeOK, StoreTypeOK, LedgerTypeOK
<1> QED BY <1>1, <1>2, <1>3 DEF TickExited

\* A live child belongs to a job that is linked to its run.
LEMMA LiveIsLinked ==
  ASSUME TypeOK, UnlinkedInv, NEW j \in Jobs, NEW k \in Spawns, worker[j][k] \in WorkerLive
  PROVE  linked[j] /\ spawns[j] # 0
<1>1. k <= spawns[j]
  BY DEF UnlinkedInv, WorkerLive, TypeOK, WorkerTypeOK, Spawns
<1> QED BY <1>1 DEF UnlinkedInv, Spawns

\* Every step keeps UnlinkedInv: nothing touches a run before mark_queued or
\* recover_preparing has linked it to its job.
LEMMA UnlinkedStep ==
  TypeOK /\ PhaseInv /\ StoreInv /\ EnqueueInv /\ ChildInv /\ UnlinkedInv /\
  [Next]_vars => UnlinkedInv'
<1> SUFFICES ASSUME TypeOK, PhaseInv, StoreInv, EnqueueInv, ChildInv, UnlinkedInv,
                    [Next]_vars
             PROVE  UnlinkedInv'
  OBVIOUS
<1> DEFINE Frame == UNCHANGED <<jobState, linked, runStatus, approval, worker, spawns,
     enq, appending>>
<1>1. ASSUME Frame PROVE UnlinkedInv'
  BY <1>1 DEF UnlinkedInv
<1>2. CASE CancelEnd
  <2>1. cur \in Jobs /\ jobState[cur] \in JobActive /\ enq[cur] = "done"
    BY <1>2, SupervisedJob DEF CancelEnd, PhaseInv
  <2>2. linked[cur]
    BY <2>1 DEF UnlinkedInv, JobActive
  <2>3. \A i \in Jobs, k \in Spawns : worker[i][k] = "none" => worker'[i][k] = "none"
    BY <1>2, <2>1, KilledNone DEF CancelEnd
  <2>4. /\ UNCHANGED <<approval, spawns, enq, appending, linked>>
        /\ jobState' = [jobState EXCEPT ![cur] = "cancelled"]
        /\ \A i \in Jobs \ {cur} : runStatus'[i] = runStatus[i]
    BY <1>2, <2>1 DEF CancelEnd, FinishActive, Transition, clientVars
  <2> QED BY <2>1, <2>2, <2>3, <2>4 DEF UnlinkedInv, TypeOK, StoreTypeOK
<1>3. CASE CancelRecord
  BY <1>3 DEF CancelRecord, Transition, ledgerVars, workerVars, clientVars, UnlinkedInv
<1>4. CASE RecordSpawn
  BY <1>4 DEF RecordSpawn, Transition, ledgerVars, workerVars, clientVars, PhaseInv,
     EnqueueInv, UnlinkedInv
<1>5. CASE FailRecord
  BY <1>5 DEF FailRecord, Transition, ledgerVars, workerVars, clientVars, UnlinkedInv
<1>6. ASSUME NEW j \in Jobs, RecoverPreparing(j) PROVE UnlinkedInv'
  BY <1>6 DEF RecoverPreparing, workerVars, clientVars, TypeOK, StoreTypeOK, EnqueueInv,
     UnlinkedInv
<1>7. ASSUME NEW j \in Jobs, RecoverPreparingFails(j) PROVE UnlinkedInv'
  BY <1>7 DEF RecoverPreparingFails, Transition, ledgerVars, workerVars, clientVars,
     UnlinkedInv
<1>8. ASSUME NEW j \in Jobs, RecoverJob(j) PROVE UnlinkedInv'
  <2>1. enq[j] = "done" /\ jobState[j] \notin {"absent", "preparing"}
    BY <1>8 DEF RecoverJob, EnqueueInv, PhaseInv
  <2>2. \A i \in Jobs, k \in Spawns : worker[i][k] = "none" => worker'[i][k] = "none"
    BY <1>8, KilledNone DEF RecoverJob
  <2>3. /\ UNCHANGED <<approval, spawns, enq, appending, linked>>
        /\ jobState' = [jobState EXCEPT ![j] = Reconciled(j).job]
        /\ runStatus' = [runStatus EXCEPT ![j] = Reconciled(j).run]
    BY <1>8 DEF RecoverJob, ReconcileInterrupted, Transition, clientVars
  <2>4. /\ Reconciled(j).job \notin {"absent", "preparing"}
        /\ ~linked[j] => Reconciled(j).job = "failed" /\ Reconciled(j).run = runStatus[j]
    BY ReconciledAgrees DEF TypeOK, JobTerminal
  <2> QED BY <2>1, <2>2, <2>3, <2>4 DEF UnlinkedInv
<1>9. ASSUME NEW j \in Jobs, CancelBegin(j) PROVE UnlinkedInv'
  BY <1>9, SupervisedJob DEF CancelBegin, storeVars, workerVars, clientVars, PhaseInv,
     UnlinkedInv, JobActive
<1>10. ASSUME NEW j \in Jobs, PauseJob(j) PROVE UnlinkedInv'
  BY <1>10 DEF PauseJob, Transition, clientVars, TypeOK, StoreTypeOK, PhaseInv, ChildInv,
     UnlinkedInv
<1>11. ASSUME NEW j \in Jobs, ResumeJob(j) PROVE UnlinkedInv'
  BY <1>11 DEF ResumeJob, Transition, clientVars, TypeOK, StoreTypeOK, PhaseInv,
     ChildInv, UnlinkedInv
<1>12. ASSUME NEW j \in Jobs, TickExited(j) PROVE UnlinkedInv'
  <2>1. jobState[j] \in JobActive /\ enq[j] = "done"
    BY <1>12, SupervisedJob DEF TickExited, PhaseInv
  <2>2. linked[j]
    BY <2>1 DEF UnlinkedInv, JobActive
  <2>3. /\ UNCHANGED <<approval, worker, spawns, enq, appending, linked>>
        /\ jobState' = [jobState EXCEPT ![j] = jobState'[j]]
        /\ \A i \in Jobs \ {j} : runStatus'[i] = runStatus[i]
        /\ jobState'[j] \notin {"absent", "preparing"}
    BY <1>12, <2>2, ExitAgrees DEF TickExited, workerVars, clientVars, JobTerminal,
       TypeOK, LedgerTypeOK
  <2> QED BY <2>1, <2>2, <2>3 DEF UnlinkedInv, TypeOK, StoreTypeOK
<1>13. ASSUME NEW j \in Jobs, TickAlive(j) PROVE UnlinkedInv'
  BY <1>13 DEF TickAlive, Transition, storeVars, ledgerVars, workerVars, clientVars,
     TypeOK, StoreTypeOK, UnlinkedInv
<1>14. ASSUME NEW j \in Jobs, CancelQueued(j) PROVE UnlinkedInv'
  BY <1>14 DEF CancelQueued, storeVars, workerVars, clientVars, UnlinkedInv
<1>15. ASSUME NEW j \in Jobs, RejectOversized(j) PROVE UnlinkedInv'
  BY <1>15 DEF RejectOversized, FailRun, storeVars, workerVars, clientVars, EnqueueInv,
     UnlinkedInv
<1>16. ASSUME NEW j \in Jobs, StartJob(j) PROVE UnlinkedInv'
  <2>1. jobState[j] = "queued"
    BY <1>16 DEF StartJob, EnqueueInv
  <2>2. linked[j]
    BY <2>1 DEF UnlinkedInv
  <2>3. /\ UNCHANGED <<jobState, linked, runStatus, approval, enq, appending>>
        /\ spawns' = [spawns EXCEPT ![j] = @ + 1]
    BY <1>16 DEF StartJob, storeVars, clientVars
  <2>4. ASSUME NEW i \in Jobs, NEW k \in Spawns, k > spawns'[i] PROVE worker'[i][k] = "none"
    <3>1. k > spawns[i] /\ ~(i = j /\ k = spawns[j] + 1)
      BY <2>3, <2>4 DEF TypeOK, WorkerTypeOK, Spawns
    <3>2. worker[i][k] = "none"
      BY <3>1 DEF UnlinkedInv
    <3> QED BY <1>16, <3>1, <3>2 DEF StartJob, TypeOK, WorkerTypeOK
  <2>5. spawns'[j] # 0 /\ \A i \in Jobs \ {j} : spawns'[i] = spawns[i]
    BY <2>3 DEF TypeOK, WorkerTypeOK
  <2> QED BY <2>2, <2>3, <2>4, <2>5 DEF UnlinkedInv
<1>17. ASSUME NEW j \in Jobs, SpawnFails(j) PROVE UnlinkedInv'
  BY <1>17 DEF SpawnFails, FailRun, storeVars, Transition, workerVars, clientVars, TypeOK, StoreTypeOK,
     LedgerTypeOK, EnqueueInv, UnlinkedInv
<1>18. ASSUME NEW j \in Jobs, EnqueueInsert(j) PROVE UnlinkedInv'
  BY <1>18 DEF EnqueueInsert, ledgerVars, workerVars, UnlinkedInv
<1>19. ASSUME NEW j \in Jobs, EnqueueSubmit(j) PROVE UnlinkedInv'
  BY <1>19 DEF EnqueueSubmit, storeVars, workerVars, TypeOK, LedgerTypeOK, UnlinkedInv
<1>20. ASSUME NEW j \in Jobs, EnqueueFails(j) PROVE UnlinkedInv'
  BY <1>20 DEF EnqueueFails, Transition, workerVars, UnlinkedInv
<1>21. ASSUME NEW j \in Jobs, EnqueueAbandoned(j) PROVE UnlinkedInv'
  BY <1>21 DEF EnqueueAbandoned, storeVars, ledgerVars, workerVars, UnlinkedInv
<1>22. ASSUME NEW j \in Jobs, RequestCancel(j) PROVE UnlinkedInv'
  BY <1>22 DEF RequestCancel, ledgerVars, workerVars, TypeOK, ClientTypeOK, UnlinkedInv
<1>23. ASSUME NEW j \in Jobs, AppendCancellation(j) PROVE UnlinkedInv'
  BY <1>23 DEF AppendCancellation, storeVars, workerVars, UnlinkedInv
<1>24. ASSUME NEW j \in Jobs, DecideApproval(j) PROVE UnlinkedInv'
  BY <1>24 DEF DecideApproval, storeVars, workerVars, clientVars, UnlinkedInv
<1>25. ASSUME NEW j \in Jobs, NEW park \in BOOLEAN, EnqueueMark(j, park) PROVE
     UnlinkedInv'
  BY <1>25 DEF EnqueueMark, ledgerVars, workerVars, TypeOK, StoreTypeOK, ClientTypeOK,
     UnlinkedInv
<1>26. ASSUME NEW j \in Jobs, NEW k \in Spawns, WorkerStep(j, k) PROVE UnlinkedInv'
  <2>1. /\ UNCHANGED <<storeVars, daemonVars, spawns, clientVars>> /\ Running(j, k)
        /\ \A i \in Jobs \ {j} : runStatus'[i] = runStatus[i] /\ approval'[i] = approval[i]
        /\ \A i \in Jobs, l \in Spawns :
             worker[i][l] \notin WorkerLive => worker'[i][l] = worker[i][l]
    BY <1>26, WorkerFrame
  <2>2. linked[j] /\ spawns[j] # 0
    BY <2>1, LiveIsLinked DEF Running
  <2>3. enq[j] # "submitted"
    BY <2>2 DEF UnlinkedInv
  <2> QED BY <2>1, <2>2, <2>3 DEF UnlinkedInv, storeVars, clientVars, WorkerLive
<1>27. ASSUME Start \/ PrepareDone \/ RecoverDone \/ TickSignals \/
              CancelSignalRefused \/ ActiveDone \/ CancelQueuedDone \/ ScheduleDone \/
              Sweep \/ Project \/ Crash
       PROVE  Frame
  BY <1>27 DEF Start, PrepareDone, RecoverDone, TickSignals, CancelSignalRefused,
     ActiveDone, CancelQueuedDone, ScheduleDone, Sweep, Project, Crash, storeVars,
     ledgerVars, workerVars, clientVars
<1>28. ASSUME NEW j \in Jobs,
              RecoverPreparingRaced(j) \/ AdoptJob(j) \/ CancelRefused(j) \/
              PauseRefused(j) \/ ResumeHeld(j) \/ ResumeRefused(j) \/
              CancelQueuedRefused(j) \/ PassOver(j) \/ WorktreeInvalid(j) \/
              LeaseExpires(j)
       PROVE  Frame
  BY <1>28 DEF RecoverPreparingRaced, AdoptJob, CancelRefused, PauseRefused, ResumeHeld,
     ResumeRefused, CancelQueuedRefused, PassOver, WorktreeInvalid, LeaseExpires,
     storeVars, ledgerVars, workerVars, clientVars
<1>29. ASSUME NEW j \in Jobs, NEW value \in BOOLEAN, RequestPause(j, value) PROVE Frame
  BY <1>29 DEF RequestPause, ledgerVars, workerVars, clientVars
<1>30. ASSUME NEW j \in Jobs, NEW o \in Ordinals, NEW sig \in Signals,
              SignalRow(j, o, sig)
       PROVE  Frame
  BY <1>30 DEF SignalRow, storeVars, ledgerVars, workerVars, clientVars
<1>31. ASSUME NEW value \in BOOLEAN, SetKillSwitch(value) PROVE Frame
  BY <1>31 DEF SetKillSwitch, ledgerVars, workerVars, clientVars
<1>32. CASE UNCHANGED vars
  BY <1>1, <1>32 DEF vars, storeVars, ledgerVars, workerVars, clientVars
<1> HIDE DEF Frame
<1> QED BY <1>1, <1>2, <1>3, <1>4, <1>5, <1>6, <1>7, <1>8, <1>9, <1>10, <1>11, <1>12,
   <1>13, <1>14, <1>15, <1>16, <1>17, <1>18, <1>19, <1>20, <1>21, <1>22, <1>23, <1>24,
   <1>25, <1>26, <1>27, <1>28, <1>29, <1>30, <1>31, <1>32 DEF Next, DaemonStep,
   ClientStep

\* Every step keeps QueuedInv: whoever ends the run of a queued job has left a trace.
LEMMA QueuedStep ==
  TypeOK /\ PhaseInv /\ StoreInv /\ EnqueueInv /\ ChildInv /\ UnlinkedInv /\
  QueuedInv /\ [Next]_vars => QueuedInv'
<1> SUFFICES ASSUME TypeOK, PhaseInv, StoreInv, EnqueueInv, ChildInv, UnlinkedInv,
                    QueuedInv, [Next]_vars
             PROVE  QueuedInv'
  OBVIOUS
<1> DEFINE Frame == UNCHANGED <<jobState, cancelReq, runStatus, phase, todo, cur, lost>>
<1>1. ASSUME Frame PROVE QueuedInv'
  BY <1>1 DEF QueuedInv
<1>2. CASE Start
  BY <1>2 DEF Start, storeVars, ledgerVars, workerVars, QueuedInv
<1>3. CASE PrepareDone
  BY <1>3 DEF PrepareDone, storeVars, ledgerVars, workerVars, QueuedInv
<1>4. CASE RecoverDone
  BY <1>4 DEF RecoverDone, storeVars, ledgerVars, workerVars, QueuedInv
<1>5. CASE TickSignals
  BY <1>5 DEF TickSignals, ledgerVars, workerVars, QueuedInv
<1>6. CASE CancelEnd
  BY <1>6 DEF CancelEnd, FinishActive, Transition, TypeOK, StoreTypeOK, QueuedInv
<1>7. CASE CancelSignalRefused
  BY <1>7 DEF CancelSignalRefused, GoDown, storeVars, workerVars, QueuedInv
<1>8. CASE ActiveDone
  BY <1>8 DEF ActiveDone, storeVars, ledgerVars, workerVars, QueuedInv
<1>9. CASE CancelRecord
  BY <1>9 DEF CancelRecord, Transition, ledgerVars, workerVars, QueuedInv
<1>10. CASE CancelQueuedDone
  BY <1>10 DEF CancelQueuedDone, storeVars, ledgerVars, workerVars, QueuedInv, Ready
<1>11. CASE RecordSpawn
  BY <1>11 DEF RecordSpawn, Transition, ledgerVars, workerVars, TypeOK, StoreTypeOK,
     QueuedInv
<1>12. CASE FailRecord
  BY <1>12 DEF FailRecord, Transition, ledgerVars, workerVars, QueuedInv
<1>13. CASE ScheduleDone
  BY <1>13 DEF ScheduleDone, storeVars, ledgerVars, workerVars, QueuedInv
<1>14. CASE Sweep
  BY <1>14 DEF Sweep, storeVars, ledgerVars, workerVars, QueuedInv
<1>15. CASE Project
  BY <1>15 DEF Project, storeVars, ledgerVars, workerVars, QueuedInv
<1>16. CASE Crash
  <2>1. phase = "spawned" => cur \in Jobs /\ lost'[cur] # {}
    BY <1>16 DEF Crash, PhaseInv, TypeOK, WorkerTypeOK
  <2>2. \A j \in Jobs : lost[j] # {} => lost'[j] # {}
    BY <1>16 DEF Crash, TypeOK, WorkerTypeOK
  <2>3. phase' = "down" /\ UNCHANGED <<jobState, cancelReq, runStatus>>
    BY <1>16 DEF Crash, GoDown, storeVars
  <2> QED BY <2>1, <2>2, <2>3 DEF QueuedInv
<1>17. ASSUME NEW j \in Jobs, RecoverPreparing(j) PROVE QueuedInv'
  BY <1>17 DEF RecoverPreparing, workerVars, UnlinkedInv, QueuedInv, RunTerminal
<1>18. ASSUME NEW j \in Jobs, RecoverPreparingFails(j) PROVE QueuedInv'
  BY <1>18 DEF RecoverPreparingFails, Transition, ledgerVars, workerVars, QueuedInv
<1>19. ASSUME NEW j \in Jobs, RecoverPreparingRaced(j) PROVE QueuedInv'
  BY <1>19 DEF RecoverPreparingRaced, EnqueueInv
<1>20. ASSUME NEW j \in Jobs, RecoverJob(j) PROVE QueuedInv'
  BY <1>20, ReconciledAgrees DEF RecoverJob, ReconcileInterrupted, Transition, TypeOK,
     StoreTypeOK, LedgerTypeOK, QueuedInv, RunTerminal
<1>21. ASSUME NEW j \in Jobs, AdoptJob(j) PROVE QueuedInv'
  BY <1>21 DEF AdoptJob, storeVars, workerVars, QueuedInv
<1>22. ASSUME NEW j \in Jobs, CancelBegin(j) PROVE QueuedInv'
  BY <1>22 DEF CancelBegin, storeVars, workerVars, PhaseInv, StoreInv, QueuedInv
<1>23. ASSUME NEW j \in Jobs, CancelRefused(j) PROVE QueuedInv'
  BY <1>23 DEF CancelRefused, GoDown, storeVars, workerVars, QueuedInv
<1>24. ASSUME NEW j \in Jobs, PauseJob(j) PROVE QueuedInv'
  BY <1>24 DEF PauseJob, Transition, TypeOK, StoreTypeOK, QueuedInv
<1>25. ASSUME NEW j \in Jobs, PauseRefused(j) PROVE QueuedInv'
  BY <1>25 DEF PauseRefused, GoDown, storeVars, QueuedInv
<1>26. ASSUME NEW j \in Jobs, ResumeHeld(j) PROVE QueuedInv'
  BY <1>26 DEF ResumeHeld, storeVars, ledgerVars, workerVars, QueuedInv
<1>27. ASSUME NEW j \in Jobs, ResumeJob(j) PROVE QueuedInv'
  BY <1>27 DEF ResumeJob, Transition, TypeOK, StoreTypeOK, QueuedInv
<1>28. ASSUME NEW j \in Jobs, ResumeRefused(j) PROVE QueuedInv'
  BY <1>28 DEF ResumeRefused, GoDown, storeVars, QueuedInv
<1>29. ASSUME NEW j \in Jobs, TickExited(j) PROVE QueuedInv'
  <2>1. linked[j]
    BY <1>29, SupervisedJob DEF TickExited, PhaseInv, UnlinkedInv, JobActive
  <2>2. /\ jobState' = [jobState EXCEPT ![j] = jobState'[j]]
        /\ runStatus' = [runStatus EXCEPT ![j] = runStatus'[j]]
        /\ jobState'[j] = "queued" => runStatus'[j] = "queued"
        /\ UNCHANGED cancelReq
    BY <1>29, <2>1, ExitAgrees
  <2>3. phase = "active" /\ UNCHANGED <<phase, cur, lost>>
    BY <1>29 DEF TickExited, workerVars
  <2> QED BY <2>2, <2>3 DEF QueuedInv, RunTerminal, TypeOK, StoreTypeOK, LedgerTypeOK
<1>30. ASSUME NEW j \in Jobs, TickAlive(j) PROVE QueuedInv'
  BY <1>30 DEF TickAlive, Transition, storeVars, ledgerVars, workerVars, TypeOK,
     StoreTypeOK, QueuedInv
<1>31. ASSUME NEW j \in Jobs, CancelQueued(j) PROVE QueuedInv'
  BY <1>31 DEF CancelQueued, storeVars, workerVars, QueuedInv
<1>32. ASSUME NEW j \in Jobs, CancelQueuedRefused(j) PROVE QueuedInv'
  BY <1>32 DEF CancelQueuedRefused, GoDown, storeVars, workerVars, QueuedInv
<1>33. ASSUME NEW j \in Jobs, PassOver(j) PROVE QueuedInv'
  BY <1>33 DEF PassOver, storeVars, ledgerVars, workerVars, QueuedInv
<1>34. ASSUME NEW j \in Jobs, RejectOversized(j) PROVE QueuedInv'
  BY <1>34 DEF RejectOversized, FailRun, Ended, storeVars, workerVars, TypeOK,
     LedgerTypeOK, QueuedInv, RunTerminal
<1>35. ASSUME NEW j \in Jobs, WorktreeInvalid(j) PROVE QueuedInv'
  BY <1>35 DEF WorktreeInvalid, GoDown, storeVars, workerVars, QueuedInv
<1>36. ASSUME NEW j \in Jobs, StartJob(j) PROVE QueuedInv'
  BY <1>36 DEF StartJob, storeVars, QueuedInv
<1>37. ASSUME NEW j \in Jobs, SpawnFails(j) PROVE QueuedInv'
  BY <1>37 DEF SpawnFails, FailRun, Ended, storeVars, Transition, workerVars, TypeOK,
     StoreTypeOK, LedgerTypeOK, DaemonTypeOK, QueuedInv, RunTerminal
<1>38. ASSUME NEW j \in Jobs, EnqueueInsert(j) PROVE QueuedInv'
  BY <1>38 DEF EnqueueInsert, ledgerVars, daemonVars, workerVars, QueuedInv
<1>39. ASSUME NEW j \in Jobs, EnqueueSubmit(j) PROVE QueuedInv'
  BY <1>39 DEF EnqueueSubmit, storeVars, daemonVars, workerVars, EnqueueInv, QueuedInv
<1>40. ASSUME NEW j \in Jobs, EnqueueFails(j) PROVE QueuedInv'
  BY <1>40 DEF EnqueueFails, Transition, daemonVars, workerVars, UnlinkedInv, QueuedInv
<1>41. ASSUME NEW j \in Jobs, RequestCancel(j) PROVE QueuedInv'
  BY <1>41 DEF RequestCancel, ledgerVars, daemonVars, workerVars, QueuedInv
<1>42. ASSUME NEW j \in Jobs, AppendCancellation(j) PROVE QueuedInv'
  BY <1>42 DEF AppendCancellation, Ended, storeVars, daemonVars, workerVars, QueuedInv,
     RunTerminal
<1>43. ASSUME NEW j \in Jobs, DecideApproval(j) PROVE QueuedInv'
  BY <1>43 DEF DecideApproval, storeVars, daemonVars, workerVars, QueuedInv, RunTerminal
<1>44. ASSUME NEW j \in Jobs, NEW park \in BOOLEAN, EnqueueMark(j, park) PROVE
     QueuedInv'
  BY <1>44 DEF EnqueueMark, ledgerVars, daemonVars, workerVars, TypeOK, StoreTypeOK,
     UnlinkedInv, QueuedInv, RunTerminal
<1>45. ASSUME NEW j \in Jobs, NEW k \in Spawns, WorkerStep(j, k) PROVE QueuedInv'
  <2>1. /\ UNCHANGED <<storeVars, daemonVars, lost>> /\ Running(j, k)
        /\ \A i \in Jobs \ {j} : runStatus'[i] = runStatus[i]
    BY <1>45, WorkerFrame
  <2>2. lost[j] # {} \/ (phase = "spawned" /\ cur = j) \/ pid[j] = k
    BY <2>1 DEF ChildInv, Running
  <2>3. pid[j] = k => /\ jobState[j] # "queued"
                      /\ phase \in {"schedule", "spawned", "failrec"} => j \notin todo
    BY DEF StoreInv, PhaseInv, JobActive, Spawns
  <2> QED BY <2>1, <2>2, <2>3 DEF QueuedInv, storeVars, daemonVars, TypeOK, DaemonTypeOK
<1>46. ASSUME NEW j \in Jobs, EnqueueAbandoned(j) \/ LeaseExpires(j) PROVE Frame
  BY <1>46 DEF EnqueueAbandoned, LeaseExpires, storeVars, ledgerVars, daemonVars,
     workerVars
<1>47. ASSUME NEW j \in Jobs, NEW value \in BOOLEAN, RequestPause(j, value) PROVE Frame
  BY <1>47 DEF RequestPause, ledgerVars, daemonVars, workerVars
<1>48. ASSUME NEW j \in Jobs, NEW o \in Ordinals, NEW sig \in Signals,
              SignalRow(j, o, sig)
       PROVE  Frame
  BY <1>48 DEF SignalRow, storeVars, ledgerVars, daemonVars, workerVars
<1>49. ASSUME NEW value \in BOOLEAN, SetKillSwitch(value) PROVE Frame
  BY <1>49 DEF SetKillSwitch, ledgerVars, daemonVars, workerVars
<1>50. CASE UNCHANGED vars
  BY <1>1, <1>50 DEF vars, storeVars, ledgerVars, daemonVars, workerVars
<1> HIDE DEF Frame
<1> QED BY <1>1, <1>2, <1>3, <1>4, <1>5, <1>6, <1>7, <1>8, <1>9, <1>10, <1>11, <1>12,
   <1>13, <1>14, <1>15, <1>16, <1>17, <1>18, <1>19, <1>20, <1>21, <1>22, <1>23, <1>24,
   <1>25, <1>26, <1>27, <1>28, <1>29, <1>30, <1>31, <1>32, <1>33, <1>34, <1>35, <1>36,
   <1>37, <1>38, <1>39, <1>40, <1>41, <1>42, <1>43, <1>44, <1>45, <1>46, <1>47, <1>48,
   <1>49, <1>50 DEF Next, DaemonStep, ClientStep

\* Every step keeps AgreementInv: each handler that ends a job writes its run first, and
\* no handler, client or child moves a run that is over.
LEMMA AgreementStep ==
  TypeOK /\ PhaseInv /\ StoreInv /\ EnqueueInv /\ ChildInv /\ UnlinkedInv /\
  QueuedInv /\ AgreementInv /\ [Next]_vars => AgreementInv'
<1> SUFFICES ASSUME TypeOK, PhaseInv, StoreInv, EnqueueInv, ChildInv, UnlinkedInv,
                    QueuedInv, AgreementInv, [Next]_vars
             PROVE  AgreementInv'
  OBVIOUS
<1> DEFINE Frame == UNCHANGED <<jobState, linked, runStatus, phase, cur, spawns, lost>>
<1>1. ASSUME Frame PROVE AgreementInv'
  BY <1>1 DEF AgreementInv, UntouchedRun
<1>2. CASE Start
  BY <1>2 DEF Start, storeVars, ledgerVars, workerVars, AgreementInv, UntouchedRun
<1>3. CASE PrepareDone
  BY <1>3 DEF PrepareDone, storeVars, ledgerVars, workerVars, AgreementInv, UntouchedRun
<1>4. CASE RecoverDone
  BY <1>4 DEF RecoverDone, storeVars, ledgerVars, workerVars, AgreementInv, UntouchedRun
<1>5. CASE TickSignals
  BY <1>5 DEF TickSignals, ledgerVars, workerVars, AgreementInv, UntouchedRun
<1>6. CASE CancelEnd
  BY <1>6 DEF CancelEnd, Ended, FinishActive, Transition, TypeOK, StoreTypeOK,
     LedgerTypeOK, AgreementInv, UntouchedRun
<1>7. CASE CancelSignalRefused
  BY <1>7 DEF CancelSignalRefused, GoDown, storeVars, workerVars, AgreementInv,
     UntouchedRun
<1>8. CASE ActiveDone
  BY <1>8 DEF ActiveDone, storeVars, ledgerVars, workerVars, AgreementInv, UntouchedRun
<1>9. CASE CancelRecord
  BY <1>9 DEF CancelRecord, Transition, ledgerVars, workerVars, AgreementInv,
     UntouchedRun
<1>10. CASE CancelQueuedDone
  BY <1>10 DEF CancelQueuedDone, storeVars, ledgerVars, workerVars, AgreementInv,
     UntouchedRun
<1>11. CASE RecordSpawn
  BY <1>11 DEF RecordSpawn, Transition, ledgerVars, workerVars, AgreementInv,
     UntouchedRun, JobTerminal
<1>12. CASE FailRecord
  BY <1>12 DEF FailRecord, Transition, ledgerVars, workerVars, AgreementInv,
     UntouchedRun
<1>13. CASE ScheduleDone
  BY <1>13 DEF ScheduleDone, storeVars, ledgerVars, workerVars, AgreementInv,
     UntouchedRun
<1>14. CASE Sweep
  BY <1>14 DEF Sweep, storeVars, ledgerVars, workerVars, AgreementInv, UntouchedRun
<1>15. CASE Project
  BY <1>15 DEF Project, storeVars, ledgerVars, workerVars, AgreementInv, UntouchedRun
<1>16. CASE Crash
  BY <1>16 DEF Crash, GoDown, storeVars, AgreementInv, UntouchedRun
<1>17. ASSUME NEW j \in Jobs, RecoverPreparing(j) PROVE AgreementInv'
  BY <1>17 DEF RecoverPreparing, workerVars, TypeOK, StoreTypeOK, LedgerTypeOK,
     UnlinkedInv, AgreementInv, UntouchedRun
<1>18. ASSUME NEW j \in Jobs, RecoverPreparingFails(j) PROVE AgreementInv'
  BY <1>18 DEF RecoverPreparingFails, Transition, ledgerVars, workerVars, EnqueueInv,
     UnlinkedInv, AgreementInv, UntouchedRun
<1>19. ASSUME NEW j \in Jobs, RecoverPreparingRaced(j) PROVE AgreementInv'
  BY <1>19 DEF RecoverPreparingRaced, EnqueueInv
<1>20. ASSUME NEW j \in Jobs, RecoverJob(j) PROVE AgreementInv'
  BY <1>20, ReconciledAgrees DEF RecoverJob, ReconcileInterrupted, Transition, TypeOK,
     StoreTypeOK, LedgerTypeOK, AgreementInv, UntouchedRun
<1>21. ASSUME NEW j \in Jobs, CancelBegin(j) PROVE AgreementInv'
  BY <1>21, SupervisedJob DEF CancelBegin, storeVars, workerVars, PhaseInv,
     AgreementInv, UntouchedRun, JobActive, JobTerminal
<1>22. ASSUME NEW j \in Jobs, CancelRefused(j) PROVE AgreementInv'
  BY <1>22 DEF CancelRefused, GoDown, storeVars, workerVars, AgreementInv, UntouchedRun
<1>23. ASSUME NEW j \in Jobs, PauseJob(j) PROVE AgreementInv'
  BY <1>23 DEF PauseJob, Transition, TypeOK, StoreTypeOK, LedgerTypeOK, AgreementInv,
     UntouchedRun
<1>24. ASSUME NEW j \in Jobs, PauseRefused(j) PROVE AgreementInv'
  BY <1>24 DEF PauseRefused, GoDown, storeVars, AgreementInv, UntouchedRun
<1>25. ASSUME NEW j \in Jobs, ResumeJob(j) PROVE AgreementInv'
  BY <1>25 DEF ResumeJob, Transition, TypeOK, StoreTypeOK, LedgerTypeOK, AgreementInv,
     UntouchedRun
<1>26. ASSUME NEW j \in Jobs, ResumeRefused(j) PROVE AgreementInv'
  BY <1>26 DEF ResumeRefused, GoDown, storeVars, AgreementInv, UntouchedRun
<1>27. ASSUME NEW j \in Jobs, TickExited(j) PROVE AgreementInv'
  <2>1. linked[j]
    BY <1>27, SupervisedJob DEF TickExited, PhaseInv, UnlinkedInv, JobActive
  <2>2. /\ jobState' = [jobState EXCEPT ![j] = jobState'[j]]
        /\ runStatus' = [runStatus EXCEPT ![j] = runStatus'[j]]
        /\ jobState'[j] \in JobTerminal => runStatus'[j] = jobState'[j]
        /\ UNCHANGED linked
    BY <1>27, <2>1, ExitAgrees
  <2>3. phase = "active" /\ UNCHANGED <<phase, cur, spawns, lost>>
    BY <1>27 DEF TickExited, workerVars
  <2> QED BY <2>2, <2>3 DEF AgreementInv, UntouchedRun, TypeOK, StoreTypeOK,
         LedgerTypeOK
<1>28. ASSUME NEW j \in Jobs, TickAlive(j) PROVE AgreementInv'
  BY <1>28 DEF TickAlive, Transition, storeVars, ledgerVars, workerVars, TypeOK,
     StoreTypeOK, AgreementInv, UntouchedRun, JobTerminal
<1>29. ASSUME NEW j \in Jobs, CancelQueued(j) PROVE AgreementInv'
  BY <1>29 DEF CancelQueued, storeVars, workerVars, TypeOK, LedgerTypeOK, AgreementInv,
     UntouchedRun, RunTerminal, CanEmit, JobTerminal
<1>30. ASSUME NEW j \in Jobs, CancelQueuedRefused(j) PROVE AgreementInv'
  BY <1>30 DEF CancelQueuedRefused, GoDown, storeVars, workerVars, AgreementInv,
     UntouchedRun
<1>31. ASSUME NEW j \in Jobs, RejectOversized(j) PROVE AgreementInv'
  BY <1>31 DEF RejectOversized, FailRun, Ended, storeVars, workerVars, TypeOK,
     LedgerTypeOK, QueuedInv, EnqueueInv, AgreementInv, UntouchedRun, RunTerminal, JobTerminal
<1>32. ASSUME NEW j \in Jobs, WorktreeInvalid(j) PROVE AgreementInv'
  BY <1>32 DEF WorktreeInvalid, GoDown, storeVars, workerVars, AgreementInv,
     UntouchedRun
<1>33. ASSUME NEW j \in Jobs, StartJob(j) PROVE AgreementInv'
  BY <1>33 DEF StartJob, storeVars, EnqueueInv, AgreementInv, UntouchedRun
<1>34. ASSUME NEW j \in Jobs, SpawnFails(j) PROVE AgreementInv'
  BY <1>34 DEF SpawnFails, FailRun, Ended, storeVars, Transition, workerVars, TypeOK,
     StoreTypeOK, LedgerTypeOK, EnqueueInv, QueuedInv, AgreementInv, UntouchedRun,
     RunTerminal, JobTerminal
<1>35. ASSUME NEW j \in Jobs, EnqueueInsert(j) PROVE AgreementInv'
  BY <1>35 DEF EnqueueInsert, ledgerVars, daemonVars, workerVars, UnlinkedInv,
     AgreementInv, UntouchedRun
<1>36. ASSUME NEW j \in Jobs, EnqueueSubmit(j) PROVE AgreementInv'
  BY <1>36 DEF EnqueueSubmit, storeVars, daemonVars, workerVars, UnlinkedInv,
     AgreementInv, UntouchedRun, RunTerminal
<1>37. ASSUME NEW j \in Jobs, EnqueueFails(j) PROVE AgreementInv'
  BY <1>37 DEF EnqueueFails, Transition, daemonVars, workerVars, UnlinkedInv,
     AgreementInv, UntouchedRun
<1>38. ASSUME NEW j \in Jobs, AppendCancellation(j) PROVE AgreementInv'
  BY <1>38 DEF AppendCancellation, Ended, storeVars, daemonVars, workerVars,
     AgreementInv, UntouchedRun, RunTerminal, JobTerminal
<1>39. ASSUME NEW j \in Jobs, DecideApproval(j) PROVE AgreementInv'
  BY <1>39 DEF DecideApproval, storeVars, daemonVars, workerVars, UnlinkedInv,
     AgreementInv, UntouchedRun, RunTerminal, JobTerminal, CanEmit
<1>40. ASSUME NEW j \in Jobs, NEW park \in BOOLEAN, EnqueueMark(j, park) PROVE
     AgreementInv'
  BY <1>40 DEF EnqueueMark, ledgerVars, daemonVars, workerVars, TypeOK, StoreTypeOK,
     PhaseInv, UnlinkedInv, AgreementInv, UntouchedRun, JobTerminal
<1>41. ASSUME NEW j \in Jobs, NEW k \in Spawns, WorkerStep(j, k) PROVE AgreementInv'
  <2>1. /\ UNCHANGED <<storeVars, daemonVars, spawns, lost>> /\ Running(j, k)
        /\ \A i \in Jobs \ {j} : runStatus'[i] = runStatus[i]
        /\ runStatus[j] \in RunTerminal => runStatus'[j] = runStatus[j]
    BY <1>41, WorkerFrame
  <2>2. spawns[j] # 0
    BY <2>1, LiveIsLinked DEF Running
  <2>3. phase \in {"cancelrec", "failrec"} => cur \in Jobs
    BY DEF PhaseInv
  <2> QED BY <2>1, <2>2, <2>3 DEF AgreementInv, UntouchedRun, storeVars, daemonVars,
         JobTerminal, RunTerminal
<1>42. ASSUME NEW j \in Jobs,
              AdoptJob(j) \/ ResumeHeld(j) \/ PassOver(j) \/ EnqueueAbandoned(j) \/
              RequestCancel(j) \/ LeaseExpires(j)
       PROVE  Frame
  BY <1>42 DEF AdoptJob, ResumeHeld, PassOver, EnqueueAbandoned, RequestCancel,
     LeaseExpires, storeVars, ledgerVars, daemonVars, workerVars
<1>43. ASSUME NEW j \in Jobs, NEW value \in BOOLEAN, RequestPause(j, value) PROVE Frame
  BY <1>43 DEF RequestPause, ledgerVars, daemonVars, workerVars
<1>44. ASSUME NEW j \in Jobs, NEW o \in Ordinals, NEW sig \in Signals,
              SignalRow(j, o, sig)
       PROVE  Frame
  BY <1>44 DEF SignalRow, storeVars, ledgerVars, daemonVars, workerVars
<1>45. ASSUME NEW value \in BOOLEAN, SetKillSwitch(value) PROVE Frame
  BY <1>45 DEF SetKillSwitch, ledgerVars, daemonVars, workerVars
<1>46. CASE UNCHANGED vars
  BY <1>1, <1>46 DEF vars, storeVars, ledgerVars, daemonVars, workerVars
<1> HIDE DEF Frame
<1> QED BY <1>1, <1>2, <1>3, <1>4, <1>5, <1>6, <1>7, <1>8, <1>9, <1>10, <1>11, <1>12,
   <1>13, <1>14, <1>15, <1>16, <1>17, <1>18, <1>19, <1>20, <1>21, <1>22, <1>23, <1>24,
   <1>25, <1>26, <1>27, <1>28, <1>29, <1>30, <1>31, <1>32, <1>33, <1>34, <1>35, <1>36,
   <1>37, <1>38, <1>39, <1>40, <1>41, <1>42, <1>43, <1>44, <1>45, <1>46 DEF Next,
   DaemonStep, ClientStep

-----------------------------------------------------------------------------
(* The end of a run.                                                       *)

\* The step leaves every run that is over as it is.
EndStands == \A i \in Jobs : runStatus[i] \in RunTerminal => runStatus'[i] = runStatus[i]

\* Every step is such a step: each writer of a run asks the ledger, or is told to leave a
\* terminal event alone.
LEMMA EndStep == TypeOK /\ [Next]_vars => EndStands
<1> SUFFICES ASSUME TypeOK, [Next]_vars PROVE EndStands
  OBVIOUS
<1> DEFINE Frame == UNCHANGED <<runStatus>>
<1>1. ASSUME Frame PROVE EndStands
  BY <1>1 DEF EndStands
<1>2. CASE CancelEnd
  BY <1>2 DEF CancelEnd, Ended, FinishActive, Transition, TypeOK, LedgerTypeOK,
     EndStands
<1>3. ASSUME NEW j \in Jobs, RecoverPreparing(j) PROVE EndStands
  BY <1>3 DEF RecoverPreparing, TypeOK, LedgerTypeOK, EndStands, RunTerminal
<1>4. ASSUME NEW j \in Jobs, RecoverJob(j) PROVE EndStands
  BY <1>4 DEF RecoverJob, ReconcileInterrupted, Reconciled, Transition, TypeOK,
     LedgerTypeOK, EndStands
<1>5. ASSUME NEW j \in Jobs, CancelBegin(j) PROVE EndStands
  BY <1>5 DEF CancelBegin, TypeOK, LedgerTypeOK, EndStands, CanEmit
<1>6. ASSUME NEW j \in Jobs, PauseJob(j) PROVE EndStands
  BY <1>6 DEF PauseJob, Transition, TypeOK, LedgerTypeOK, EndStands, CanEmit
<1>7. ASSUME NEW j \in Jobs, ResumeJob(j) PROVE EndStands
  BY <1>7 DEF ResumeJob, Transition, TypeOK, LedgerTypeOK, EndStands, CanEmit
<1>8. ASSUME NEW j \in Jobs, TickExited(j) PROVE EndStands
  BY <1>8 DEF TickExited, ExitFinishes, ExitInterrupted, ExitRetries, FinishActive,
     ReconcileInterrupted, Transition, Reconciled, TypeOK, LedgerTypeOK, EndStands
<1>9. ASSUME NEW j \in Jobs, CancelQueued(j) PROVE EndStands
  BY <1>9 DEF CancelQueued, TypeOK, LedgerTypeOK, EndStands, CanEmit
<1>10. ASSUME NEW j \in Jobs, RejectOversized(j) PROVE EndStands
  BY <1>10 DEF RejectOversized, FailRun, Ended, storeVars, TypeOK, LedgerTypeOK, EndStands
<1>11. ASSUME NEW j \in Jobs, SpawnFails(j) PROVE EndStands
  BY <1>11 DEF SpawnFails, FailRun, storeVars, Ended, Transition, TypeOK, LedgerTypeOK, EndStands
<1>12. ASSUME NEW j \in Jobs, EnqueueSubmit(j) PROVE EndStands
  BY <1>12 DEF EnqueueSubmit, TypeOK, LedgerTypeOK, EndStands, RunTerminal
<1>13. ASSUME NEW j \in Jobs, EnqueueFails(j) PROVE EndStands
  BY <1>13 DEF EnqueueFails, Ended, Transition, TypeOK, LedgerTypeOK, EndStands,
     RunTerminal
<1>14. ASSUME NEW j \in Jobs, AppendCancellation(j) PROVE EndStands
  BY <1>14 DEF AppendCancellation, Ended, TypeOK, LedgerTypeOK, EndStands
<1>15. ASSUME NEW j \in Jobs, DecideApproval(j) PROVE EndStands
  BY <1>15 DEF DecideApproval, TypeOK, LedgerTypeOK, EndStands, CanEmit
<1>16. ASSUME NEW j \in Jobs, NEW k \in Spawns, WorkerSubmit(j, k) PROVE EndStands
  BY <1>16 DEF WorkerSubmit, Becomes, Ended, TypeOK, LedgerTypeOK, EndStands,
     RunTerminal
<1>17. ASSUME NEW j \in Jobs, NEW k \in Spawns, WorkerBegin(j, k) PROVE EndStands
  BY <1>17 DEF WorkerBegin, Becomes, TypeOK, LedgerTypeOK, EndStands, CanEmit
<1>18. ASSUME NEW j \in Jobs, NEW k \in Spawns, WorkerAsk(j, k) PROVE EndStands
  BY <1>18 DEF WorkerAsk, Becomes, TypeOK, LedgerTypeOK, EndStands, CanEmit
<1>19. ASSUME NEW j \in Jobs, NEW k \in Spawns,
              NEW outcome \in {"succeeded", "failed"}, WorkerFinish(j, k, outcome)
       PROVE  EndStands
  BY <1>19 DEF WorkerFinish, Becomes, TypeOK, LedgerTypeOK, EndStands, CanEmit
<1>20. ASSUME Start \/ PrepareDone \/ RecoverDone \/ TickSignals \/
              CancelSignalRefused \/ ActiveDone \/ CancelRecord \/ CancelQueuedDone \/
              RecordSpawn \/ FailRecord \/ ScheduleDone \/ Sweep \/ Project \/ Crash
       PROVE  Frame
  BY <1>20 DEF Start, PrepareDone, RecoverDone, TickSignals, CancelSignalRefused,
     ActiveDone, CancelRecord, CancelQueuedDone, RecordSpawn, FailRecord, ScheduleDone, Sweep,
     Project, Crash, GoDown, ledgerVars
<1>21. ASSUME NEW j \in Jobs,
              RecoverPreparingFails(j) \/ RecoverPreparingRaced(j) \/ AdoptJob(j) \/
              CancelRefused(j) \/ PauseRefused(j) \/ ResumeHeld(j) \/
              ResumeRefused(j) \/ TickAlive(j) \/ CancelQueuedRefused(j) \/
              PassOver(j) \/ WorktreeInvalid(j) \/ StartJob(j) \/ EnqueueInsert(j) \/
              EnqueueAbandoned(j) \/ RequestCancel(j) \/ LeaseExpires(j)
       PROVE  Frame
  BY <1>21 DEF RecoverPreparingFails, RecoverPreparingRaced, AdoptJob, CancelRefused,
     PauseRefused, ResumeHeld, ResumeRefused, TickAlive, CancelQueuedRefused, PassOver,
     WorktreeInvalid, StartJob, EnqueueInsert, EnqueueAbandoned, RequestCancel,
     LeaseExpires, GoDown, ledgerVars
<1>22. ASSUME NEW j \in Jobs, NEW park \in BOOLEAN, EnqueueMark(j, park) PROVE Frame
  BY <1>22 DEF EnqueueMark, ledgerVars
<1>23. ASSUME NEW j \in Jobs, NEW value \in BOOLEAN, RequestPause(j, value) PROVE Frame
  BY <1>23 DEF RequestPause, ledgerVars
<1>24. ASSUME NEW j \in Jobs, NEW o \in Ordinals, NEW sig \in Signals,
              SignalRow(j, o, sig)
       PROVE  Frame
  BY <1>24 DEF SignalRow, ledgerVars
<1>25. ASSUME NEW value \in BOOLEAN, SetKillSwitch(value) PROVE Frame
  BY <1>25 DEF SetKillSwitch, ledgerVars
<1>26. ASSUME NEW j \in Jobs, NEW k \in Spawns,
              WorkerAnswered(j, k) \/ WorkerPrepare(j, k) \/ WorkerConfirm(j, k) \/
              WorkerExit(j, k)
       PROVE  Frame
  BY <1>26 DEF WorkerAnswered, WorkerPrepare, WorkerConfirm, WorkerExit, ledgerVars
<1>27. CASE UNCHANGED vars
  BY <1>1, <1>27 DEF vars, ledgerVars
<1> HIDE DEF Frame
<1> QED BY <1>1, <1>2, <1>3, <1>4, <1>5, <1>6, <1>7, <1>8, <1>9, <1>10, <1>11, <1>12,
   <1>13, <1>14, <1>15, <1>16, <1>17, <1>18, <1>19, <1>20, <1>21, <1>22, <1>23, <1>24,
   <1>25, <1>26, <1>27 DEF Next, DaemonStep, ClientStep, WorkerStep

-----------------------------------------------------------------------------
(* Jobs that are over, and the queue.                                      *)

\* A step leaves a job that is over over, and only insert_preparing makes a job.
OverStays ==
    \A i \in Jobs :
        /\ jobState[i] \in JobTerminal => jobState'[i] \in JobTerminal
        /\ jobState[i] = "absent" => jobState'[i] = "absent" \/ EnqueueInsert(i)

\* Every step of the daemon, a client or a child is such a step.
LEMMA OpenStep ==
  TypeOK /\ PhaseInv /\ StoreInv /\ EnqueueInv /\ ChildInv /\ [Next]_vars => OverStays
<1> SUFFICES ASSUME TypeOK, PhaseInv, StoreInv, EnqueueInv, ChildInv, [Next]_vars
             PROVE  OverStays
  OBVIOUS
<1> DEFINE Frame == UNCHANGED <<jobState>>
<1>1. ASSUME Frame PROVE OverStays
  BY <1>1 DEF OverStays
<1>2. CASE CancelEnd
  <2>1. cur \in Jobs /\ jobState[cur] \in JobActive
    BY <1>2, SupervisedJob DEF CancelEnd, PhaseInv
  <2> QED BY <1>2, <2>1 DEF CancelEnd, FinishActive, Transition, OverStays, JobTerminal,
         JobActive
<1>3. CASE CancelRecord
  BY <1>3 DEF CancelRecord, Transition, EnqueueInv, OverStays, JobTerminal
<1>4. CASE RecordSpawn
  BY <1>4 DEF RecordSpawn, Transition, PhaseInv, EnqueueInv, OverStays, JobTerminal
<1>5. CASE FailRecord
  BY <1>5 DEF FailRecord, Transition, PhaseInv, EnqueueInv, OverStays, JobTerminal
<1>6. ASSUME NEW j \in Jobs, RecoverPreparing(j) PROVE OverStays
  BY <1>6 DEF RecoverPreparing, OverStays, JobTerminal
<1>7. ASSUME NEW j \in Jobs, RecoverPreparingFails(j) PROVE OverStays
  BY <1>7 DEF RecoverPreparingFails, Transition, EnqueueInv, OverStays, JobTerminal
<1>8. ASSUME NEW j \in Jobs, RecoverJob(j) PROVE OverStays
  <2>1. jobState[j] \in JobActive /\ jobState' = [jobState EXCEPT ![j] = jobState'[j]]
    BY <1>8 DEF RecoverJob, ReconcileInterrupted, Transition, EnqueueInv
  <2> QED BY <2>1 DEF OverStays, JobTerminal, JobActive, TypeOK, StoreTypeOK
<1>9. ASSUME NEW j \in Jobs, PauseJob(j) PROVE OverStays
  BY <1>9, SupervisedJob DEF PauseJob, Transition, PhaseInv, OverStays, JobTerminal,
     JobActive
<1>10. ASSUME NEW j \in Jobs, ResumeJob(j) PROVE OverStays
  BY <1>10, SupervisedJob DEF ResumeJob, Transition, PhaseInv, OverStays, JobTerminal,
     JobActive
<1>11. ASSUME NEW j \in Jobs, TickExited(j) PROVE OverStays
  <2>1. jobState[j] \in JobActive
    BY <1>11, SupervisedJob DEF TickExited, PhaseInv
  <2>2. jobState' = [jobState EXCEPT ![j] = jobState'[j]]
    BY <1>11 DEF TickExited, ExitFinishes, ExitRetries, ExitInterrupted, FinishActive,
       ReconcileInterrupted, Transition
  <2> QED BY <2>1, <2>2 DEF OverStays, JobTerminal, JobActive, TypeOK, StoreTypeOK
<1>12. ASSUME NEW j \in Jobs, TickAlive(j) PROVE OverStays
  BY <1>12, SupervisedJob DEF TickAlive, Transition, storeVars, TypeOK, StoreTypeOK,
     PhaseInv, OverStays, JobTerminal, JobActive
<1>13. ASSUME NEW j \in Jobs, RejectOversized(j) PROVE OverStays
  BY <1>13 DEF RejectOversized, FailRun, storeVars, EnqueueInv, OverStays, JobTerminal
<1>14. ASSUME NEW j \in Jobs, SpawnFails(j) PROVE OverStays
  BY <1>14 DEF SpawnFails, FailRun, storeVars, Transition, TypeOK, StoreTypeOK, EnqueueInv, OverStays,
     JobTerminal
<1>15. ASSUME NEW j \in Jobs, EnqueueInsert(j) PROVE OverStays
  BY <1>15 DEF EnqueueInsert, TypeOK, StoreTypeOK, OverStays, JobTerminal
<1>16. ASSUME NEW j \in Jobs, EnqueueFails(j) PROVE OverStays
  BY <1>16 DEF EnqueueFails, Transition, EnqueueInv, OverStays, JobTerminal
<1>17. ASSUME NEW j \in Jobs, NEW park \in BOOLEAN, EnqueueMark(j, park) PROVE OverStays
  BY <1>17 DEF EnqueueMark, TypeOK, StoreTypeOK, OverStays, JobTerminal
<1>18. ASSUME Start \/ PrepareDone \/ RecoverDone \/ TickSignals \/
              CancelSignalRefused \/ ActiveDone \/ CancelQueuedDone \/ ScheduleDone \/
              Sweep \/ Project \/ Crash
       PROVE  Frame
  BY <1>18 DEF Start, PrepareDone, RecoverDone, TickSignals, CancelSignalRefused,
     ActiveDone, CancelQueuedDone, ScheduleDone, Sweep, Project, Crash, storeVars
<1>19. ASSUME NEW j \in Jobs,
              RecoverPreparingRaced(j) \/ AdoptJob(j) \/ CancelBegin(j) \/
              CancelRefused(j) \/ PauseRefused(j) \/ ResumeHeld(j) \/
              ResumeRefused(j) \/ CancelQueued(j) \/ CancelQueuedRefused(j) \/
              PassOver(j) \/ WorktreeInvalid(j) \/ StartJob(j) \/ EnqueueSubmit(j) \/
              EnqueueAbandoned(j) \/ RequestCancel(j) \/ AppendCancellation(j) \/
              DecideApproval(j) \/ LeaseExpires(j)
       PROVE  Frame
  BY <1>19 DEF RecoverPreparingRaced, AdoptJob, CancelBegin, CancelRefused,
     PauseRefused, ResumeHeld, ResumeRefused, CancelQueued, CancelQueuedRefused,
     PassOver, WorktreeInvalid, StartJob, EnqueueSubmit, EnqueueAbandoned,
     RequestCancel, AppendCancellation, DecideApproval, LeaseExpires, storeVars
<1>20. ASSUME NEW j \in Jobs, NEW value \in BOOLEAN, RequestPause(j, value) PROVE Frame
  BY <1>20 DEF RequestPause
<1>21. ASSUME NEW j \in Jobs, NEW o \in Ordinals, NEW sig \in Signals,
              SignalRow(j, o, sig)
       PROVE  Frame
  BY <1>21 DEF SignalRow, storeVars
<1>22. ASSUME NEW value \in BOOLEAN, SetKillSwitch(value) PROVE Frame
  BY <1>22 DEF SetKillSwitch
<1>23. ASSUME NEW j \in Jobs, NEW k \in Spawns,
              WorkerSubmit(j, k) \/ WorkerBegin(j, k) \/ WorkerAsk(j, k) \/
              WorkerAnswered(j, k) \/ WorkerPrepare(j, k) \/ WorkerConfirm(j, k) \/
              WorkerExit(j, k)
       PROVE  Frame
  BY <1>23 DEF WorkerSubmit, WorkerBegin, WorkerAsk, WorkerAnswered, WorkerPrepare,
     WorkerConfirm, WorkerExit, storeVars
<1>24. ASSUME NEW j \in Jobs, NEW k \in Spawns,
              NEW outcome \in {"succeeded", "failed"}, WorkerFinish(j, k, outcome)
       PROVE  Frame
  BY <1>24 DEF WorkerFinish, storeVars
<1>25. CASE UNCHANGED vars
  BY <1>1, <1>25 DEF vars, storeVars
<1> HIDE DEF Frame
<1> QED BY <1>1, <1>2, <1>3, <1>4, <1>5, <1>6, <1>7, <1>8, <1>9, <1>10, <1>11, <1>12,
   <1>13, <1>14, <1>15, <1>16, <1>17, <1>18, <1>19, <1>20, <1>21, <1>22, <1>23, <1>24,
   <1>25 DEF Next, DaemonStep, ClientStep, WorkerStep

\* A step that makes no job leaves the queue within its limit.
LEMMA OpenShrinks ==
  ASSUME QueueInv, OpenJobs' \subseteq OpenJobs
  PROVE  QueueInv'
<1>1. IsFiniteSet(OpenJobs') /\ Cardinality(OpenJobs') <= Cardinality(OpenJobs)
  BY FS_Subset DEF QueueInv
<1>2. Cardinality(OpenJobs') \in Nat /\ Cardinality(OpenJobs) \in Nat
  BY <1>1, FS_CardinalityType DEF QueueInv
<1> QED BY <1>1, <1>2 DEF QueueInv

\* Every step keeps QueueInv: insert_preparing counts the jobs that are not over, and by
\* OpenStep nothing else adds to them.
LEMMA QueueStep ==
  TypeOK /\ PhaseInv /\ StoreInv /\ EnqueueInv /\ ChildInv /\ QueueInv /\ [Next]_vars => QueueInv'
<1> SUFFICES ASSUME TypeOK, PhaseInv, StoreInv, EnqueueInv, ChildInv, QueueInv, [Next]_vars
             PROVE  QueueInv'
  OBVIOUS
<1>1. OverStays
  BY OpenStep
<1>2. ASSUME NEW j \in Jobs, EnqueueInsert(j) PROVE QueueInv'
  <2>1. OpenJobs' \subseteq OpenJobs \cup {j}
    BY <1>2 DEF EnqueueInsert, OpenJobs, Nonterminal
  <2>2. Cardinality(OpenJobs) \in Nat /\ Cardinality(OpenJobs) < MaxQueue
    BY <1>2, FS_CardinalityType DEF EnqueueInsert, OpenJobs, QueueInv
  <2>3. IsFiniteSet(OpenJobs \cup {j}) /\ Cardinality(OpenJobs \cup {j}) <= Cardinality(OpenJobs) + 1
    BY <2>2, FS_AddElement DEF QueueInv
  <2>4. IsFiniteSet(OpenJobs') /\ Cardinality(OpenJobs') <= Cardinality(OpenJobs \cup {j})
    BY <2>1, <2>3, FS_Subset
  <2>5. Cardinality(OpenJobs') \in Nat /\ Cardinality(OpenJobs \cup {j}) \in Nat
    BY <2>3, <2>4, FS_CardinalityType
  <2> QED BY <2>2, <2>3, <2>4, <2>5 DEF QueueInv
<1>3. ASSUME \A j \in Jobs : ~EnqueueInsert(j) PROVE QueueInv'
  <2>1. OpenJobs' \subseteq OpenJobs
    BY <1>1, <1>3 DEF OverStays, OpenJobs, Nonterminal
  <2> QED BY <2>1, OpenShrinks
<1> QED BY <1>2, <1>3

-----------------------------------------------------------------------------
(* The theorems.                                                           *)

\* A daemon that has done nothing satisfies the invariants of this module.
LEMMA InitAgreement == Init => UnlinkedInv /\ QueuedInv /\ AgreementInv /\ QueueInv
<1> SUFFICES ASSUME Init PROVE UnlinkedInv /\ QueuedInv /\ AgreementInv /\ QueueInv
  OBVIOUS
<1>1. UnlinkedInv
  BY DEF Init, UnlinkedInv
<1>2. QueuedInv
  BY DEF Init, QueuedInv
<1>3. AgreementInv
  BY DEF Init, AgreementInv, JobTerminal
<1>4. QueueInv
  <2>1. OpenJobs = {}
    BY DEF Init, OpenJobs, Nonterminal
  <2>2. Cardinality(OpenJobs) = 0 /\ IsFiniteSet(OpenJobs)
    BY <2>1, FS_EmptySet
  <2> QED BY <2>2 DEF QueueInv
<1> QED BY <1>1, <1>2, <1>3, <1>4

\* A job and its run, kept in two databases, end alike however daemon, children and
\* clients are interleaved and die (the exceptions are the ones TerminalAgreement names:
\* a child that finished in its grace period, a lost child, a job never linked in time).
THEOREM JobsAndRunsAgree ==
  ASSUME "enqrace" \notin Inputs
  PROVE  Spec => []TerminalAgreement
<1> DEFINE IInv == TypeOK /\ PhaseInv /\ StoreInv /\ EnqueueInv /\ ChildInv
           Run == UnlinkedInv /\ QueuedInv /\ AgreementInv
<1>1. Spec => []IInv
  BY ChildInvariant
<1>2. IInv /\ Run /\ [Next]_vars => Run'
  BY UnlinkedStep, QueuedStep, AgreementStep
<1>3. IInv /\ Run => TerminalAgreement
  <2> SUFFICES ASSUME TypeOK, StoreInv, AgreementInv PROVE TerminalAgreement
    OBVIOUS
  <2>1. \A j \in Jobs : UntouchedRun(j) => attempt[j] = 0
    BY DEF UntouchedRun, StoreInv, TypeOK, StoreTypeOK, Ordinals
  <2> QED BY <2>1 DEF AgreementInv, TerminalAgreement, UntouchedRun
<1>4. Init => Run
  BY InitAgreement
<1> HIDE DEF IInv, Run
<1> QED BY <1>1, <1>2, <1>3, <1>4, PTL DEF Spec

\* Of the child, the daemon and the clients that append to a run, the first to write a
\* terminal event decides its end (append_event, cancel_run, fail_run); unconditionally.
THEOREM FirstEndStands == Spec => EndsStand
<1> DEFINE Stay == \A j \in Jobs : runStatus[j] \in RunTerminal => runStatus'[j] = runStatus[j]
<1>1. TypeOK /\ [Next]_vars => [Stay]_vars
  BY EndStep DEF EndStands
<1>2. Spec => [][Stay]_vars
  BY <1>1, TypeCorrect, PTL DEF Spec
<1> QED BY <1>2, PTL DEF EndsStand

\* A job that is over stays over, although DaemonStore::transition does not ask which
\* state it leaves: no step of the daemon, a client or a child brings one back.
THEOREM OverForGood ==
  ASSUME "enqrace" \notin Inputs
  PROVE  Spec => JobsStayOver
<1> DEFINE IInv == TypeOK /\ PhaseInv /\ StoreInv /\ EnqueueInv /\ ChildInv
           Stay == \A j \in Jobs : jobState[j] \in JobTerminal => jobState'[j] \in JobTerminal
<1>1. Spec => []IInv
  BY ChildInvariant
<1>2. IInv /\ [Next]_vars => [Stay]_vars
  BY OpenStep DEF OverStays
<1> HIDE DEF IInv
<1>3. Spec => [][Stay]_vars
  BY <1>1, <1>2, PTL DEF Spec
<1> QED BY <1>3 DEF JobsStayOver

\* insert_preparing's limit holds at every moment: recovery, retries and resumes never
\* put more jobs in play than were let in.
THEOREM QueueRespected ==
  ASSUME "enqrace" \notin Inputs
  PROVE  Spec => []QueueBound
<1> DEFINE IInv == TypeOK /\ PhaseInv /\ StoreInv /\ EnqueueInv /\ ChildInv
<1>1. Spec => []IInv
  BY ChildInvariant
<1>2. IInv /\ QueueInv /\ [Next]_vars => QueueInv'
  BY QueueStep
<1>3. QueueInv => QueueBound
  BY DEF QueueInv, OpenJobs, QueueBound
<1>4. Init => QueueInv
  BY InitAgreement
<1> HIDE DEF IInv
<1> QED BY <1>1, <1>2, <1>3, <1>4, PTL DEF Spec
=============================================================================

------------------------ MODULE SwarmRecovery_proofs ------------------------
(***************************************************************************)
(* Proofs about SwarmRecovery, for any roster, graph, plans and bounds.     *)
(***************************************************************************)
EXTENDS SwarmRecovery, FiniteSetTheorems, TLAPS

-----------------------------------------------------------------------------
(* Majorities *)

LEMMA MajorityGrows ==
    ASSUME NEW P \in Majorities, NEW Q \in SUBSET Members, P \subseteq Q
    PROVE  Q \in Majorities
<1>1. IsFiniteSet(Members) BY RecoveryAssumption
<1>2. IsFiniteSet(Q) /\ IsFiniteSet(P) BY <1>1, FS_Subset DEF Majorities
<1>3. Cardinality(P) <= Cardinality(Q) BY <1>2, FS_Subset
<1>4. Cardinality(P) \in Nat /\ Cardinality(Q) \in Nat /\ Cardinality(Members) \in Nat
      BY <1>1, <1>2, FS_CardinalityType
<1>5. 2 * Cardinality(P) > Cardinality(Members) BY DEF Majorities
<1>6. 2 * Cardinality(Q) > Cardinality(Members) BY <1>3, <1>4, <1>5
<1> QED BY <1>6 DEF Majorities

LEMMA MajoritiesMeet ==
    ASSUME NEW P \in Majorities, NEW Q \in Majorities
    PROVE  \E y \in P : y \in Q
<1>1. IsFiniteSet(Members) BY RecoveryAssumption
<1>2. IsFiniteSet(Q) /\ IsFiniteSet(P) BY <1>1, FS_Subset DEF Majorities
<1>3. /\ IsFiniteSet(P \cup Q) /\ IsFiniteSet(P \cap Q)
      /\ Cardinality(P \cup Q) = Cardinality(P) + Cardinality(Q) - Cardinality(P \cap Q)
      BY <1>2, FS_Union, FS_Intersection
<1>4. Cardinality(P \cup Q) <= Cardinality(Members)
      BY <1>1, FS_Subset DEF Majorities
<1>5. /\ Cardinality(P) \in Nat /\ Cardinality(Q) \in Nat /\ Cardinality(Members) \in Nat
      /\ Cardinality(P \cap Q) \in Nat /\ Cardinality(P \cup Q) \in Nat
      BY <1>1, <1>2, <1>3, FS_CardinalityType
<1>6. 2 * Cardinality(P) > Cardinality(Members) /\ 2 * Cardinality(Q) > Cardinality(Members)
      BY DEF Majorities
<1>7. Cardinality(P \cap Q) # 0 BY <1>3, <1>4, <1>5, <1>6
<1>8. P \cap Q # {} BY <1>7, FS_EmptySet
<1> QED BY <1>8
-----------------------------------------------------------------------------
(* Types *)

LEMMA LocalVectorType == TypeOK => LocalVector \in Vector
BY DEF TypeOK, LocalVector, Vector

\* No checkpoint is the absence of one.
LEMMA SnapshotHeld == NoSnap \notin Snapshot
BY RecoveryAssumption DEF Snapshot

\* What a member's failover worker can be at.
Work == [plan : Plans, step : {"eligible", "claimed", "submit", "mark"}]

LEMMA StageBound == \A n \in Nodes : MaxStage(n) \in 0 .. MaxReassign + 1
BY RecoveryAssumption DEF MaxStage

LEMMA NextRowType ==
    ASSUME TypeOK, NEW n \in Nodes, node[n].state = "submitted"
    PROVE  NextRow(n) \in NodeRow
<1>1. node[n] \in NodeRow BY DEF TypeOK
<1>2. node[n].stage \in 0 .. MaxReassign + 1 BY <1>1 DEF NodeRow
<1>3. node[n].stage < MaxStage(n) => node[n].stage + 1 \in 0 .. MaxReassign + 1
      BY <1>2, StageBound, RecoveryAssumption
<1>4. [node[n] EXCEPT !.state = "succeeded"] \in NodeRow BY <1>1 DEF NodeRow, NodeStates
<1>5. [node[n] EXCEPT !.state = "failed"] \in NodeRow BY <1>1 DEF NodeRow, NodeStates
<1>6. node[n].stage < MaxStage(n) =>
        /\ [state |-> "pending_fallback", stage |-> node[n].stage + 1] \in NodeRow
        /\ [state |-> "preparing", stage |-> node[n].stage + 1] \in NodeRow
      BY <1>3 DEF NodeRow, NodeStates
<1> QED BY <1>4, <1>5, <1>6 DEF NextRow

\* A row whose state changes, not to pending, is a row.
LEMMA RowState ==
    ASSUME NEW r \in NodeRow, NEW st \in NodeStates \ {"pending"}
    PROVE  [r EXCEPT !.state = st] \in NodeRow
BY DEF NodeRow

LEMMA TypeStep == ASSUME TypeOK, Next PROVE TypeOK'
<1> USE RecoveryAssumption
<1>1. CASE Lapse \/ \E m \in Members, t \in 1 .. MaxTerm : Elect(m, t)
  <2>1. /\ holders' \subseteq Members \X (1 .. MaxTerm) /\ last' \in 0 .. MaxTerm
        /\ row' \in [Members -> 0 .. MaxTerm]
    <3>1. CASE Lapse BY <3>1 DEF TypeOK, Lapse, Lease!Lapse
    <3>2. CASE \E m \in Members, t \in 1 .. MaxTerm : Elect(m, t)
      <4>1. PICK m \in Members, t \in 1 .. MaxTerm : Elect(m, t) BY <3>2
      <4>2. holders' = {<<m, t>>} /\ last' = t /\ row' = [row EXCEPT ![m] = t]
            BY <4>1 DEF Elect, Lease!Grant
      <4>3. 1 .. MaxTerm \subseteq 0 .. MaxTerm OBVIOUS
      <4> QED BY <4>2, <4>3 DEF TypeOK
    <3> QED BY <1>1, <3>1, <3>2
  <2>2. UNCHANGED <<graphVars, pubVars, readVars, planVars, kill>>
        BY <1>1 DEF Lapse, Elect
  <2> QED BY <2>1, <2>2 DEF TypeOK, graphVars, pubVars, readVars, planVars
<1>2. CASE Submit \/ RequestCancel
  <2>1. graph' \in [state : GraphStates, term : 0 .. MaxTerm]
    <3>1. CASE Submit
      <4>1. PICK t \in 1 .. MaxTerm : graph' = [state |-> "running", term |-> t] BY <3>1 DEF Submit
      <4> QED BY <4>1 DEF GraphStates
    <3>2. CASE RequestCancel BY <3>2 DEF RequestCancel, TypeOK, GraphStates
    <3> QED BY <1>2, <3>1, <3>2
  <2>2. UNCHANGED <<leaseVars, node, jobs, tick, pubVars, readVars, planVars, kill>>
        BY <1>2 DEF Submit, RequestCancel
  <2> QED BY <2>1, <2>2 DEF TypeOK, leaseVars, pubVars, readVars, planVars
<1>3. CASE \E m \in Members : KillSwitch(m)
  BY <1>3 DEF TypeOK, KillSwitch, leaseVars, graphVars, pubVars, readVars, planVars
<1>4. CASE \E m \in Members : Crash(m)
  <2>1. PICK m \in Members : Crash(m) BY <1>4
  <2>2. CASE m = Source
    <3>1. pub' \in [Publishers ->
            [step : {"read", "posted", "verified"}, to : Peers, vec : Vector, seq : 0 .. MaxSeq] \cup {NoPub}]
          BY <2>1, <2>2 DEF TypeOK, Crash
    <3> QED BY <2>1, <2>2, <3>1 DEF TypeOK, Crash, leaseVars
  <2>3. CASE m # Source
    BY <2>1, <2>3 DEF TypeOK, Crash, leaseVars, Peers
  <2> QED BY <2>2, <2>3
<1>5. CASE \E j \in Jobs, s \in {"succeeded", "failed", "cancelled"} : JobEnds(j, s)
  BY <1>5 DEF TypeOK, JobEnds, leaseVars, pubVars, readVars, planVars
<1>6. CASE \E n \in Nodes : TickNote(n)
  <2>1. PICK n \in Nodes : TickNote(n) BY <1>6
  <2>2. NextRow(n) \in NodeRow BY <2>1, NextRowType DEF TickNote, JobOver
  <2>3. node' \in [Nodes -> NodeRow] BY <2>1, <2>2 DEF TickNote, TypeOK
  <2> QED BY <2>1, <2>3 DEF TypeOK, TickNote, leaseVars, pubVars, readVars, planVars
<1>7. CASE \E n \in Nodes : TickPrepare(n) \/ TickReattach(n)
  <2>1. PICK n \in Nodes : TickPrepare(n) \/ TickReattach(n) BY <1>7
  <2>2. \E st \in {"submitted", "preparing"} : node' = [node EXCEPT ![n] = [node[n] EXCEPT !.state = st]]
        BY <2>1 DEF TickPrepare, TickReattach, TypeOK
  <2>3. node' \in [Nodes -> NodeRow]
    <3>1. PICK st \in {"submitted", "preparing"} : node' = [node EXCEPT ![n] = [node[n] EXCEPT !.state = st]]
          BY <2>2
    <3>2. node[n] \in NodeRow /\ node \in [Nodes -> NodeRow] /\ st \in NodeStates \ {"pending"}
          BY DEF TypeOK, NodeStates
    <3>3. [node[n] EXCEPT !.state = st] \in NodeRow BY <3>2, RowState
    <3> QED BY <3>1, <3>2, <3>3
  <2> QED BY <2>1, <2>3 DEF TypeOK, TickPrepare, TickReattach, leaseVars, pubVars, readVars, planVars
<1>8. CASE \E n \in Nodes : TickCheck(n)
  BY <1>8 DEF TypeOK, TickCheck, leaseVars, pubVars, readVars, planVars
<1>9. CASE \E C \in SUBSET Nodes : TickStop(C)
  <2>1. PICK C \in SUBSET Nodes : TickStop(C) BY <1>9
  <2>2. node' \in [Nodes -> NodeRow] BY <2>1, RowState DEF TypeOK, TickStop, NodeStates
  <2>3. graph' \in [state : GraphStates, term : 0 .. MaxTerm] BY <2>1 DEF TypeOK, TickStop, GraphStates
  <2>4. jobs' \in [Jobs -> {"none", "live", "succeeded", "failed", "cancelled"}]
        BY <2>1 DEF TypeOK, TickStop
  <2> QED BY <2>1, <2>2, <2>3, <2>4 DEF TypeOK, TickStop, leaseVars, pubVars, readVars, planVars
<1>10. CASE TickSucceed
  BY <1>10 DEF TypeOK, TickSucceed, GraphStates, leaseVars, pubVars, readVars, planVars
<1>11. CASE Enqueue
  <2>1. tick' \in [node : Nodes, step : {"checked", "enqueued"}]
    <3>1. tick \in [node : Nodes, step : {"checked", "enqueued"}] BY <1>11 DEF TypeOK, Enqueue, Idle
    <3>2. tick' = [tick EXCEPT !.step = "enqueued"] BY <1>11 DEF Enqueue
    <3> QED BY <3>1, <3>2
  <2>2. jobs' \in [Jobs -> {"none", "live", "succeeded", "failed", "cancelled"}]
        BY <1>11 DEF TypeOK, Enqueue
  <2> QED BY <1>11, <2>1, <2>2 DEF TypeOK, Enqueue, leaseVars, pubVars, readVars, planVars
<1>12. CASE TickSubmitted
  <2>1. tick.node \in Nodes BY <1>12 DEF TypeOK, TickSubmitted, Idle
  <2>2. node' = [node EXCEPT ![tick.node] = [node[tick.node] EXCEPT !.state = "submitted"]]
        BY <1>12 DEF TickSubmitted
  <2>3. node' \in [Nodes -> NodeRow] BY <2>1, <2>2, RowState DEF TypeOK, NodeStates
  <2> QED BY <1>12, <2>3 DEF TypeOK, TickSubmitted, leaseVars, pubVars, readVars, planVars
<1>13. CASE \E forGood \in BOOLEAN : EnqueueRefused(forGood)
  <2>1. PICK forGood \in BOOLEAN : EnqueueRefused(forGood) BY <1>13
  <2>2. tick.node \in Nodes BY <2>1 DEF TypeOK, EnqueueRefused, Idle
  <2>3. node' = node \/ node' = [node EXCEPT ![tick.node] = [node[tick.node] EXCEPT !.state = "failed"]]
        BY <2>1 DEF EnqueueRefused
  <2>4. node' \in [Nodes -> NodeRow]
    <3>1. node[tick.node] \in NodeRow /\ node \in [Nodes -> NodeRow] /\ "failed" \in NodeStates \ {"pending"}
          BY <2>2 DEF TypeOK, NodeStates
    <3>2. [node[tick.node] EXCEPT !.state = "failed"] \in NodeRow BY <3>1, RowState
    <3> QED BY <2>3, <3>1, <3>2
  <2>5. graph' = graph \/ graph' = [graph EXCEPT !.state = "failing"] BY <2>1 DEF EnqueueRefused
  <2>6. graph' \in [state : GraphStates, term : 0 .. MaxTerm] BY <2>5 DEF TypeOK, GraphStates
  <2>7. tick' = Idle /\ UNCHANGED <<leaseVars, jobs, pubVars, readVars, planVars, kill>>
        BY <2>1 DEF EnqueueRefused
  <2> QED BY <2>4, <2>6, <2>7 DEF TypeOK, leaseVars, pubVars, readVars, planVars
<1>14. CASE \E p \in Publishers, x \in Peers : CaptureRead(p, x)
  <2>1. PICK p \in Publishers, x \in Peers : CaptureRead(p, x) BY <1>14
  <2>2. LocalVector \in Vector BY LocalVectorType
  <2>3. [step |-> "read", to |-> x, vec |-> LocalVector, seq |-> 0] \in
          [step : {"read", "posted", "verified"}, to : Peers, vec : Vector, seq : 0 .. MaxSeq]
        BY <2>2
  <2> QED BY <2>1, <2>3 DEF TypeOK, CaptureRead, leaseVars, graphVars, readVars, planVars
<1>15. CASE \E p \in Publishers : CapturePost(p)
  <2>1. PICK p \in Publishers : CapturePost(p) BY <1>15
  <2>2. /\ pub[p] \in [step : {"read", "posted", "verified"}, to : Peers, vec : Vector, seq : 0 .. MaxSeq]
        /\ seq + 1 \in 1 .. MaxSeq
        BY <2>1 DEF TypeOK, CapturePost, NoPub
  <2>3. [to |-> pub[p].to, snap |-> [seq |-> seq + 1, vec |-> pub[p].vec]] \in [to : Peers, snap : Snapshot]
        BY <2>2 DEF Snapshot
  <2>4. posts' \subseteq [to : Peers, snap : Snapshot] BY <2>1, <2>3 DEF CapturePost, TypeOK
  <2>5. pub' = [pub EXCEPT ![p] = [pub[p] EXCEPT !.step = "posted", !.seq = seq + 1]]
        BY <2>1, <2>2 DEF CapturePost, TypeOK
  <2> DEFINE R == [step : {"read", "posted", "verified"}, to : Peers, vec : Vector, seq : 0 .. MaxSeq]
             k == seq + 1
  <2>6. [pub[p] EXCEPT !.step = "posted", !.seq = k] \in R
    <3>1. k \in 0 .. MaxSeq BY <2>2
    <3> HIDE DEF k
    <3> QED BY <2>2, <3>1
  <2>7. pub \in [Publishers -> R \cup {NoPub}] BY DEF TypeOK
  <2>8. pub' \in [Publishers -> R \cup {NoPub}]
    <3> HIDE DEF R
    <3> QED BY <2>5, <2>6, <2>7
  <2>9. seq' \in 0 .. MaxSeq BY <2>1, <2>2 DEF CapturePost
  <2> QED BY <2>1, <2>4, <2>8, <2>9 DEF TypeOK, CapturePost, leaseVars, graphVars, readVars, planVars
<1>16. CASE \E p \in Publishers : Readback(p) \/ PublishEnd(p)
  <2>1. PICK p \in Publishers : Readback(p) \/ PublishEnd(p) BY <1>16
  <2>2. pub' \in [Publishers ->
          [step : {"read", "posted", "verified"}, to : Peers, vec : Vector, seq : 0 .. MaxSeq] \cup {NoPub}]
    <3> DEFINE R == [step : {"read", "posted", "verified"}, to : Peers, vec : Vector, seq : 0 .. MaxSeq]
    <3>1. pub \in [Publishers -> R \cup {NoPub}] BY DEF TypeOK
    <3>2. CASE Readback(p)
      <4>1. pub[p] \in R BY <3>1, <3>2 DEF Readback, NoPub
      <4>2. [pub[p] EXCEPT !.step = "verified"] \in R BY <4>1
      <4>3. pub' = [pub EXCEPT ![p] = [pub[p] EXCEPT !.step = "verified"]] BY <3>2 DEF Readback
      <4>4. pub' \in [Publishers -> R \cup {NoPub}]
        <5> HIDE DEF R
        <5> QED BY <3>1, <4>2, <4>3
      <4> QED BY <4>4
    <3>3. CASE PublishEnd(p)
      <4>1. pub' \in [Publishers -> R \cup {NoPub}]
        <5> HIDE DEF R
        <5> QED BY <3>1, <3>3 DEF PublishEnd
      <4> QED BY <4>1
    <3> QED BY <2>1, <3>2, <3>3
  <2> QED BY <2>1, <2>2 DEF TypeOK, Readback, PublishEnd, leaseVars, graphVars, readVars, planVars
<1>17. CASE \E c \in posts : Ingest(c)
  BY <1>17 DEF TypeOK, Ingest, leaseVars, graphVars, readVars, planVars
<1>18. CASE Attest
  <2>1. pub["worker"] \in [step : {"read", "posted", "verified"}, to : Peers, vec : Vector, seq : 0 .. MaxSeq]
        BY <1>18 DEF TypeOK, Attest, NoPub, Publishers
  <2> QED BY <1>18, <2>1 DEF TypeOK, Attest, leaseVars, graphVars, readVars, planVars, Publishers
<1>19. CASE \E a \in acks : AckAges(a)
  BY <1>19 DEF TypeOK, AckAges, leaseVars, graphVars, readVars, planVars
<1>20. CASE \E m \in Peers, p \in Plans : Arm(m, p)
  BY <1>20 DEF TypeOK, Arm, leaseVars, graphVars, pubVars, readVars
<1>21. CASE \E m \in Peers, p \in Plans : ClaimCheck(m, p)
  BY <1>21 DEF TypeOK, ClaimCheck, leaseVars, graphVars, pubVars, readVars
<1>30. CASE \E m \in Peers : Claim(m)
  <2>1. PICK m \in Peers : Claim(m) BY <1>30
  <2>2. consume[m] \in Work BY <2>1 DEF TypeOK, Claim, NoWork, Work
  <2>3. consume[m].plan \in Plans /\ [consume[m] EXCEPT !.step = "claimed"] \in Work BY <2>2 DEF Work
  <2>4. consume \in [Peers -> Work \cup {NoWork}] BY DEF TypeOK, Work
  <2>5. consume' = [consume EXCEPT ![m] = [consume[m] EXCEPT !.step = "claimed"]]
        \/ consume' = [consume EXCEPT ![m] = NoWork]
        BY <2>1 DEF Claim
  <2>6. consume' \in [Peers -> Work \cup {NoWork}] BY <2>3, <2>4, <2>5
  <2>7. /\ plan' \in [Peers -> [Plans -> {"none", "armed", "claimed", "imported", "failed"}]]
        /\ claim' \in [Peers -> Plans \cup {NoPlan}]
    <3>1. /\ plan \in [Peers -> [Plans -> {"none", "armed", "claimed", "imported", "failed"}]]
          /\ claim \in [Peers -> Plans \cup {NoPlan}] BY DEF TypeOK
    <3>2. CASE claim[m] = NoPlan
      <4>1. /\ plan' = [plan EXCEPT ![m][consume[m].plan] = "claimed"]
            /\ claim' = [claim EXCEPT ![m] = consume[m].plan]
            BY <2>1, <3>2 DEF Claim
      <4> QED BY <2>3, <3>1, <4>1
    <3>3. CASE claim[m] # NoPlan BY <2>1, <3>1, <3>3 DEF Claim
    <3> QED BY <3>2, <3>3
  <2> QED BY <2>1, <2>6, <2>7 DEF TypeOK, Claim, leaseVars, graphVars, pubVars, readVars, Work
<1>22. CASE \E m \in Peers, p \in Plans : Resume(m, p)
  BY <1>22 DEF TypeOK, Resume, leaseVars, graphVars, pubVars, readVars
<1>23. CASE \E m \in Peers : RefreshStart(m)
  BY <1>23 DEF TypeOK, RefreshStart, leaseVars, graphVars, pubVars, planVars
<1>24. CASE \E m \in Peers, x \in Peers : PeerAnswers(m, x)
  BY <1>24 DEF TypeOK, PeerAnswers, leaseVars, graphVars, pubVars, planVars
<1>25. CASE \E m \in Peers, x \in Peers : WitnessAges(m, x)
  BY <1>25 DEF TypeOK, WitnessAges, Unseen, leaseVars, graphVars, pubVars, planVars
<1>26. CASE \E a \in answers : Record(a)
  <2>1. PICK a \in answers : Record(a) BY <1>26
  <2> DEFINE S == Snapshot \cup {NoSnap}
             W == [term : 0 .. MaxTerm, snap : S]
  <2>2. a.by \in Peers /\ a.peer \in Peers /\ a.snap \in S BY DEF TypeOK
  <2>3. row[a.by] \in 0 .. MaxTerm BY <2>2 DEF TypeOK, Peers
  <2>4. [term |-> row[a.by], snap |-> a.snap] \in W BY <2>2, <2>3
  <2>5. witness \in [Peers -> [Peers -> W]] BY DEF TypeOK
  <2>6. witness' \in [Peers -> [Peers -> W]]
    <3> HIDE DEF W
    <3> QED BY <2>1, <2>2, <2>4, <2>5 DEF Record
  <2> QED BY <2>1, <2>6 DEF TypeOK, Record, leaseVars, graphVars, pubVars, planVars
<1>27. CASE \E m \in Peers, led \in BOOLEAN : ImportCheck(m, led)
  <2>1. PICK m \in Peers, led \in BOOLEAN : ImportCheck(m, led) BY <1>27
  <2>2. consume[m] \in Work BY <2>1 DEF TypeOK, ImportCheck, NoWork, Work
  <2>3. /\ [consume[m] EXCEPT !.step = "mark"] \in Work
        /\ [consume[m] EXCEPT !.step = "submit"] \in Work
        BY <2>2 DEF Work
  <2>4. consume \in [Peers -> Work \cup {NoWork}] BY DEF TypeOK, Work
  <2>5. \/ consume' = [consume EXCEPT ![m] = NoWork]
        \/ consume' = [consume EXCEPT ![m] = [consume[m] EXCEPT !.step = "mark"]]
        \/ consume' = [consume EXCEPT ![m] = [consume[m] EXCEPT !.step = "submit"]]
        BY <2>1 DEF ImportCheck
  <2>6. consume' \in [Peers -> Work \cup {NoWork}] BY <2>3, <2>4, <2>5
  <2> QED BY <2>1, <2>6 DEF TypeOK, ImportCheck, leaseVars, graphVars, pubVars, readVars, Work
<1>31. CASE \E m \in Peers : ImportRefused(m)
  <2>1. PICK m \in Peers : ImportRefused(m) BY <1>31
  <2>2. consume[m].plan \in Plans BY <2>1 DEF TypeOK, ImportRefused, NoWork
  <2>3. plan' \in [Peers -> [Plans -> {"none", "armed", "claimed", "imported", "failed"}]]
        BY <2>1, <2>2 DEF ImportRefused, TypeOK
  <2> QED BY <2>1, <2>3 DEF TypeOK, ImportRefused, leaseVars, graphVars, pubVars, readVars
<1>28. CASE \E m \in Peers : ImportSubmit(m)
  <2>1. PICK m \in Peers : ImportSubmit(m) BY <1>28
  <2>2. consume[m] \in Work
        BY <2>1 DEF TypeOK, ImportSubmit, NoWork, Work
  <2>3. [consume[m] EXCEPT !.step = "mark"] \in Work
        BY <2>2 DEF Work
  <2> DEFINE K == Work \cup {NoWork}
  <2>a. consume \in [Peers -> K] /\ NoWork \in K /\ [consume[m] EXCEPT !.step = "mark"] \in K
        BY <2>3 DEF TypeOK, Work
  <2>b. UNCHANGED <<leaseVars, graphVars, pubVars, readVars, claim, kill>> BY <2>1 DEF ImportSubmit
  <2>c. consume[m].plan \in Plans BY <2>2 DEF Work
  <2> HIDE DEF K
  <2>4. CASE MaySchedule(m)
    <3>1. consume' \in [Peers -> K] BY <2>1, <2>4, <2>a DEF ImportSubmit
    <3>2. copies' \in [Peers -> SUBSET Plans] /\ plan' = plan
      <4>1. copies' = [copies EXCEPT ![m] = copies[m] \cup {consume[m].plan}] /\ plan' = plan
            BY <2>1, <2>4 DEF ImportSubmit
      <4>2. copies \in [Peers -> SUBSET Plans] BY DEF TypeOK
      <4> QED BY <4>1, <4>2, <2>c
    <3> QED BY <2>b, <3>1, <3>2 DEF TypeOK, leaseVars, graphVars, pubVars, readVars, K, Work
  <2>5. CASE ~MaySchedule(m)
    <3>1. consume' \in [Peers -> K] BY <2>1, <2>5, <2>a DEF ImportSubmit
    <3>2. copies' = copies /\ plan' \in [Peers -> [Plans -> {"none", "armed", "claimed", "imported", "failed"}]]
      <4>1. copies' = copies /\ plan' = [plan EXCEPT ![m][consume[m].plan] = "failed"]
            BY <2>1, <2>5 DEF ImportSubmit
      <4>2. plan \in [Peers -> [Plans -> {"none", "armed", "claimed", "imported", "failed"}]] BY DEF TypeOK
      <4> QED BY <4>1, <4>2, <2>c
    <3> QED BY <2>b, <3>1, <3>2 DEF TypeOK, leaseVars, graphVars, pubVars, readVars, K, Work
  <2> QED BY <2>4, <2>5
<1>29. CASE \E m \in Peers : MarkImported(m)
  <2>1. PICK m \in Peers : MarkImported(m) BY <1>29
  <2>2. consume[m].plan \in Plans BY <2>1 DEF TypeOK, MarkImported, NoWork
  <2>3. plan' \in [Peers -> [Plans -> {"none", "armed", "claimed", "imported", "failed"}]]
        BY <2>1, <2>2 DEF MarkImported, TypeOK
  <2> QED BY <2>1, <2>3 DEF TypeOK, MarkImported, leaseVars, graphVars, pubVars, readVars
<1> QED BY <1>1, <1>2, <1>3, <1>4, <1>5, <1>6, <1>7, <1>8, <1>9, <1>10, <1>11, <1>12, <1>13,
           <1>14, <1>15, <1>16, <1>17, <1>18, <1>19, <1>20, <1>21, <1>22, <1>23, <1>24, <1>25,
           <1>26, <1>27, <1>28, <1>29, <1>30, <1>31 DEF Next
-----------------------------------------------------------------------------
(* Progress of the tasks and of the checkpoints that show it *)

\* Whatever f shows of the attempts of the tasks, g shows too.
Behind(f, g) ==
    \A n \in Nodes, k \in 0 .. MaxReassign + 1 : Reached(f[n], k) => Reached(g[n], k)

LEMMA BehindSame == \A f : Behind(f, f)
BY DEF Behind

LEMMA BehindTrans == \A f, g, h : Behind(f, g) /\ Behind(g, h) => Behind(f, h)
BY DEF Behind

\* No step of the coordinator takes an attempt back.
LEMMA NodeMoves == ASSUME TypeOK, Next PROVE Behind(node, node')
<1> USE RecoveryAssumption
<1>1. CASE node' = node BY <1>1, BehindSame
<1>2. CASE \E n \in Nodes : TickNote(n)
  <2>1. PICK n \in Nodes : TickNote(n) BY <1>2
  <2>2. node[n].stage \in 0 .. MaxReassign + 1 /\ node[n].state = "submitted"
        BY <2>1 DEF TypeOK, NodeRow, TickNote, JobOver
  <2>3. \/ NextRow(n).stage = node[n].stage /\ NextRow(n).state \in {"succeeded", "failed"}
        \/ NextRow(n).stage = node[n].stage + 1
    <3>1. \/ NextRow(n) = [node[n] EXCEPT !.state = "succeeded"]
          \/ NextRow(n) = [node[n] EXCEPT !.state = "failed"]
          \/ NextRow(n) = [state |-> "pending_fallback", stage |-> node[n].stage + 1]
          \/ NextRow(n) = [state |-> "preparing", stage |-> node[n].stage + 1]
          BY DEF NextRow
    <3>2. node[n] \in NodeRow BY DEF TypeOK
    <3> QED BY <3>1, <3>2 DEF NodeRow
  <2>4. \A k \in 0 .. MaxReassign + 1 : Reached(node[n], k) => Reached(NextRow(n), k)
        BY <2>2, <2>3 DEF Reached, Waiting
  <2>5. node' = [node EXCEPT ![n] = NextRow(n)] /\ node \in [Nodes -> NodeRow]
        BY <2>1 DEF TickNote, TypeOK
  <2> QED BY <2>4, <2>5 DEF Behind
<1>3. ASSUME NEW n \in Nodes, NEW st \in NodeStates \ Waiting,
             node' = [node EXCEPT ![n] = [node[n] EXCEPT !.state = st]]
      PROVE  Behind(node, node')
  <2>1. node \in [Nodes -> NodeRow] BY DEF TypeOK
  <2>2. \A x \in Nodes : \/ node'[x] = node[x]
                         \/ node'[x].stage = node[x].stage /\ node'[x].state = st
        BY <1>3, <2>1 DEF NodeRow
  <2> QED BY <2>2 DEF Behind, Reached
<1>4. CASE \E n \in Nodes : TickPrepare(n) \/ TickReattach(n)
  <2>1. PICK n \in Nodes : TickPrepare(n) \/ TickReattach(n) BY <1>4
  <2>2. \/ node' = [node EXCEPT ![n] = [node[n] EXCEPT !.state = "submitted"]]
        \/ node' = [node EXCEPT ![n] = [node[n] EXCEPT !.state = "preparing"]]
        BY <2>1 DEF TickPrepare, TickReattach, TypeOK
  <2> QED BY <2>2, <1>3 DEF NodeStates, Waiting
<1>5. CASE \E C \in SUBSET Nodes : TickStop(C)
  <2>1. \A x \in Nodes : \/ node'[x] = node[x]
                         \/ node'[x].stage = node[x].stage /\ node'[x].state = "cancelled"
        BY <1>5 DEF TickStop, TypeOK, NodeRow
  <2> QED BY <2>1 DEF Behind, Reached, Waiting
<1>6. CASE TickSubmitted
  <2>1. tick.node \in Nodes BY <1>6 DEF TypeOK, TickSubmitted, Idle
  <2>2. node' = [node EXCEPT ![tick.node] = [node[tick.node] EXCEPT !.state = "submitted"]]
        BY <1>6 DEF TickSubmitted
  <2> QED BY <2>1, <2>2, <1>3 DEF NodeStates, Waiting
<1>7. CASE \E forGood \in BOOLEAN : EnqueueRefused(forGood)
  <2>1. PICK forGood \in BOOLEAN : EnqueueRefused(forGood) BY <1>7
  <2>2. tick.node \in Nodes BY <2>1 DEF TypeOK, EnqueueRefused, Idle
  <2>3. node' = node \/ node' = [node EXCEPT ![tick.node] = [node[tick.node] EXCEPT !.state = "failed"]]
        BY <2>1 DEF EnqueueRefused
  <2> QED BY <2>2, <2>3, <1>1, <1>3 DEF NodeStates, Waiting
<1> QED BY <1>1, <1>2, <1>4, <1>5, <1>6, <1>7
        DEF Next, Lapse, Submit, RequestCancel, Elect, KillSwitch, Crash, JobEnds, TickCheck,
            TickSucceed, Enqueue, CaptureRead, CapturePost, Readback, PublishEnd, Ingest, Attest,
            AckAges, Arm, ClaimCheck, Claim, Resume, RefreshStart, ImportCheck, ImportRefused,
            ImportSubmit, MarkImported,
            PeerAnswers, WitnessAges, Record, graphVars

\* The checkpoints that have a sequence number and may still be stored.
Published == {c.snap : c \in posts} \cup {replica[x] : x \in {y \in Peers : replica[y] # NoSnap}}

NumberedInv  == \A s \in Published : s.seq <= seq
OrderedInv   == \A s, t \in Published : s.seq <= t.seq => Behind(s.vec.nodes, t.vec.nodes)
CurrentInv   == \A s \in Published : Behind(s.vec.nodes, node)
ReadingInv   == \A p \in Publishers : pub[p].step = "read" =>
                    /\ Behind(pub[p].vec.nodes, node)
                    /\ \A s \in Published : Behind(s.vec.nodes, pub[p].vec.nodes)
                    /\ \A q \in Publishers : pub[q].step = "read" => p = q
VerifiedInv  == \A p \in Publishers : pub[p].step = "verified" =>
                    /\ replica[pub[p].to] # NoSnap
                    /\ Behind(pub[p].vec.nodes, replica[pub[p].to].vec.nodes)
AcksInv      == \A a \in acks : /\ replica[a.peer] # NoSnap
                                /\ Behind(a.vec.nodes, replica[a.peer].vec.nodes)

\* Sequence numbers follow the progress of the graph, and what is
\* acknowledged is held.
OrderInv == NumberedInv /\ OrderedInv /\ CurrentInv /\ ReadingInv /\ VerifiedInv /\ AcksInv

\* A peer's checkpoint is only replaced by one that shows at least as much.
LEMMA ReplicaMoves ==
    ASSUME TypeOK, OrderInv, Next, NEW x \in Peers, replica[x] # NoSnap
    PROVE  replica'[x] # NoSnap /\ Behind(replica[x].vec.nodes, replica'[x].vec.nodes)
<1>1. CASE replica' = replica BY <1>1, BehindSame
<1>2. CASE \E c \in posts : Ingest(c)
  <2>1. PICK c \in posts : Ingest(c) BY <1>2
  <2>2. CASE replica'[x] = replica[x] BY <2>2, BehindSame
  <2>3. CASE replica'[x] # replica[x]
    <3>1. x = c.to /\ replica'[x] = c.snap /\ Newer(c.snap, replica[x])
          BY <2>1, <2>3 DEF Ingest, TypeOK
    <3>2. c.snap \in Snapshot BY DEF TypeOK
    <3>3. c.snap # NoSnap BY <3>2, SnapshotHeld
    <3>4. c.snap \in Published /\ replica[x] \in Published BY DEF Published
    <3>5. replica[x].seq <= c.snap.seq
      <4>1. replica[x] \in Snapshot BY DEF TypeOK
      <4>2. c.snap.seq \in Int /\ replica[x].seq \in Int BY <3>2, <4>1, RecoveryAssumption DEF Snapshot
      <4> QED BY <3>1, <4>2 DEF Newer
    <3> QED BY <3>1, <3>3, <3>4, <3>5 DEF OrderInv, OrderedInv
  <2> QED BY <2>2, <2>3
<1> QED BY <1>1, <1>2
        DEF Next, Lapse, Submit, RequestCancel, Elect, KillSwitch, Crash, JobEnds, TickCheck,
            TickNote, TickPrepare, TickReattach, TickStop, TickSubmitted, EnqueueRefused,
            TickSucceed, Enqueue, CaptureRead, CapturePost, Readback, PublishEnd, Attest,
            AckAges, Arm, ClaimCheck, Claim, Resume, RefreshStart, ImportCheck, ImportRefused,
            ImportSubmit, MarkImported,
            PeerAnswers, WitnessAges, Record, pubVars

\* Publishing and storing checkpoints keeps their order, provided that no two
\* captures run at once.
LEMMA OrderStep == ASSUME QuietPublish, TypeOK, OrderInv, Next PROVE OrderInv'
<1> USE DEF OrderInv
<1>n. Behind(node, node') BY NodeMoves
<1>c. CurrentInv' \/ \E s \in Published' : s \notin Published
      BY <1>n, BehindTrans DEF CurrentInv
<1>1. CASE /\ UNCHANGED <<seq, posts, replica>> /\ acks' \subseteq acks
           /\ \A p \in Publishers : pub'[p] \in {pub[p], NoPub}
  <2>1. Published' = Published BY <1>1 DEF Published
  <2>2. NumberedInv' /\ OrderedInv' BY <1>1, <2>1 DEF NumberedInv, OrderedInv
  <2>3. \A p \in Publishers : pub'[p].step \in {"read", "verified"} => pub'[p] = pub[p]
        BY <1>1 DEF NoPub
  <2>4. ReadingInv' BY <2>1, <2>3, <1>n, BehindTrans DEF ReadingInv
  <2>5. VerifiedInv' BY <2>3, <1>1 DEF VerifiedInv
  <2>6. AcksInv' BY <1>1 DEF AcksInv
  <2> QED BY <1>c, <2>1, <2>2, <2>4, <2>5, <2>6
<1>2. CASE \E p \in Publishers, x \in Peers : CaptureRead(p, x)
  <2>1. PICK p \in Publishers, x \in Peers : CaptureRead(p, x) BY <1>2
  <2>2. /\ UNCHANGED <<seq, posts, replica, acks, node>>
        /\ pub' = [pub EXCEPT ![p] = [step |-> "read", to |-> x, vec |-> LocalVector, seq |-> 0]]
        /\ \A q \in Publishers : pub[q].step # "read"
        BY <2>1 DEF CaptureRead, graphVars
  <2>3. Published' = Published BY <2>2 DEF Published
  <2>4. pub \in [Publishers -> [step : {"read", "posted", "verified"}, to : Peers, vec : Vector,
                                seq : 0 .. MaxSeq] \cup {NoPub}] BY DEF TypeOK
  <2>5. /\ pub'[p].step = "read" /\ pub'[p].vec.nodes = node
        /\ \A q \in Publishers \ {p} : pub'[q] = pub[q]
        BY <2>2, <2>4 DEF LocalVector
  <2>6. NumberedInv' /\ OrderedInv' BY <2>2, <2>3 DEF NumberedInv, OrderedInv
  <2>7. ReadingInv' BY <2>2, <2>3, <2>5, BehindSame DEF ReadingInv, CurrentInv
  <2>8. VerifiedInv' BY <2>2, <2>5 DEF VerifiedInv
  <2>9. AcksInv' BY <2>2 DEF AcksInv
  <2> QED BY <1>c, <2>3, <2>6, <2>7, <2>8, <2>9
<1>3. CASE \E p \in Publishers : CapturePost(p)
  <2>1. PICK p \in Publishers : CapturePost(p) BY <1>3
  <2> DEFINE new == [seq |-> seq + 1, vec |-> pub[p].vec]
             R == [step : {"read", "posted", "verified"}, to : Peers, vec : Vector, seq : 0 .. MaxSeq]
  <2>2. /\ pub[p].step = "read" /\ seq' = seq + 1 /\ UNCHANGED <<replica, acks, node>>
        /\ pub' = [pub EXCEPT ![p] = [pub[p] EXCEPT !.step = "posted", !.seq = seq + 1]]
        /\ posts' = posts \cup {[to |-> pub[p].to, snap |-> new]}
        BY <2>1 DEF CapturePost, graphVars, TypeOK
  <2>3. pub \in [Publishers -> R \cup {NoPub}] BY DEF TypeOK
  <2>4. pub[p] \in R BY <2>2, <2>3 DEF NoPub
  <2>5. pub'[p].step = "posted" /\ \A q \in Publishers \ {p} : pub'[q] = pub[q]
        BY <2>2, <2>3, <2>4
  <2>6. Published' = Published \cup {new}
    <3> DEFINE c0 == [to |-> pub[p].to, snap |-> new]
    <3>1. c0.snap = new /\ posts' = posts \cup {c0} BY <2>2
    <3> HIDE DEF c0, new
    <3>2. {c.snap : c \in posts'} = {c.snap : c \in posts} \cup {new} BY <3>1
    <3> QED BY <2>2, <3>2 DEF Published
  <2>7. seq \in Nat /\ \A s \in Published : s.seq \in Nat /\ s.seq <= seq
    <3>1. Published \subseteq Snapshot BY DEF Published, TypeOK
    <3>2. \A s \in Snapshot : s.seq \in Nat BY RecoveryAssumption DEF Snapshot
    <3>3. seq \in Nat BY RecoveryAssumption DEF TypeOK
    <3> QED BY <3>1, <3>2, <3>3 DEF NumberedInv
  <2>8. new.seq = seq + 1 /\ new.vec = pub[p].vec OBVIOUS
  <2> HIDE DEF new, R
  <2>9. NumberedInv'
    <3>1. \A s \in Published \cup {new} : s.seq <= seq + 1 BY <2>7, <2>8
    <3> QED BY <3>1, <2>2, <2>6 DEF NumberedInv
  <2>10. \A s \in Published : Behind(s.vec.nodes, new.vec.nodes) BY <2>2, <2>8 DEF ReadingInv
  <2>11. OrderedInv'
    <3>1. \A s, t \in Published \cup {new} : s.seq <= t.seq => Behind(s.vec.nodes, t.vec.nodes)
      <4> TAKE s, t \in Published \cup {new}
      <4>1. CASE s \in Published /\ t \in Published BY <4>1 DEF OrderedInv
      <4>2. CASE t = new BY <4>2, <2>10, BehindSame
      <4>3. CASE s = new /\ t \in Published BY <4>3, <2>7, <2>8
      <4> QED BY <4>1, <4>2, <4>3
    <3> QED BY <3>1, <2>6 DEF OrderedInv
  <2>12. CurrentInv'
    <3>1. Behind(new.vec.nodes, node) BY <2>2, <2>8 DEF ReadingInv
    <3> QED BY <3>1, <2>2, <2>6 DEF CurrentInv
  <2>13. ReadingInv'
    <3>1. \A q \in Publishers : pub'[q].step # "read" BY <2>2, <2>5 DEF ReadingInv
    <3> QED BY <3>1 DEF ReadingInv
  <2>14. VerifiedInv' BY <2>2, <2>5 DEF VerifiedInv
  <2>15. AcksInv' BY <2>2 DEF AcksInv
  <2> QED BY <2>9, <2>11, <2>12, <2>13, <2>14, <2>15
<1>4. CASE \E c \in posts : Ingest(c)
  <2>1. PICK c \in posts : Ingest(c) BY <1>4
  <2>2. /\ UNCHANGED <<seq, pub, acks, node>> /\ posts' \subseteq posts
        /\ \A x \in Peers : replica'[x] = replica[x] \/ replica'[x] = c.snap
        BY <2>1 DEF Ingest, graphVars, TypeOK
  <2>3. Published' \subseteq Published
    <3>1. c.snap \in Published BY DEF Published
    <3>2. \A x \in Peers : replica'[x] # NoSnap => replica'[x] \in Published
          BY <2>2, <3>1 DEF Published
    <3>3. \A d \in posts' : d.snap \in Published BY <2>2 DEF Published
    <3> QED BY <3>2, <3>3 DEF Published
  <2>4. NumberedInv' BY <2>2, <2>3 DEF NumberedInv
  <2>5. OrderedInv' BY <2>3 DEF OrderedInv
  <2>6. ReadingInv' BY <2>2, <2>3 DEF ReadingInv
  <2>7. VerifiedInv'
    <3>1. \A p \in Publishers : pub[p].step = "verified" => pub[p].to \in Peers
          BY DEF TypeOK, NoPub
    <3> QED BY <2>2, <3>1, ReplicaMoves, BehindTrans DEF VerifiedInv
  <2>8. AcksInv'
    <3>1. \A a \in acks : a.peer \in Peers BY DEF TypeOK
    <3> QED BY <2>2, <3>1, ReplicaMoves, BehindTrans DEF AcksInv
  <2> QED BY <1>c, <2>3, <2>4, <2>5, <2>6, <2>7, <2>8
<1>5. CASE \E p \in Publishers : Readback(p)
  <2>1. PICK p \in Publishers : Readback(p) BY <1>5
  <2> DEFINE R == [step : {"read", "posted", "verified"}, to : Peers, vec : Vector, seq : 0 .. MaxSeq]
  <2>2. /\ UNCHANGED <<seq, posts, replica, acks, node>> /\ pub[p].step = "posted"
        /\ pub' = [pub EXCEPT ![p] = [pub[p] EXCEPT !.step = "verified"]]
        /\ replica[pub[p].to] = [seq |-> pub[p].seq, vec |-> pub[p].vec]
        BY <2>1 DEF Readback, graphVars
  <2>3. pub \in [Publishers -> R \cup {NoPub}] BY DEF TypeOK
  <2>4. pub[p] \in R BY <2>2, <2>3 DEF NoPub
  <2>5. /\ pub'[p].step = "verified" /\ pub'[p].to = pub[p].to /\ pub'[p].vec = pub[p].vec
        /\ \A q \in Publishers \ {p} : pub'[q] = pub[q]
        BY <2>2, <2>3, <2>4
  <2>6. replica[pub[p].to] # NoSnap /\ replica[pub[p].to].vec = pub[p].vec
    <3>1. [seq |-> pub[p].seq, vec |-> pub[p].vec] \in [seq : 0 .. MaxSeq, vec : Vector] BY <2>4
    <3> QED BY <2>2, <3>1, RecoveryAssumption
  <2>7. Published' = Published BY <2>2 DEF Published
  <2>8. NumberedInv' /\ OrderedInv' BY <2>2, <2>7 DEF NumberedInv, OrderedInv
  <2>9. ReadingInv' BY <2>2, <2>5, <2>7 DEF ReadingInv
  <2>10. VerifiedInv' BY <2>2, <2>5, <2>6, BehindSame DEF VerifiedInv
  <2>11. AcksInv' BY <2>2 DEF AcksInv
  <2> QED BY <1>c, <2>7, <2>8, <2>9, <2>10, <2>11
<1>6. CASE Attest
  <2>1. /\ UNCHANGED <<seq, posts, replica, node>> /\ pub["worker"].step = "verified"
        /\ pub' = [pub EXCEPT !["worker"] = NoPub]
        /\ acks' = acks \cup {[peer |-> pub["worker"].to, vec |-> pub["worker"].vec]}
        BY <1>6 DEF Attest, graphVars
  <2>2. Published' = Published BY <2>1 DEF Published
  <2>3. \A p \in Publishers : pub'[p] \in {pub[p], NoPub} BY <2>1 DEF TypeOK
  <2>4. \A p \in Publishers : pub'[p].step \in {"read", "verified"} => pub'[p] = pub[p]
        BY <2>3 DEF NoPub
  <2>5. NumberedInv' /\ OrderedInv' BY <2>1, <2>2 DEF NumberedInv, OrderedInv
  <2>6. ReadingInv' BY <2>1, <2>2, <2>4 DEF ReadingInv
  <2>7. VerifiedInv' BY <2>1, <2>4 DEF VerifiedInv
  <2>8. AcksInv'
    <3>1. /\ replica[pub["worker"].to] # NoSnap
          /\ Behind(pub["worker"].vec.nodes, replica[pub["worker"].to].vec.nodes)
          BY <2>1 DEF VerifiedInv, Publishers
    <3> QED BY <2>1, <3>1 DEF AcksInv
  <2> QED BY <1>c, <2>2, <2>5, <2>6, <2>7, <2>8
<1>7. CASE UNCHANGED pubVars BY <1>7, <1>1 DEF pubVars
<1>8. CASE (\E p \in Publishers : PublishEnd(p)) \/ (\E a \in acks : AckAges(a))
          \/ (\E m \in Members : Crash(m))
  <2>1. UNCHANGED <<seq, posts, replica>> /\ acks' \subseteq acks
        BY <1>8 DEF PublishEnd, AckAges, Crash
  <2>2. \A p \in Publishers : pub'[p] \in {pub[p], NoPub}
        BY <1>8 DEF PublishEnd, AckAges, Crash, TypeOK
  <2> QED BY <1>1, <2>1, <2>2
<1> QED BY <1>2, <1>3, <1>4, <1>5, <1>6, <1>7, <1>8
        DEF Next, Lapse, Submit, RequestCancel, Elect, KillSwitch, JobEnds, TickCheck,
            TickNote, TickPrepare, TickReattach, TickStop, TickSubmitted, EnqueueRefused,
            TickSucceed, Enqueue, Arm, ClaimCheck, Claim, Resume, RefreshStart, ImportCheck,
            ImportRefused, ImportSubmit,
            MarkImported, PeerAnswers, WitnessAges, Record
-----------------------------------------------------------------------------
(* Terms: what recovery does, it does in a later term than the graph's *)

HolderInv == \A h \in holders : h[2] = last /\ \A g \in holders : g = h

OwnerInv == graph.state # "none" =>
    /\ graph.term <= last
    /\ graph.term = last => \A h \in holders : h[1] = Source

\* A later leader has been elected since the graph was registered.
Late == graph.state # "none" /\ last > graph.term

LateInv ==
    /\ asked # {} \/ answers # {} => Late
    /\ \A m, x \in Peers : witness[m][x].term # 0 => Late
    /\ \A m \in Peers : consume[m] # NoWork \/ copies[m] # {} => Late
    /\ \A m \in Peers, p \in Plans : /\ plan[m][p] # "none" => graph.state # "none"
                                     /\ plan[m][p] \notin {"none", "armed"} => Late

BusyInv == tick # Idle => graph.state # "none"

TermInv == HolderInv /\ OwnerInv /\ LateInv /\ BusyInv

\* A peer that leads while a plan is armed leads in a later term.
LEMMA PeerLeads ==
    ASSUME TypeOK, TermInv, NEW m \in Peers, MaySchedule(m), graph.state # "none"
    PROVE  Late
<1>1. PICK t \in 1 .. MaxTerm : <<m, t>> \in holders BY DEF MaySchedule
<1>2. <<m, t>>[1] # Source BY DEF Peers
<1>3. graph.term # last BY <1>1, <1>2 DEF TermInv, OwnerInv
<1>4. graph.term \in Int /\ last \in Int BY RecoveryAssumption DEF TypeOK
<1> QED BY <1>3, <1>4 DEF TermInv, OwnerInv, Late

\* The owner of the graph leads: nothing has been recovered, or asked for.
LEMMA OwnerLeads ==
    ASSUME TypeOK, TermInv, OwnsCurrentEpoch
    PROVE  ~Late
<1>1. <<Source, graph.term>>[2] = last BY DEF TermInv, HolderInv, OwnsCurrentEpoch
<1>2. graph.term = last BY <1>1
<1>3. graph.term \in Int BY RecoveryAssumption DEF TypeOK
<1> QED BY <1>2, <1>3 DEF Late

\* Once registered the graph keeps its term, and the terms grow.
LEMMA GraphMoves ==
    ASSUME TypeOK, TermInv, Next
    PROVE  /\ last' >= last
           /\ graph.state # "none" => graph'.state # "none" /\ graph'.term = graph.term
           /\ Late => Late'
<1>1. last \in Int /\ last' \in Int /\ graph.term \in Int
  <2>1. TypeOK' BY TypeStep
  <2> QED BY <2>1, RecoveryAssumption DEF TypeOK
<1>2. last' >= last
  <2>1. CASE last' = last BY <2>1, <1>1
  <2>2. CASE \E m \in Members, t \in 1 .. MaxTerm : Elect(m, t)
    BY <2>2, <1>1 DEF Elect
  <2> QED BY <2>1, <2>2
        DEF Next, Lapse, Submit, RequestCancel, KillSwitch, Crash, JobEnds, TickCheck,
            TickNote, TickPrepare, TickReattach, TickStop, TickSubmitted, EnqueueRefused,
            TickSucceed, Enqueue, CaptureRead, CapturePost, Readback, PublishEnd, Attest, Ingest,
            AckAges, Arm, ClaimCheck, Claim, Resume, RefreshStart, ImportCheck, ImportRefused,
            ImportSubmit, MarkImported,
            PeerAnswers, WitnessAges, Record, leaseVars
<1>3. graph.state # "none" => graph'.state # "none" /\ graph'.term = graph.term
  <2> HAVE graph.state # "none"
  <2>t. graph \in [state : GraphStates, term : 0 .. MaxTerm] BY DEF TypeOK
  <2>1. CASE graph' = graph BY <2>1
  <2>2. CASE \E st \in GraphStates \ {"none"} : graph' = [graph EXCEPT !.state = st]
        BY <2>2, <2>t
  <2>3. CASE RequestCancel \/ TickSucceed BY <2>2, <2>3 DEF RequestCancel, TickSucceed, GraphStates
  <2>4. CASE \E C \in SUBSET Nodes : TickStop(C)
    <3>1. PICK C \in SUBSET Nodes : TickStop(C) BY <2>4
    <3>2. \E st \in {"failed", "cancelled", "failing", graph.state} : graph' = [graph EXCEPT !.state = st]
          BY <3>1 DEF TickStop
    <3>3. graph.state \in GraphStates BY <2>t
    <3> QED BY <2>2, <3>2, <3>3 DEF GraphStates
  <2>5. CASE \E forGood \in BOOLEAN : EnqueueRefused(forGood)
    BY <2>1, <2>2, <2>5 DEF EnqueueRefused, GraphStates
  <2>6. CASE Submit BY <2>6 DEF Submit
  <2> QED BY <2>1, <2>3, <2>4, <2>5, <2>6
        DEF Next, Lapse, Elect, KillSwitch, Crash, JobEnds, TickCheck,
            TickNote, TickPrepare, TickReattach, TickSubmitted,
            Enqueue, CaptureRead, CapturePost, Readback, PublishEnd, Attest, Ingest,
            AckAges, Arm, ClaimCheck, Claim, Resume, RefreshStart, ImportCheck, ImportRefused,
            ImportSubmit, MarkImported,
            PeerAnswers, WitnessAges, Record, graphVars
<1>4. Late => Late' BY <1>1, <1>2, <1>3 DEF Late
<1> QED BY <1>2, <1>3, <1>4

LEMMA HolderStep == ASSUME TypeOK, TermInv, Next PROVE HolderInv' /\ OwnerInv'
<1>1. CASE Lapse
  <2>1. holders' = {} /\ last' = last /\ graph' = graph BY <1>1 DEF Lapse, Lease!Lapse, graphVars
  <2> QED BY <2>1 DEF TermInv, HolderInv, OwnerInv
<1>2. CASE \E m \in Members, t \in 1 .. MaxTerm : Elect(m, t)
  <2>1. PICK m \in Members, t \in 1 .. MaxTerm : Elect(m, t) BY <1>2
  <2>2. holders' = {<<m, t>>} /\ last' = t /\ graph' = graph /\ t > last
        BY <2>1 DEF Elect, Lease!Grant, graphVars
  <2>3. HolderInv' BY <2>2 DEF HolderInv
  <2>4. last \in Int /\ graph.term \in Int BY RecoveryAssumption DEF TypeOK
  <2>5. graph.state # "none" => graph.term < t BY <2>2, <2>4 DEF TermInv, OwnerInv
  <2>6. graph'.state # "none" => graph'.term < last' BY <2>2, <2>5
  <2>7. graph'.term \in Int /\ last' \in Int BY <2>2, <2>4
  <2>8. OwnerInv' BY <2>6, <2>7 DEF OwnerInv
  <2> QED BY <2>3, <2>8
<1>3. CASE Submit
  <2>1. PICK t \in 1 .. MaxTerm : <<Source, t>> \in holders /\ graph' = [state |-> "running", term |-> t]
        BY <1>3 DEF Submit
  <2>2. UNCHANGED <<holders, last>> BY <1>3 DEF Submit, leaseVars
  <2>3. HolderInv' BY <2>2 DEF TermInv, HolderInv
  <2>4. <<Source, t>>[2] = last /\ \A h \in holders : h = <<Source, t>>
        BY <2>1 DEF TermInv, HolderInv
  <2>5. graph'.term = last /\ last \in Int BY <2>1, <2>4, RecoveryAssumption DEF TypeOK
  <2>6. \A h \in holders : h[1] = Source BY <2>4
  <2> QED BY <2>2, <2>3, <2>5, <2>6 DEF OwnerInv
<1>4. CASE UNCHANGED <<holders, last>> /\ ~Submit
  <2>1. HolderInv' BY <1>4 DEF TermInv, HolderInv
  <2>2. graph'.state # "none" => graph.state # "none"
    <3>1. CASE graph' = graph BY <3>1
    <3>2. CASE RequestCancel \/ TickSucceed \/ \E C \in SUBSET Nodes : TickStop(C)
      BY <3>2 DEF RequestCancel, TickSucceed, TickStop, TickOpen, OwnsCurrentEpoch
    <3>3. CASE \E forGood \in BOOLEAN : EnqueueRefused(forGood)
      <4>1. graph' = graph \/ graph' = [graph EXCEPT !.state = "failing"] BY <3>3 DEF EnqueueRefused
      <4>2. tick.step = "checked" BY <3>3 DEF EnqueueRefused
      <4> QED BY <4>2 DEF Idle, TermInv, BusyInv
    <3> QED BY <1>4, <3>1, <3>2, <3>3
        DEF Next, Lapse, Elect, KillSwitch, Crash, JobEnds, TickCheck,
            TickNote, TickPrepare, TickReattach, TickSubmitted,
            Enqueue, CaptureRead, CapturePost, Readback, PublishEnd, Attest, Ingest,
            AckAges, Arm, ClaimCheck, Claim, Resume, RefreshStart, ImportCheck, ImportRefused,
            ImportSubmit, MarkImported,
            PeerAnswers, WitnessAges, Record, graphVars
  <2>3. graph'.state # "none" => graph'.term = graph.term BY <2>2, GraphMoves
  <2> QED BY <1>4, <2>1, <2>2, <2>3 DEF TermInv, OwnerInv
<1> QED BY <1>1, <1>2, <1>3, <1>4
        DEF Next, RequestCancel, KillSwitch, Crash, JobEnds, TickCheck,
            TickNote, TickPrepare, TickReattach, TickStop, TickSubmitted, EnqueueRefused,
            TickSucceed, Enqueue, CaptureRead, CapturePost, Readback, PublishEnd, Attest, Ingest,
            AckAges, Arm, ClaimCheck, Claim, Resume, RefreshStart, ImportCheck, ImportRefused,
            ImportSubmit, MarkImported,
            PeerAnswers, WitnessAges, Record, leaseVars

LEMMA BusyStep == ASSUME TypeOK, TermInv, Next PROVE BusyInv'
<1>1. graph.state # "none" => graph'.state # "none" BY GraphMoves
<1>2. tick' # Idle => graph.state # "none"
  <2>1. CASE tick' = tick BY <2>1 DEF TermInv, BusyInv
  <2>2. CASE \E n \in Nodes : TickCheck(n)
    BY <2>2 DEF TickCheck, Dispatchable, OwnsCurrentEpoch
  <2>3. CASE Enqueue BY <2>3 DEF Enqueue, Idle, TermInv, BusyInv
  <2>4. CASE tick' = Idle BY <2>4
  <2>5. CASE \E m \in Members : Crash(m) BY <2>1, <2>4, <2>5 DEF Crash
  <2> QED BY <2>1, <2>2, <2>3, <2>4, <2>5
        DEF Next, Lapse, Elect, Submit, RequestCancel, KillSwitch, JobEnds,
            TickNote, TickPrepare, TickReattach, TickStop, TickSubmitted, EnqueueRefused,
            TickSucceed, CaptureRead, CapturePost, Readback, PublishEnd, Attest, Ingest,
            AckAges, Arm, ClaimCheck, Claim, Resume, RefreshStart, ImportCheck, ImportRefused,
            ImportSubmit, MarkImported,
            PeerAnswers, WitnessAges, Record, graphVars
<1> QED BY <1>1, <1>2 DEF BusyInv

\* Whoever may take the graph over has heard a peer in a later term.
LEMMA EligibleLate == ASSUME TypeOK, TermInv, NEW m \in Peers, Eligible(m) PROVE Late
<1> DEFINE said == {x \in Peers : witness[m][x].term = row[m] /\ witness[m][x].snap # NoSnap}
<1>1. {m} \cup said \in Majorities /\ row[m] > 0 BY DEF Eligible, ConfirmsNoDispatch
<1>2. {m} \notin Majorities
  <2>1. m # Source /\ {m, Source} \subseteq Members /\ IsFiniteSet(Members)
        BY RecoveryAssumption DEF Peers
  <2>2. IsFiniteSet({m}) /\ Cardinality({m}) = 1 BY FS_Singleton
  <2>3. Cardinality({m} \cup {Source}) = 2 BY <2>1, <2>2, FS_AddElement
  <2>4. Cardinality({m} \cup {Source}) <= Cardinality(Members) /\ Cardinality(Members) \in Nat
        BY <2>1, FS_Subset, FS_CardinalityType
  <2> QED BY <2>2, <2>3, <2>4 DEF Majorities
<1>3. PICK x \in said : TRUE BY <1>1, <1>2
<1>4. x \in Peers /\ witness[m][x].term # 0 BY <1>1, <1>3
<1> QED BY <1>4 DEF TermInv, LateInv

LEMMA LateStep == ASSUME TypeOK, TermInv, Next PROVE LateInv'
<1>l. (Late => Late') /\ (graph.state # "none" => graph'.state # "none") BY GraphMoves
<1>t. LateInv BY DEF TermInv
<1>1. ASSUME Late PROVE LateInv'
  <2>1. Late' BY <1>1, <1>l
  <2> QED BY <2>1 DEF LateInv, Late
<1>2. ASSUME ~Late, UNCHANGED <<readVars, planVars>> PROVE LateInv'
  BY <1>2, <1>t, <1>l DEF LateInv, readVars, planVars
<1>3. CASE \E m \in Peers, p \in Plans : Arm(m, p)
  <2>1. PICK m \in Peers, p \in Plans : Arm(m, p) BY <1>3
  <2>2. /\ UNCHANGED <<graph, asked, answers, witness, consume, copies>> /\ graph.state # "none"
        /\ plan' = [plan EXCEPT ![m][p] = "armed"]
        BY <2>1 DEF Arm, graphVars, readVars
  <2>3. \A y \in Peers, q \in Plans : plan'[y][q] = plan[y][q] \/ plan'[y][q] = "armed"
        BY <2>2 DEF TypeOK
  <2> QED BY <1>t, <1>l, <2>2, <2>3 DEF LateInv
<1>4. CASE \E m \in Peers : RefreshStart(m)
  <2>1. PICK m \in Peers : RefreshStart(m) BY <1>4
  <2>2. graph.state # "none" BY <2>1, <1>t DEF RefreshStart, LateInv
  <2>3. Late BY <2>1, <2>2, PeerLeads DEF RefreshStart
  <2> QED BY <1>1, <2>3
<1>5. CASE \E m \in Peers, p \in Plans : ClaimCheck(m, p)
  <2>1. Late BY <1>5, EligibleLate DEF ClaimCheck
  <2> QED BY <1>1, <2>1
<1>6. CASE \E m \in Peers, p \in Plans : Resume(m, p)
  <2>1. Late BY <1>6, <1>t DEF Resume, LateInv
  <2> QED BY <1>1, <2>1
<1>7. CASE \E m \in Peers : \/ \E led \in BOOLEAN : ImportCheck(m, led)
                            \/ Claim(m) \/ ImportRefused(m) \/ ImportSubmit(m) \/ MarkImported(m)
  <2>1. Late BY <1>7, <1>t DEF Claim, ImportCheck, ImportRefused, ImportSubmit, MarkImported, NoWork,
                              LateInv
  <2> QED BY <1>1, <2>1
<1>8. CASE (\E m, x \in Peers : PeerAnswers(m, x)) \/ (\E a \in answers : Record(a))
  <2>1. Late BY <1>8, <1>t DEF PeerAnswers, Record, LateInv
  <2> QED BY <1>1, <2>1
<1>9. CASE \E m, x \in Peers : WitnessAges(m, x)
  <2>1. PICK m, x \in Peers : WitnessAges(m, x) BY <1>9
  <2>2. /\ UNCHANGED <<graph, asked, answers, plan, consume, copies>>
        /\ witness' = [witness EXCEPT ![m][x] = Unseen]
        BY <2>1 DEF WitnessAges, graphVars, planVars
  <2>3. \A y, z \in Peers : witness'[y][z] = witness[y][z] \/ witness'[y][z].term = 0
        BY <2>2 DEF TypeOK, Unseen
  <2> QED BY <1>t, <1>1, <2>2, <2>3 DEF LateInv
<1>10. CASE \E m \in Members : Crash(m)
  <2>1. PICK m \in Members : Crash(m) BY <1>10
  <2>2. /\ UNCHANGED <<graph, plan, copies, witness>>
        /\ asked' \subseteq asked /\ answers' \subseteq answers
        /\ \A y \in Peers : consume'[y] = consume[y] \/ consume'[y] = NoWork
        BY <2>1 DEF Crash, TypeOK, Peers
  <2> QED BY <1>t, <1>1, <2>2 DEF LateInv
<1> QED BY <1>1, <1>2, <1>3, <1>4, <1>5, <1>6, <1>7, <1>8, <1>9, <1>10
        DEF Next, Lapse, Elect, Submit, RequestCancel, KillSwitch, JobEnds, TickCheck, Enqueue,
            TickNote, TickPrepare, TickReattach, TickStop, TickSubmitted, EnqueueRefused,
            TickSucceed, CaptureRead, CapturePost, Readback, PublishEnd, Attest, Ingest, AckAges
-----------------------------------------------------------------------------
(* The majority that has seen an attempt, and what it tells a successor *)

\* The job of j exists, or nothing can keep the tick from writing it.
Started(j) == jobs[j] # "none" \/ (tick.step = "checked" /\ j = JobOf(tick.node))

\* The peers that hold a checkpoint showing j and have told, and will tell,
\* nobody anything else.
Aware(j) ==
    {x \in Peers :
        /\ Knows(x, j)
        /\ \A a \in answers : a.peer = x => Shows(a.snap, j)
        /\ \A m \in Peers : witness[m][x].term # 0 => Shows(witness[m][x].snap, j)}

QuorumInv == \A j \in Jobs : Started(j) => {Source} \cup Aware(j) \in Majorities

RecoveredInv ==
    \A m \in Peers : consume[m].step \in {"submit", "mark"} \/ copies[m] # {} =>
        \A j \in Jobs : ~Started(j)

\* Only the last check of a tick brings a task to the point of no return.
LEMMA StartedStep ==
    ASSUME TypeOK, Next, NEW j \in Jobs, Started(j)', ~Started(j)
    PROVE  \E n \in Nodes : TickCheck(n) /\ j = JobOf(n)
<1>1. CASE UNCHANGED <<jobs, tick, node>> BY <1>1 DEF Started, JobOf
<1>2. CASE UNCHANGED jobs /\ tick' = Idle BY <1>2 DEF Started, Idle
<1>3. CASE UNCHANGED jobs /\ tick = Idle /\ tick' = tick BY <1>3 DEF Started, Idle
<1>4. CASE \E n \in Nodes : TickCheck(n)
  <2>1. PICK n \in Nodes : TickCheck(n) BY <1>4
  <2>2. UNCHANGED <<jobs, node>> /\ tick'.node = n BY <2>1 DEF TickCheck
  <2> QED BY <2>1, <2>2 DEF Started, JobOf
<1>5. CASE \E i \in Jobs, st \in {"succeeded", "failed", "cancelled"} : JobEnds(i, st)
  BY <1>5 DEF JobEnds, Started, JobOf, TypeOK
<1>6. CASE \E C \in SUBSET Nodes : TickStop(C)
  <2>1. PICK C \in SUBSET Nodes : TickStop(C) BY <1>6
  <2>2. tick = Idle /\ tick' = tick BY <2>1 DEF TickStop, TickOpen
  <2>3. \A n \in C : jobs[JobOf(n)] = "live" BY <2>1 DEF TickStop, JobOver
  <2>4. jobs'[j] = jobs[j] \/ \E n \in C : j = JobOf(n) BY <2>1 DEF TickStop
  <2> QED BY <2>2, <2>3, <2>4 DEF Started, Idle
<1>7. CASE Enqueue
  <2>1. tick.step = "checked" /\ jobs' = [jobs EXCEPT ![JobOf(tick.node)] = "live"]
        BY <1>7 DEF Enqueue
  <2>2. tick'.step = "enqueued"
    <3>1. tick \in [node : Nodes, step : {"checked", "enqueued"}] BY <2>1 DEF TypeOK, Idle
    <3> QED BY <1>7, <3>1 DEF Enqueue
  <2> QED BY <2>1, <2>2 DEF Started, TypeOK
<1>8. CASE \E m \in Members : Crash(m) BY <1>1, <1>2, <1>8 DEF Crash
<1> QED BY <1>1, <1>2, <1>3, <1>4, <1>5, <1>6, <1>7, <1>8
        DEF Next, Lapse, Elect, Submit, RequestCancel, KillSwitch,
            TickNote, TickPrepare, TickReattach, TickSubmitted, EnqueueRefused, TickOpen,
            Dispatchable, TickSucceed, CaptureRead, CapturePost, Readback, PublishEnd, Attest,
            Ingest, AckAges, Arm, ClaimCheck, Claim, Resume, RefreshStart, ImportCheck, ImportRefused,
            ImportSubmit,
            MarkImported, PeerAnswers, WitnessAges, Record, graphVars

\* A peer that shows the attempt keeps showing it, and so does what it says.
LEMMA AwareStep ==
    ASSUME TypeOK, OrderInv, Next, NEW j \in Jobs
    PROVE  Aware(j) \subseteq Aware(j)'
<1> SUFFICES ASSUME NEW x \in Aware(j) PROVE x \in Aware(j)'
    OBVIOUS
<1>1. x \in Peers /\ Knows(x, j) BY DEF Aware
<1>j. j[1] \in Nodes /\ j[2] \in 0 .. MaxReassign + 1 BY DEF Jobs
<1>2. Knows(x, j)'
  <2>1. replica'[x] # NoSnap /\ Behind(replica[x].vec.nodes, replica'[x].vec.nodes)
        BY <1>1, ReplicaMoves DEF Knows, Shows
  <2> QED BY <1>1, <1>j, <2>1 DEF Knows, Shows, Behind
<1>3. \A a \in answers' : a.peer = x => Shows(a.snap, j)
  <2>1. CASE answers' \subseteq answers BY <2>1 DEF Aware
  <2>2. CASE \E m, y \in Peers : PeerAnswers(m, y)
    <3>1. PICK m, y \in Peers : PeerAnswers(m, y) BY <2>2
    <3>2. answers' = answers \cup {[by |-> m, peer |-> y, snap |-> replica[y]]}
          BY <3>1 DEF PeerAnswers
    <3>3. Shows(replica[x], j) BY <1>1 DEF Knows
    <3>4. \A a \in answers : a.peer = x => Shows(a.snap, j) BY DEF Aware
    <3> DEFINE b == [by |-> m, peer |-> y, snap |-> replica[y]]
    <3>5. b.peer = y /\ b.snap = replica[y] /\ answers' = answers \cup {b} BY <3>2
    <3> HIDE DEF b
    <3> QED BY <3>3, <3>4, <3>5
  <2>3. CASE \E m \in Members : Crash(m) BY <2>1, <2>3 DEF Crash
  <2> QED BY <2>1, <2>2, <2>3
        DEF Next, Lapse, Elect, Submit, RequestCancel, KillSwitch, JobEnds, TickCheck, Enqueue,
            TickNote, TickPrepare, TickReattach, TickStop, TickSubmitted, EnqueueRefused,
            TickSucceed, CaptureRead, CapturePost, Readback, PublishEnd, Attest, Ingest, AckAges,
            Arm, ClaimCheck, Claim, Resume, RefreshStart, ImportCheck, ImportRefused,
            ImportSubmit, MarkImported,
            WitnessAges, Record, readVars
<1>4. \A m \in Peers : witness'[m][x].term # 0 => Shows(witness'[m][x].snap, j)
  <2>1. CASE witness' = witness BY <2>1 DEF Aware
  <2>2. CASE \E m, y \in Peers : WitnessAges(m, y)
    <3>1. PICK m, y \in Peers : WitnessAges(m, y) BY <2>2
    <3>2. witness' = [witness EXCEPT ![m][y] = Unseen] BY <3>1 DEF WitnessAges
    <3>3. \A z \in Peers : witness'[z][x] = witness[z][x] \/ witness'[z][x].term = 0
          BY <3>2, <1>1 DEF TypeOK, Unseen
    <3> QED BY <3>3 DEF Aware
  <2>3. CASE \E a \in answers : Record(a)
    <3>1. PICK a \in answers : Record(a) BY <2>3
    <3>2. a.by \in Peers /\ a.peer \in Peers BY DEF TypeOK
    <3>3. \/ witness' = witness
          \/ witness' = [witness EXCEPT ![a.by][a.peer] = [term |-> row[a.by], snap |-> a.snap]]
          BY <3>1 DEF Record
    <3>4. \A z \in Peers : \/ witness'[z][x] = witness[z][x]
                           \/ a.peer = x /\ witness'[z][x].snap = a.snap
      <4> DEFINE w == [term |-> row[a.by], snap |-> a.snap]
                 W == [term : 0 .. MaxTerm, snap : Snapshot \cup {NoSnap}]
      <4>1. w.snap = a.snap OBVIOUS
      <4>2. witness \in [Peers -> [Peers -> W]] BY DEF TypeOK
      <4>3. witness' = witness \/ witness' = [witness EXCEPT ![a.by][a.peer] = w] BY <3>3
      <4> HIDE DEF w, W
      <4>4. \A z \in Peers : witness'[z][x] = witness[z][x] \/ (a.peer = x /\ witness'[z][x] = w)
            BY <3>2, <4>2, <4>3, <1>1
      <4> QED BY <4>1, <4>4
    <3> QED BY <3>4 DEF Aware
  <2> QED BY <2>1, <2>2, <2>3
        DEF Next, Lapse, Elect, Submit, RequestCancel, KillSwitch, JobEnds, TickCheck, Enqueue,
            TickNote, TickPrepare, TickReattach, TickStop, TickSubmitted, EnqueueRefused,
            TickSucceed, CaptureRead, CapturePost, Readback, PublishEnd, Attest, Ingest, AckAges,
            Arm, ClaimCheck, Claim, Resume, RefreshStart, ImportCheck, ImportRefused,
            ImportSubmit, MarkImported,
            PeerAnswers, Crash, readVars
<1> QED BY <1>1, <1>2, <1>3, <1>4 DEF Aware

\* The acknowledgments a tick counts come from peers that show the attempt.
LEMMA CheckQuorum ==
    ASSUME TypeOK, OrderInv, TermInv, NEW n \in Nodes, TickCheck(n)
    PROVE  {Source} \cup Aware(JobOf(n)) \in Majorities
<1>1. ~Late BY OwnerLeads DEF TickCheck, Dispatchable
<1>2. answers = {} /\ \A m, x \in Peers : witness[m][x].term = 0
      BY <1>1 DEF TermInv, LateInv
<1> DEFINE A == {x \in Peers : [peer |-> x, vec |-> LocalVector] \in acks}
<1>3. {Source} \cup A \in Majorities BY DEF TickCheck, MajorityHasState
<1>4. A \subseteq Aware(JobOf(n))
  <2> SUFFICES ASSUME NEW x \in A PROVE x \in Aware(JobOf(n))
      OBVIOUS
  <2>1. replica[x] # NoSnap /\ Behind(node, replica[x].vec.nodes)
    <3>1. [peer |-> x, vec |-> LocalVector] \in acks OBVIOUS
    <3>2. replica[x] # NoSnap /\ Behind(LocalVector.nodes, replica[x].vec.nodes)
          BY <3>1 DEF OrderInv, AcksInv
    <3> QED BY <3>2 DEF LocalVector
  <2>2. node[n].state = "preparing" /\ node[n].stage \in 0 .. MaxReassign + 1
        BY DEF TickCheck, TypeOK, NodeRow
  <2>3. Reached(node[n], node[n].stage) BY <2>2 DEF Reached, Waiting
  <2>4. Knows(x, JobOf(n)) BY <2>1, <2>2, <2>3 DEF Behind, Knows, Shows, JobOf
  <2> QED BY <1>2, <2>4 DEF Aware
<1>5. {Source} \cup Aware(JobOf(n)) \in SUBSET Members
      BY RecoveryAssumption DEF Aware, Peers
<1>6. {Source} \cup A \subseteq {Source} \cup Aware(JobOf(n)) BY <1>4
<1> QED BY <1>3, <1>5, <1>6, MajorityGrows

LEMMA QuorumStep ==
    ASSUME TypeOK, OrderInv, TermInv, QuorumInv, Next
    PROVE  QuorumInv'
<1> SUFFICES ASSUME NEW j \in Jobs, Started(j)' PROVE ({Source} \cup Aware(j)' \in Majorities)
    BY DEF QuorumInv
<1>1. {Source} \cup Aware(j) \in Majorities
  <2>1. CASE Started(j) BY <2>1 DEF QuorumInv
  <2>2. CASE ~Started(j) BY <2>2, StartedStep, CheckQuorum
  <2> QED BY <2>1, <2>2
<1>2. {Source} \cup Aware(j)' \in SUBSET Members BY RecoveryAssumption DEF Aware, Peers
<1>3. {Source} \cup Aware(j) \subseteq {Source} \cup Aware(j)' BY AwareStep
<1> QED BY <1>1, <1>2, <1>3, MajorityGrows

\* A row that was never touched shows no attempt.
LEMMA PendingShowsNothing ==
    ASSUME NEW sn \in Snapshot, AllPending(sn), NEW j \in Jobs
    PROVE  ~Shows(sn, j)
<1>1. j[1] \in Nodes /\ j[2] \in 0 .. MaxReassign + 1 BY DEF Jobs
<1>2. sn.vec.nodes[j[1]] \in NodeRow BY <1>1 DEF Snapshot, Vector
<1>3. sn.vec.nodes[j[1]].state = "pending" BY <1>1 DEF AllPending
<1>4. sn.vec.nodes[j[1]].stage = 0 BY <1>2, <1>3 DEF NodeRow
<1> QED BY <1>1, <1>3, <1>4, RecoveryAssumption DEF Shows, Reached, Waiting

\* A majority that saw every task untouched meets the majority that has seen
\* an attempt, so there was none.
LEMMA EligibleUntouched ==
    ASSUME TypeOK, QuorumInv, NEW m \in Peers, Eligible(m), NEW j \in Jobs
    PROVE  ~Started(j)
<1> SUFFICES ASSUME Started(j) PROVE FALSE
    OBVIOUS
<1>1. row[m] > 0 /\ replica[m] # NoSnap /\ AllPending(replica[m]) /\ ConfirmsNoDispatch(m, row[m])
      BY DEF Eligible
<1> DEFINE said == {x \in Peers : witness[m][x].term = row[m] /\ witness[m][x].snap # NoSnap}
<1>2. {m} \cup said \in Majorities /\ \A x \in said : AllPending(witness[m][x].snap)
      BY <1>1 DEF ConfirmsNoDispatch
<1>3. {Source} \cup Aware(j) \in Majorities BY DEF QuorumInv
<1>4. PICK y \in {m} \cup said : y \in {Source} \cup Aware(j) BY <1>2, <1>3, MajoritiesMeet
<1>5. y \in Peers BY <1>4
<1>6. y \in Aware(j) BY <1>4, <1>5 DEF Peers
<1>7. CASE y = m
  <2>1. replica[m] \in Snapshot /\ Shows(replica[m], j) BY <1>1, <1>6, <1>7 DEF TypeOK, Aware, Knows
  <2> QED BY <2>1, <1>1, PendingShowsNothing
<1>8. CASE y \in said
  <2>1. witness[m][y].snap \in Snapshot /\ witness[m][y].term # 0 BY <1>1, <1>8 DEF TypeOK
  <2>2. Shows(witness[m][y].snap, j) BY <2>1, <1>6 DEF Aware
  <2> QED BY <2>1, <2>2, <1>2, <1>8, PendingShowsNothing
<1> QED BY <1>4, <1>7, <1>8

LEMMA RecoveredStep ==
    ASSUME TypeOK, TermInv, QuorumInv, RecoveredInv, Next
    PROVE  RecoveredInv'
<1> SUFFICES ASSUME NEW m \in Peers, consume'[m].step \in {"submit", "mark"} \/ copies'[m] # {},
                    NEW j \in Jobs, Started(j)'
             PROVE  FALSE
    BY DEF RecoveredInv
<1>1. CASE ~Started(j)
  <2>1. PICK n \in Nodes : TickCheck(n) BY <1>1, StartedStep
  <2>2. ~Late BY <2>1, OwnerLeads DEF TickCheck, Dispatchable
  <2>3. consume[m] = NoWork /\ copies[m] = {} BY <2>2 DEF TermInv, LateInv
  <2>4. UNCHANGED <<consume, copies>> BY <2>1 DEF TickCheck, planVars
  <2> QED BY <2>3, <2>4 DEF NoWork
<1>2. CASE Started(j)
  <2>1. consume[m].step \notin {"submit", "mark"} /\ copies[m] = {} BY <1>2 DEF RecoveredInv
  <2>2. ~Eligible(m) BY <1>2, EligibleUntouched
  <2>3. CASE UNCHANGED <<consume, copies>> BY <2>1, <2>3
  <2>4. CASE \E y \in Peers, p \in Plans : ClaimCheck(y, p) \/ Resume(y, p)
    <3>1. PICK y \in Peers, p \in Plans : ClaimCheck(y, p) \/ Resume(y, p) BY <2>4
    <3>2. /\ copies' = copies
          /\ \E st \in {"eligible", "claimed"} :
                consume' = [consume EXCEPT ![y] = [plan |-> p, step |-> st]]
          BY <3>1 DEF ClaimCheck, Resume
    <3>3. consume'[m] = consume[m] \/ consume'[m].step \in {"eligible", "claimed"}
          BY <3>2 DEF TypeOK
    <3> QED BY <2>1, <3>2, <3>3
  <2>8. CASE \E y \in Peers : Claim(y) \/ ImportRefused(y)
    <3>1. PICK y \in Peers : Claim(y) \/ ImportRefused(y) BY <2>8
    <3>2. /\ copies' = copies
          /\ \/ consume' = [consume EXCEPT ![y] = NoWork]
             \/ Claim(y) /\ consume' = [consume EXCEPT ![y] = [consume[y] EXCEPT !.step = "claimed"]]
          BY <3>1 DEF Claim, ImportRefused
    <3>3. Claim(y) => consume[y] \in Work BY DEF Claim, TypeOK, Work, NoWork
    <3>4. consume'[m] \in {consume[m], NoWork} \/ consume'[m].step = "claimed"
          BY <3>2, <3>3 DEF TypeOK, Work
    <3> QED BY <2>1, <3>2, <3>4 DEF NoWork
  <2>5. CASE \E y \in Peers, led \in BOOLEAN : ImportCheck(y, led)
    <3>1. PICK y \in Peers, led \in BOOLEAN : ImportCheck(y, led) BY <2>5
    <3>2. copies' = copies BY <3>1 DEF ImportCheck
    <3>3. y = m => consume'[m] = NoWork BY <3>1, <2>1, <2>2 DEF ImportCheck, TypeOK
    <3>4. y # m => consume'[m] = consume[m] BY <3>1 DEF ImportCheck, TypeOK
    <3> QED BY <2>1, <3>2, <3>3, <3>4 DEF NoWork
  <2>6. CASE \E y \in Peers : ImportSubmit(y) \/ MarkImported(y)
    <3>1. PICK y \in Peers : ImportSubmit(y) \/ MarkImported(y) BY <2>6
    <3>2. consume[y].step \in {"submit", "mark"} BY <3>1 DEF ImportSubmit, MarkImported
    <3> QED BY <1>2, <3>2 DEF RecoveredInv
  <2>7. CASE \E y \in Members : Crash(y)
    <3>1. copies' = copies /\ (consume'[m] = consume[m] \/ consume'[m] = NoWork)
          BY <2>7 DEF Crash, TypeOK, Peers
    <3> QED BY <2>1, <3>1 DEF NoWork
  <2> QED BY <2>3, <2>4, <2>5, <2>6, <2>7, <2>8
        DEF Next, Lapse, Elect, Submit, RequestCancel, KillSwitch, JobEnds, TickCheck, Enqueue,
            TickNote, TickPrepare, TickReattach, TickStop, TickSubmitted, EnqueueRefused,
            TickSucceed, CaptureRead, CapturePost, Readback, PublishEnd, Attest, Ingest, AckAges,
            Arm, RefreshStart, PeerAnswers, WitnessAges, Record, planVars
<1> QED BY <1>1, <1>2

\* What is registered at a member is the plan its claim names.
CopyInv ==
    /\ \A m \in Peers : copies[m] \subseteq {claim[m]}
    /\ \A m \in Peers : consume[m].step \in {"claimed", "submit", "mark"} => consume[m].plan = claim[m]

LEMMA CopyStep == ASSUME TypeOK, CopyInv, Next PROVE CopyInv'
<1> USE DEF CopyInv
<1>1. CASE UNCHANGED <<consume, claim, copies>> BY <1>1
<1>2. CASE \E m \in Peers : Claim(m)
  <2>1. PICK m \in Peers : Claim(m) BY <1>2
  <2>2. consume[m] \in Work BY <2>1 DEF TypeOK, Claim, NoWork, Work
  <2>3. copies' = copies BY <2>1 DEF Claim
  <2>4. CASE claim[m] = NoPlan
    <3>1. /\ claim' = [claim EXCEPT ![m] = consume[m].plan]
          /\ consume' = [consume EXCEPT ![m] = [consume[m] EXCEPT !.step = "claimed"]]
          BY <2>1, <2>4 DEF Claim
    <3>2. copies[m] = {} BY <2>4, RecoveryAssumption DEF TypeOK
    <3>3. consume'[m].plan = consume[m].plan /\ claim'[m] = consume[m].plan
          BY <2>2, <3>1 DEF TypeOK, Work
    <3>4. \A y \in Peers \ {m} : consume'[y] = consume[y] /\ claim'[y] = claim[y]
          BY <3>1 DEF TypeOK
    <3> QED BY <2>3, <3>2, <3>3, <3>4
  <2>5. CASE claim[m] # NoPlan
    <3>1. claim' = claim /\ consume' = [consume EXCEPT ![m] = NoWork] BY <2>1, <2>5 DEF Claim
    <3>2. \A y \in Peers : consume'[y] \in {consume[y], NoWork} BY <3>1 DEF TypeOK
    <3> QED BY <2>3, <3>1, <3>2 DEF NoWork
  <2> QED BY <2>4, <2>5
<1>7. CASE \E m \in Peers, p \in Plans : ClaimCheck(m, p)
  BY <1>7 DEF ClaimCheck, TypeOK
<1>3. CASE \E m \in Peers, p \in Plans : Resume(m, p)
  BY <1>3 DEF Resume, TypeOK
<1>4. CASE \E m \in Peers, led \in BOOLEAN : ImportCheck(m, led)
  <2>1. PICK m \in Peers, led \in BOOLEAN : ImportCheck(m, led) BY <1>4
  <2>2. consume[m] \in Work /\ consume[m].step = "claimed"
        BY <2>1 DEF TypeOK, ImportCheck, NoWork, Work
  <2>3. /\ UNCHANGED <<claim, copies>>
        /\ \/ consume' = [consume EXCEPT ![m] = NoWork]
           \/ consume' = [consume EXCEPT ![m] = [consume[m] EXCEPT !.step = "mark"]]
           \/ consume' = [consume EXCEPT ![m] = [consume[m] EXCEPT !.step = "submit"]]
        BY <2>1 DEF ImportCheck
  <2>4. \A y \in Peers : consume'[y] \in {consume[y], NoWork}
                         \/ (y = m /\ consume'[y].plan = consume[m].plan)
        BY <2>2, <2>3 DEF TypeOK, Work
  <2> QED BY <2>2, <2>3, <2>4 DEF NoWork
<1>5. CASE \E m \in Peers : ImportSubmit(m)
  <2>1. PICK m \in Peers : ImportSubmit(m) BY <1>5
  <2>2. consume[m] \in Work /\ consume[m].step = "submit"
        BY <2>1 DEF TypeOK, ImportSubmit, NoWork, Work
  <2>3. /\ claim' = claim
        /\ \/ copies' = copies
           \/ copies' = [copies EXCEPT ![m] = copies[m] \cup {consume[m].plan}]
        /\ \/ consume' = [consume EXCEPT ![m] = NoWork]
           \/ consume' = [consume EXCEPT ![m] = [consume[m] EXCEPT !.step = "mark"]]
        BY <2>1 DEF ImportSubmit
  <2>4. \A y \in Peers : consume'[y] \in {consume[y], NoWork}
                         \/ (y = m /\ consume'[y].plan = consume[m].plan)
        BY <2>2, <2>3 DEF TypeOK, Work
  <2>5. consume[m].plan = claim[m] BY <2>2
  <2>6. \A y \in Peers : copies'[y] \subseteq copies[y] \cup (IF y = m THEN {claim[m]} ELSE {})
        BY <2>3, <2>5 DEF TypeOK
  <2> QED BY <2>2, <2>3, <2>4, <2>6 DEF NoWork
<1>6. CASE (\E m \in Peers : MarkImported(m) \/ ImportRefused(m)) \/ (\E m \in Members : Crash(m))
  <2>1. /\ UNCHANGED <<claim, copies>> /\ \A y \in Peers : consume'[y] \in {consume[y], NoWork}
        BY <1>6 DEF MarkImported, ImportRefused, Crash, TypeOK
  <2> QED BY <2>1 DEF NoWork
<1> QED BY <1>1, <1>2, <1>3, <1>4, <1>5, <1>6, <1>7
        DEF Next, Lapse, Elect, Submit, RequestCancel, KillSwitch, JobEnds, TickCheck, Enqueue,
            TickNote, TickPrepare, TickReattach, TickStop, TickSubmitted, EnqueueRefused,
            TickSucceed, CaptureRead, CapturePost, Readback, PublishEnd, Attest, Ingest, AckAges,
            Arm, RefreshStart, PeerAnswers, WitnessAges, Record, planVars
-----------------------------------------------------------------------------
(* The theorems *)

LEMMA StartsTyped == Init => TypeOK
<1> SUFFICES ASSUME Init PROVE TypeOK
    OBVIOUS
<1>1. 0 \in 0 .. MaxTerm /\ 0 \in 0 .. MaxSeq /\ 0 \in 0 .. MaxReassign + 1
      BY RecoveryAssumption
<1>2. node \in [Nodes -> NodeRow] BY <1>1 DEF Init, NodeRow, NodeStates
<1>3. graph \in [state : GraphStates, term : 0 .. MaxTerm] BY <1>1 DEF Init, GraphStates
<1>4. witness \in [Peers -> [Peers -> [term : 0 .. MaxTerm, snap : Snapshot \cup {NoSnap}]]]
      BY <1>1 DEF Init, Unseen
<1>5. pub \in [Publishers ->
          [step : {"read", "posted", "verified"}, to : Peers, vec : Vector, seq : 0 .. MaxSeq]
            \cup {NoPub}] BY DEF Init
<1> QED BY <1>1, <1>2, <1>3, <1>4, <1>5 DEF Init, TypeOK, Lease!Init

\* Every behaviour keeps every variable in its type: a step of the coordinator,
\* the replica worker, the failover worker or a peer stores only what its
\* readers expect; a task shown as pending was never tried.
THEOREM TypeCorrect == Spec => []TypeOK
<1>1. TypeOK /\ UNCHANGED vars => TypeOK'
      BY DEF TypeOK, vars, leaseVars, graphVars, pubVars, readVars, planVars
<1>2. TypeOK /\ [Next]_vars => TypeOK' BY <1>1, TypeStep
<1> QED BY <1>2, StartsTyped, PTL DEF Spec

\* The inductive invariant of recovery.
RecoveryInv == TypeOK /\ OrderInv /\ TermInv /\ QuorumInv /\ RecoveredInv

LEMMA RecoveryStarts == Init => RecoveryInv
<1> SUFFICES ASSUME Init PROVE RecoveryInv
    OBVIOUS
<1>1. TypeOK BY StartsTyped
<1>2. OrderInv
  <2>1. Published = {} BY DEF Init, Published
  <2>2. \A p \in Publishers : pub[p].step = "idle" BY DEF Init, NoPub
  <2> QED BY <2>1, <2>2 DEF Init, OrderInv, NumberedInv, OrderedInv, CurrentInv, ReadingInv,
                            VerifiedInv, AcksInv
<1>3. TermInv
  BY DEF Init, TermInv, HolderInv, OwnerInv, LateInv, BusyInv, Lease!Init, Unseen
<1>4. QuorumInv /\ RecoveredInv
  <2>1. \A j \in Jobs : ~Started(j) BY DEF Init, Started, Idle
  <2> QED BY <2>1 DEF QuorumInv, RecoveredInv
<1> QED BY <1>1, <1>2, <1>3, <1>4 DEF RecoveryInv

LEMMA RecoveryStep == ASSUME QuietPublish, RecoveryInv, [Next]_vars PROVE RecoveryInv'
<1> USE DEF RecoveryInv
<1>1. CASE Next
  BY <1>1, TypeStep, OrderStep, HolderStep, LateStep, BusyStep, QuorumStep, RecoveredStep DEF TermInv
<1>2. CASE UNCHANGED vars
  <2> USE <1>2 DEF vars, leaseVars, graphVars, pubVars, readVars, planVars
  <2>1. TypeOK' BY DEF TypeOK
  <2>2. OrderInv' BY DEF OrderInv, NumberedInv, OrderedInv, CurrentInv, ReadingInv, VerifiedInv,
                         AcksInv, Published
  <2>3. TermInv' BY DEF TermInv, HolderInv, OwnerInv, LateInv, BusyInv, Late
  <2>4. QuorumInv' BY DEF QuorumInv, Started, JobOf, Aware, Knows
  <2>5. RecoveredInv' BY DEF RecoveredInv, Started, JobOf
  <2> QED BY <2>1, <2>2, <2>3, <2>4, <2>5
<1> QED BY <1>1, <1>2

\* As long as no other capture runs between the two statements of one, a job
\* only ever exists once a majority of the roster durably holds the intent of
\* this very attempt, through lost, late and reordered checkpoints, lapsed
\* leases, aged acknowledgments and crashes of the leader.
THEOREM IntentDurable == ASSUME QuietPublish PROVE Spec => []IntentReplicated
<1>1. RecoveryInv => IntentReplicated
  <2> SUFFICES ASSUME RecoveryInv, NEW j \in Jobs, jobs[j] # "none"
               PROVE  {Source} \cup {x \in Peers : Knows(x, j)} \in Majorities
      BY DEF IntentReplicated
  <2>1. {Source} \cup Aware(j) \in Majorities BY DEF RecoveryInv, QuorumInv, Started
  <2>2. {Source} \cup Aware(j) \subseteq {Source} \cup {x \in Peers : Knows(x, j)} BY DEF Aware
  <2>3. {Source} \cup {x \in Peers : Knows(x, j)} \in SUBSET Members BY RecoveryAssumption DEF Peers
  <2> QED BY <2>1, <2>2, <2>3, MajorityGrows
<1>2. RecoveryInv /\ [Next]_vars => RecoveryInv' BY RecoveryStep
<1> QED BY <1>1, <1>2, RecoveryStarts, PTL DEF Spec

\* Under the same condition, no installation ever registers a recovered copy of
\* a graph of which a task became, or is about to become, a job.
THEOREM RecoverySafe == ASSUME QuietPublish PROVE Spec => []NoDoubleExecution
<1>1. RecoveryInv => NoDoubleExecution
      BY DEF RecoveryInv, RecoveredInv, Started, NoDoubleExecution
<1>2. RecoveryInv /\ [Next]_vars => RecoveryInv' BY RecoveryStep
<1> QED BY <1>1, <1>2, RecoveryStarts, PTL DEF Spec

\* However many plans an operator arms for one source, an installation
\* registers at most one copy of the graph.
THEOREM OneCopy == Spec => []OneCopyPerInstallation
<1>1. Init => TypeOK /\ CopyInv BY StartsTyped DEF Init, CopyInv, NoWork
<1>2. TypeOK /\ CopyInv /\ [Next]_vars => (TypeOK /\ CopyInv)'
  <2>1. TypeOK /\ CopyInv /\ Next => (TypeOK /\ CopyInv)' BY TypeStep, CopyStep
  <2>2. TypeOK /\ CopyInv /\ UNCHANGED vars => (TypeOK /\ CopyInv)'
    BY DEF TypeOK, CopyInv, vars, leaseVars, graphVars, pubVars, readVars, planVars
  <2> QED BY <2>1, <2>2
<1>3. TypeOK /\ CopyInv => OneCopyPerInstallation BY DEF CopyInv, OneCopyPerInstallation
<1> QED BY <1>1, <1>2, <1>3, PTL DEF Spec
=============================================================================

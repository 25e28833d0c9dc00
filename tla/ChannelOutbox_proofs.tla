------------------------ MODULE ChannelOutbox_proofs ------------------------
(***************************************************************************)
(* Proofs about ChannelOutbox, for any number of messages and attempts and  *)
(* any size of a batch.                                                     *)
(***************************************************************************)
EXTENDS ChannelOutbox, FiniteSetTheorems, TLAPS

-----------------------------------------------------------------------------
(* The invariant *)

\* What has happened to the requests for m: none has left or all came to
\* nothing, one reached the provider, or one is on its way.
Clean(m) == taken[m] = 0 /\ m \notin wire
Once(m)  == taken[m] = 1 /\ m \notin wire
Away(m)  == taken[m] = 0 /\ m \in wire

RowInv ==
    \A m \in Msgs :
        /\ Clean(m) \/ Once(m) \/ Away(m)
        /\ row[m].state \in {"absent", "queued", "failed", "cancelled"} => Clean(m)
        /\ row[m].state = "sent" => Once(m)
        /\ row[m].state = "purged" => Clean(m) \/ Once(m)

PassInv ==
    /\ ~up => pass = NoPass
    /\ pass = NoPass => cur = Idle
    /\ cur # Idle => cur.msg \in pass.rows /\ pass.adapter
    /\ \A m \in pass.rows : row[m].state = "sending" /\ (m # cur.msg => Clean(m))

CurInv ==
    cur # Idle =>
        /\ cur.outcome = "none" <=> cur.step = "sending"
        /\ cur.step \in {"sent", "unrecorded"} => cur.outcome = "sent"
        /\ cur.step = "sending" => Away(cur.msg) \/ Once(cur.msg)
        /\ cur.outcome = "sent" => Once(cur.msg)
        /\ cur.outcome \in {"retry", "permanent"} => Clean(cur.msg)

AttemptInv ==
    /\ \A m \in Msgs :
        /\ tries[m] <= row[m].attempt
        /\ row[m].state = "absent" => row[m].attempt = 0
        /\ row[m].state = "queued" => row[m].attempt = tries[m] /\ row[m].attempt < MaxAttempts
    /\ \A m \in pass.rows :
        /\ m # cur.msg => row[m].attempt = tries[m] + 1
        /\ m = cur.msg /\ cur.outcome # "permanent" => row[m].attempt = tries[m]

SendInv == RowInv /\ PassInv /\ CurInv /\ AttemptInv

LEMMA SomeAttempt == MaxAttempts \in Nat /\ 0 < MaxAttempts /\ 0 \in 0 .. MaxAttempts
<1>1. MaxAttempts \in Nat \ {0} BY OutboxAssumption
<1> QED BY <1>1

LEMMA NoMessage == NoMsg \notin Msgs /\ Idle.msg = NoMsg /\ NoCheck.msg = NoMsg
BY OutboxAssumption DEF Idle, NoCheck

\* What a step changes one row to.
LEMMA RowSet ==
    ASSUME TypeOK, NEW m \in Msgs, NEW r \in Rows, row' = [row EXCEPT ![m] = r]
    PROVE  row' \in [Msgs -> Rows] /\ row'[m] = r /\ \A x \in Msgs \ {m} : row'[x] = row[x]
BY DEF TypeOK

\* Steps that neither send nor change a row.
LEMMA SendFrame ==
    ASSUME SendInv, UNCHANGED <<up, row, pass, cur, wire, tries, taken>>
    PROVE  SendInv'
<1>1. RowInv' BY DEF SendInv, RowInv, Clean, Once, Away
<1>2. PassInv' BY DEF SendInv, PassInv, Clean
<1>3. CurInv' BY DEF SendInv, CurInv, Clean, Once, Away
<1>4. AttemptInv' BY DEF SendInv, AttemptInv
<1> QED BY <1>1, <1>2, <1>3, <1>4 DEF SendInv

LEMMA NumberTypes ==
    ASSUME TypeOK
    PROVE  /\ MaxAttempts \in Nat
           /\ \A m \in Msgs : /\ tries[m] \in Nat /\ taken[m] \in Nat
                              /\ row[m].attempt \in 0 .. MaxAttempts /\ row[m].attempt \in Nat
<1>1. MaxAttempts \in Nat BY OutboxAssumption
<1>2. ASSUME NEW m \in Msgs
      PROVE  tries[m] \in Nat /\ taken[m] \in Nat /\ row[m].attempt \in 0 .. MaxAttempts
  <2>1. row[m] \in Rows BY DEF TypeOK
  <2>2. row[m].attempt \in 0 .. MaxAttempts BY <2>1 DEF Rows
  <2>3. tries[m] \in Nat /\ taken[m] \in Nat BY DEF TypeOK
  <2> QED BY <2>2, <2>3
<1>3. \A k \in 0 .. MaxAttempts : k \in Nat BY <1>1
<1> QED BY <1>1, <1>2, <1>3

LEMMA CurType ==
    ASSUME TypeOK, cur # Idle
    PROVE  /\ cur \in [msg : Msgs, step : {"sending", "sent", "unrecorded", "done"}, outcome : Outcomes]
           /\ cur.msg \in Msgs
BY DEF TypeOK

\* Rows outside a pass that move without being sent.
LEMMA QuietRow ==
    ASSUME TypeOK, SendInv, NEW m \in Msgs, m \notin pass.rows, NEW r \in Rows,
           row' = [row EXCEPT ![m] = r],
           UNCHANGED <<up, pass, cur, wire, tries, taken>>,
           r.attempt = row[m].attempt,
           \/ r.state = row[m].state
           \/ r.state \in {"queued", "cancelled"} /\ row[m].state \in {"absent", "queued"}
    PROVE  SendInv'
<1> USE DEF SendInv
<1>1. row' \in [Msgs -> Rows] /\ row'[m] = r /\ \A x \in Msgs \ {m} : row'[x] = row[x] BY RowSet
<1>2. RowInv' BY <1>1 DEF RowInv, Clean, Once, Away
<1>3. PassInv' BY <1>1 DEF PassInv, Clean, TypeOK
<1>4. CurInv' BY <1>1 DEF CurInv, Clean, Once, Away
<1>5. AttemptInv'
  <2>1. \A x \in Msgs :
        /\ tries[x] <= row'[x].attempt
        /\ row'[x].state = "absent" => row'[x].attempt = 0
        /\ row'[x].state = "queued" => row'[x].attempt = tries[x] /\ row'[x].attempt < MaxAttempts
    <3>0. /\ tries[m] <= row[m].attempt
          /\ row[m].state = "absent" => row[m].attempt = 0
          /\ row[m].state = "queued" => row[m].attempt = tries[m] /\ row[m].attempt < MaxAttempts
          BY DEF AttemptInv
    <3>1. row[m].state \in {"absent", "queued"} => row[m].attempt = tries[m]
      <4>1. tries[m] \in Nat /\ row[m].attempt \in Nat BY NumberTypes
      <4> QED BY <3>0, <4>1
    <3>2. row[m].state \in {"absent", "queued"} => row[m].attempt < MaxAttempts
          BY <3>0, SomeAttempt
    <3>3. TAKE x \in Msgs
    <3>4. CASE x = m
      <4>1. row'[m].attempt = row[m].attempt /\ row'[m].state = r.state BY <1>1
      <4>2. r.state \in {"absent", "queued"} => row[m].state \in {"absent", "queued"} OBVIOUS
      <4> QED BY <3>0, <3>1, <3>2, <3>4, <4>1, <4>2
    <3>5. CASE x # m BY <1>1, <3>5 DEF AttemptInv
    <3> QED BY <3>4, <3>5
  <2>2. \A x \in pass.rows : row'[x] = row[x] BY <1>1 DEF TypeOK
  <2> QED BY <2>1, <2>2 DEF AttemptInv
<1> QED BY <1>2, <1>3, <1>4, <1>5

\* Updates of the fields of a row.
LEMMA RowEdit ==
    ASSUME NEW r \in Rows, NEW s \in RowStates, NEW d \in BOOLEAN
    PROVE  /\ [r EXCEPT !.state = s] \in Rows
           /\ [r EXCEPT !.state = s].state = s /\ [r EXCEPT !.state = s].attempt = r.attempt
           /\ [r EXCEPT !.due = d] \in Rows
           /\ [r EXCEPT !.due = d].state = r.state /\ [r EXCEPT !.due = d].attempt = r.attempt
           /\ [r EXCEPT !.state = s, !.due = d] \in Rows
           /\ [r EXCEPT !.state = s, !.due = d].state = s
           /\ [r EXCEPT !.state = s, !.due = d].attempt = r.attempt
BY DEF Rows

\* The number of rows inserted before one.
LEMMA BornType == Cardinality(Msgs \ In({"absent"})) \in Nat
BY OutboxAssumption, FS_Difference, FS_CardinalityType
-----------------------------------------------------------------------------
(* Rows outside a pass *)

LEMMA EnqueueStep == ASSUME TypeOK, SendInv, NEW m \in Msgs, Enqueue(m) PROVE TypeOK' /\ SendInv'
<1> DEFINE r == [state |-> "queued", attempt |-> 0, due |-> TRUE,
                 born |-> Cardinality(Msgs \ In({"absent"}))]
<1>0. 0 \in 0 .. MaxAttempts BY SomeAttempt
<1>1. r \in Rows BY BornType, <1>0 DEF Rows, RowStates
<1>2. r.state = "queued" /\ r.attempt = 0 OBVIOUS
<1>3. row' = [row EXCEPT ![m] = r] /\ row[m].state = "absent"
      /\ UNCHANGED <<up, loaded, ledger, marked, drainVars, providerVars, inboundVars>>
      BY DEF Enqueue
<1> HIDE DEF r
<1>4. m \notin pass.rows /\ row[m].attempt = 0 BY <1>3 DEF SendInv, PassInv, AttemptInv
<1>5. row' \in [Msgs -> Rows] BY <1>1, <1>3, RowSet
<1>6. TypeOK' BY <1>3, <1>5 DEF TypeOK, drainVars, providerVars, inboundVars
<1>7. SendInv' BY <1>1, <1>2, <1>3, <1>4, QuietRow DEF drainVars, providerVars
<1> QED BY <1>6, <1>7

LEMMA CancelStep == ASSUME TypeOK, SendInv, NEW m \in Msgs, Cancel(m) PROVE TypeOK' /\ SendInv'
<1> DEFINE r == [row[m] EXCEPT !.state = "cancelled"]
<1>1. row[m] \in Rows BY DEF TypeOK
<1>2. r \in Rows /\ r.state = "cancelled" /\ r.attempt = row[m].attempt
      BY <1>1, RowEdit DEF RowStates
<1>3. row' = [row EXCEPT ![m] = r] /\ row[m].state = "queued"
      /\ UNCHANGED <<up, loaded, ledger, marked, drainVars, providerVars, inboundVars>>
      BY DEF Cancel
<1> HIDE DEF r
<1>4. m \notin pass.rows BY <1>3 DEF SendInv, PassInv
<1>5. row' \in [Msgs -> Rows] BY <1>2, <1>3, RowSet
<1>6. TypeOK' BY <1>3, <1>5 DEF TypeOK, drainVars, providerVars, inboundVars
<1>7. SendInv' BY <1>2, <1>3, <1>4, QuietRow DEF drainVars, providerVars
<1> QED BY <1>6, <1>7

LEMMA DueStep == ASSUME TypeOK, SendInv, NEW m \in Msgs, Due(m) PROVE TypeOK' /\ SendInv'
<1> DEFINE r == [row[m] EXCEPT !.due = TRUE]
<1>1. row[m] \in Rows BY DEF TypeOK
<1>2. r \in Rows /\ r.state = row[m].state /\ r.attempt = row[m].attempt
      BY <1>1, RowEdit DEF RowStates
<1>3. row' = [row EXCEPT ![m] = r] /\ row[m].state = "queued"
      /\ UNCHANGED <<up, loaded, ledger, marked, drainVars, providerVars, inboundVars>>
      BY DEF Due
<1> HIDE DEF r
<1>4. m \notin pass.rows BY <1>3 DEF SendInv, PassInv
<1>5. row' \in [Msgs -> Rows] BY <1>2, <1>3, RowSet
<1>6. TypeOK' BY <1>3, <1>5 DEF TypeOK, drainVars, providerVars, inboundVars
<1>7. SendInv' BY <1>2, <1>3, <1>4, QuietRow DEF drainVars, providerVars
<1> QED BY <1>6, <1>7

LEMMA PurgeStep == ASSUME TypeOK, SendInv, Purge PROVE TypeOK' /\ SendInv'
<1>1. \A m \in Msgs : row[m].state \notin {"sending", "needs_reconciliation"} BY DEF Purge, In
<1>2. UNCHANGED <<up, loaded, ledger, marked, drainVars, providerVars, inboundVars>> BY DEF Purge
<1>3. ASSUME NEW m \in Msgs
      PROVE  /\ row'[m] \in Rows /\ row'[m].attempt = row[m].attempt
             /\ row'[m].state = "purged" \/ (row[m].state = "absent" /\ row'[m] = row[m])
  <2>1. row[m] \in Rows BY DEF TypeOK
  <2>2. row'[m] = IF row[m].state = "absent" THEN row[m] ELSE [row[m] EXCEPT !.state = "purged"]
        BY DEF Purge
  <2>3. [row[m] EXCEPT !.state = "purged"] \in Rows
        /\ [row[m] EXCEPT !.state = "purged"].state = "purged"
        /\ [row[m] EXCEPT !.state = "purged"].attempt = row[m].attempt
        BY <2>1, RowEdit DEF RowStates
  <2> QED BY <2>1, <2>2, <2>3
<1>4. row' \in [Msgs -> Rows] BY <1>3 DEF Purge
<1>5. TypeOK' BY <1>2, <1>4 DEF TypeOK, drainVars, providerVars, inboundVars
<1>6. pass.rows = {} BY <1>1 DEF SendInv, PassInv, TypeOK
<1> USE DEF SendInv, drainVars, providerVars
<1>7. RowInv'
  <2>1. ASSUME NEW m \in Msgs PROVE Clean(m) \/ Once(m)
    <3>1. row[m] \in Rows BY DEF TypeOK
    <3>2. row[m].state \in RowStates BY <3>1 DEF Rows
    <3> QED BY <1>1, <3>2 DEF RowInv, RowStates
  <2> QED BY <1>2, <1>3, <2>1 DEF RowInv, Clean, Once, Away
<1>8. PassInv' BY <1>2, <1>6 DEF PassInv
<1>9. CurInv' BY <1>2 DEF CurInv, Clean, Once, Away
<1>10. AttemptInv' BY <1>2, <1>3, <1>6 DEF AttemptInv
<1> QED BY <1>5, <1>7, <1>8, <1>9, <1>10
-----------------------------------------------------------------------------
(* The pass *)

LEMMA LeftRows ==
    ASSUME TypeOK, NEW m \in pass.rows
    PROVE  /\ Left(m) \in [rows : SUBSET Msgs, adapter : BOOLEAN]
           /\ Left(m).rows = pass.rows \ {m}
           /\ m \in Msgs
<1>1. m \in Msgs /\ pass.rows \subseteq Msgs BY DEF TypeOK
<1>2. CASE pass.rows = {m} BY <1>1, <1>2 DEF Left, NoPass
<1>3. CASE pass.rows # {m}
  <2>1. Left(m) = [pass EXCEPT !.rows = @ \ {m}] BY <1>3 DEF Left
  <2> QED BY <1>1, <2>1 DEF TypeOK
<1> QED BY <1>2, <1>3

\* The row a pass is at leaves the pass.
LEMMA LeaveRow ==
    ASSUME TypeOK, SendInv, NEW m \in pass.rows, NEW r \in Rows, cur = Idle \/ cur.msg = m,
           up, row' = [row EXCEPT ![m] = r], pass' = Left(m), cur' = Idle,
           UNCHANGED <<up, wire, tries, taken>>,
           r.state \in {"queued", "failed", "sent", "needs_reconciliation"},
           r.state \in {"queued", "failed"} => Clean(m),
           r.state = "sent" => Once(m),
           tries[m] <= r.attempt,
           r.state = "queued" => r.attempt = tries[m] /\ r.attempt < MaxAttempts
    PROVE  SendInv'
<1>0. m \in Msgs /\ pass'.rows = pass.rows \ {m} BY LeftRows
<1>1. row'[m] = r /\ \A x \in Msgs \ {m} : row'[x] = row[x] BY <1>0, RowSet
<1>2. \A x \in Msgs : Clean(x)' = Clean(x) /\ Once(x)' = Once(x) /\ Away(x)' = Away(x)
      BY DEF Clean, Once, Away
<1>3. \A x \in pass'.rows : x \in Msgs /\ x # m /\ x # cur.msg
  <2>1. TAKE x \in pass'.rows
  <2>2. x \in Msgs /\ x # m BY <1>0 DEF TypeOK
  <2>3. cur = Idle => x # cur.msg BY <2>2, NoMessage
  <2> QED BY <2>2, <2>3
<1>4. RowInv' BY <1>0, <1>1, <1>2 DEF SendInv, RowInv
<1>5. PassInv'
  <2>1. \A x \in pass'.rows : row'[x].state = "sending" /\ Clean(x)
        BY <1>0, <1>1, <1>3 DEF SendInv, PassInv
  <2>2. up' BY DEF SendInv
  <2> QED BY <1>2, <1>3, <2>1, <2>2 DEF PassInv
<1>6. CurInv' BY DEF CurInv
<1>7. AttemptInv'
  <2>1. \A x \in Msgs :
        /\ tries[x] <= row'[x].attempt
        /\ row'[x].state = "absent" => row'[x].attempt = 0
        /\ row'[x].state = "queued" => row'[x].attempt = tries[x] /\ row'[x].attempt < MaxAttempts
    <3>1. TAKE x \in Msgs
    <3>2. CASE x = m
      <4>1. row'[x].attempt = r.attempt /\ row'[x].state = r.state BY <1>1, <3>2
      <4>2. r.state # "absent" OBVIOUS
      <4> QED BY <3>2, <4>1, <4>2
    <3>3. CASE x # m BY <1>1, <3>3 DEF SendInv, AttemptInv
    <3> QED BY <3>2, <3>3
  <2>2. \A x \in pass'.rows : row'[x].attempt = tries[x] + 1 /\ x # cur'.msg
    <3>1. TAKE x \in pass'.rows
    <3>2. x \in pass.rows /\ row'[x] = row[x] /\ x # cur.msg BY <1>0, <1>1, <1>3
    <3>3. cur'.msg = NoMsg BY DEF Idle
    <3>4. x # cur'.msg BY <3>3, <1>3, OutboxAssumption
    <3> QED BY <3>2, <3>4 DEF SendInv, AttemptInv
  <2>3. tries' = tries OBVIOUS
  <2> QED BY <2>1, <2>2, <2>3 DEF AttemptInv
<1> QED BY <1>4, <1>5, <1>6, <1>7 DEF SendInv

LEMMA ClaimBatchStep ==
    ASSUME TypeOK, SendInv, NEW S \in SUBSET Msgs, ClaimBatch(S) PROVE TypeOK' /\ SendInv'
<1>0. /\ up /\ cur = Idle /\ pass = NoPass
      /\ \A m \in S : row[m].state = "queued"
      /\ row' = [m \in Msgs |-> IF m \in S
                                THEN [row[m] EXCEPT !.state = "sending", !.attempt = @ + 1]
                                ELSE row[m]]
      /\ pass' = [rows |-> S, adapter |-> loaded]
      /\ UNCHANGED <<up, loaded, ledger, marked, cur, providerVars, inboundVars>>
      BY DEF ClaimBatch, Between, Ready
<1>1. ASSUME NEW m \in S
      PROVE  /\ row'[m] \in Rows /\ row'[m].state = "sending"
             /\ row'[m].attempt = tries[m] + 1 /\ tries[m] <= row'[m].attempt
             /\ Clean(m) /\ m # NoMsg
  <2>1. m \in Msgs /\ m # NoMsg BY OutboxAssumption
  <2>2. row[m].attempt = tries[m] /\ row[m].attempt < MaxAttempts BY <1>0, <2>1 DEF SendInv, AttemptInv
  <2>3. tries[m] \in Nat /\ row[m].attempt \in Nat /\ MaxAttempts \in Nat BY <2>1, NumberTypes
  <2>4. row[m].attempt + 1 \in 0 .. MaxAttempts BY <2>2, <2>3
  <2>5. row[m] \in Rows BY <2>1 DEF TypeOK
  <2>6. row'[m] = [row[m] EXCEPT !.state = "sending", !.attempt = row[m].attempt + 1]
        BY <1>0, <2>1
  <2>7. row'[m] \in Rows /\ row'[m].state = "sending" /\ row'[m].attempt = row[m].attempt + 1
    <3> DEFINE a == row[m].attempt + 1
    <3>1. a \in 0 .. MaxAttempts /\ "sending" \in RowStates /\ TRUE \in BOOLEAN BY <2>4 DEF RowStates
    <3>2. row'[m] = [row[m] EXCEPT !.state = "sending", !.attempt = a] BY <2>6
    <3> HIDE DEF a
    <3>3. row'[m] \in Rows /\ row'[m].state = "sending" /\ row'[m].attempt = a
          BY <2>5, <3>1, <3>2 DEF Rows
    <3> QED BY <3>3 DEF a
  <2>8. Clean(m) BY <1>0, <2>1 DEF SendInv, RowInv
  <2>9. tries[m] <= tries[m] + 1 BY <2>3
  <2> QED BY <2>1, <2>2, <2>7, <2>8, <2>9
<1>2. \A m \in Msgs \ S : row'[m] = row[m] BY <1>0
<1>3. row' \in [Msgs -> Rows] BY <1>0, <1>1, <1>2 DEF TypeOK
<1>4. pass' \in [rows : SUBSET Msgs, adapter : BOOLEAN] /\ pass'.rows = S BY <1>0 DEF TypeOK
<1>5. TypeOK' BY <1>0, <1>3, <1>4 DEF TypeOK, providerVars, inboundVars
<1>6. \A x \in Msgs : Clean(x)' = Clean(x) /\ Once(x)' = Once(x) /\ Away(x)' = Away(x)
      BY <1>0 DEF Clean, Once, Away, providerVars
<1>7. RowInv' BY <1>1, <1>2, <1>6 DEF SendInv, RowInv
<1>8. PassInv' BY <1>0, <1>1, <1>4, <1>6 DEF PassInv
<1>9. CurInv' BY <1>0 DEF CurInv
<1>10. AttemptInv'
  <2>1. \A x \in Msgs :
        /\ tries[x] <= row'[x].attempt
        /\ row'[x].state = "absent" => row'[x].attempt = 0
        /\ row'[x].state = "queued" => row'[x].attempt = tries[x] /\ row'[x].attempt < MaxAttempts
    <3>1. TAKE x \in Msgs
    <3>2. CASE x \in S BY <1>1, <3>2
    <3>3. CASE x \notin S BY <1>2, <3>3 DEF SendInv, AttemptInv
    <3> QED BY <3>2, <3>3
  <2>2. tries' = tries /\ cur'.msg = NoMsg BY <1>0 DEF providerVars, Idle
  <2> QED BY <1>1, <1>4, <2>1, <2>2 DEF AttemptInv
<1> QED BY <1>5, <1>7, <1>8, <1>9, <1>10 DEF SendInv

LEMMA ReleaseClaimStep ==
    ASSUME TypeOK, SendInv, NEW m \in Msgs, ReleaseClaim(m) PROVE TypeOK' /\ SendInv'
<1> DEFINE a == IF row[m].attempt > 0 THEN row[m].attempt - 1 ELSE 0
           r == [row[m] EXCEPT !.state = "queued", !.due = FALSE, !.attempt = a]
<1>1. /\ cur = Idle /\ m \in pass.rows /\ pass' = Left(m)
      /\ UNCHANGED <<up, loaded, ledger, marked, cur, providerVars, inboundVars>>
      BY DEF ReleaseClaim, First
<1>2. row' = [row EXCEPT ![m] = r]
  <2>1. row' = [row EXCEPT ![m].state = "queued", ![m].due = FALSE,
                           ![m].attempt = IF @ > 0 THEN @ - 1 ELSE 0] BY DEF ReleaseClaim
  <2>2. row[m] \in Rows BY DEF TypeOK
  <2> QED BY <2>1, <2>2 DEF TypeOK, Rows
<1>3. up BY <1>1 DEF SendInv, PassInv, NoPass
<1>4. a = tries[m] /\ a < MaxAttempts /\ a \in 0 .. MaxAttempts /\ tries[m] <= a
  <2>1. row[m].attempt = tries[m] + 1 BY <1>1, NoMessage DEF SendInv, AttemptInv
  <2>2. tries[m] \in Nat /\ MaxAttempts \in Nat /\ row[m].attempt \in 0 .. MaxAttempts BY NumberTypes
  <2>3. tries[m] + 1 <= MaxAttempts BY <2>1, <2>2
  <2>4. a = tries[m] BY <2>1, <2>2
  <2> QED BY <2>2, <2>3, <2>4
<1>5. Clean(m) BY <1>1, NoMessage DEF SendInv, PassInv
<1> HIDE DEF a
<1>6. r \in Rows /\ r.state = "queued" /\ r.attempt = a
  <2>1. row[m] \in Rows BY DEF TypeOK
  <2> QED BY <1>4, <2>1 DEF Rows, RowStates
<1> HIDE DEF r
<1>7. row' \in [Msgs -> Rows] BY <1>2, <1>6, RowSet
<1>8. TypeOK' BY <1>1, <1>7, LeftRows DEF TypeOK, providerVars, inboundVars
<1>9. SendInv'
  <2>1. UNCHANGED <<up, wire, tries, taken>> /\ cur' = Idle BY <1>1 DEF providerVars
  <2>2. tries[m] <= r.attempt /\ r.attempt = tries[m] /\ r.attempt < MaxAttempts BY <1>4, <1>6
  <2> QED BY <1>1, <1>2, <1>3, <1>5, <1>6, <2>1, <2>2, LeaveRow
<1> QED BY <1>8, <1>9

\* The pass is at m: how its handling of m goes on is all that changes.
LEMMA CurStep ==
    ASSUME TypeOK, SendInv, cur # Idle, cur' # Idle, cur'.msg = cur.msg,
           cur'.outcome = "permanent" \/ cur.outcome # "permanent",
           UNCHANGED <<up, row, pass, wire, tries, taken>>, CurInv'
    PROVE  SendInv'
<1>1. RowInv' BY DEF SendInv, RowInv, Clean, Once, Away
<1>2. PassInv' BY DEF SendInv, PassInv, Clean
<1>3. AttemptInv' BY DEF SendInv, AttemptInv
<1> QED BY <1>1, <1>2, <1>3 DEF SendInv

LEMMA UnreadableStep ==
    ASSUME TypeOK, SendInv, NEW m \in Msgs, Unreadable(m) PROVE TypeOK' /\ SendInv'
<1>1. /\ cur = Idle /\ m \in pass.rows /\ pass.adapter
      /\ cur' = [msg |-> m, step |-> "done", outcome |-> "permanent"]
      /\ UNCHANGED <<up, loaded, storeVars, pass, providerVars, inboundVars>>
      BY DEF Unreadable, First
<1>2. TypeOK' BY <1>1 DEF TypeOK, storeVars, providerVars, inboundVars, Outcomes
<1>3. Clean(m) BY <1>1, NoMessage DEF SendInv, PassInv
<1>4. \A x \in Msgs : Clean(x)' = Clean(x) /\ Once(x)' = Once(x) /\ Away(x)' = Away(x)
      BY <1>1 DEF Clean, Once, Away, providerVars
<1> USE DEF SendInv, storeVars, providerVars
<1>5. cur'.msg = m /\ cur'.outcome = "permanent" /\ cur'.step = "done" BY <1>1
<1>6. RowInv' BY <1>1, <1>4 DEF RowInv
<1>7. \A x \in pass.rows : x \in Msgs /\ x # cur.msg BY <1>1, NoMessage DEF TypeOK
<1>8. PassInv'
  <2>1. \A x \in pass'.rows : row'[x].state = "sending" /\ Clean(x)' BY <1>1, <1>4, <1>7 DEF PassInv
  <2>2. pass' # NoPass BY <1>1 DEF NoPass
  <2>3. up' BY <1>1, <2>2 DEF PassInv
  <2> QED BY <1>1, <1>5, <2>1, <2>2, <2>3 DEF PassInv
<1>9. CurInv' BY <1>3, <1>4, <1>5 DEF CurInv
<1>10. AttemptInv' BY <1>1, <1>5, <1>7 DEF AttemptInv
<1> QED BY <1>2, <1>6, <1>8, <1>9, <1>10

LEMMA SendStartStep ==
    ASSUME TypeOK, SendInv, NEW m \in Msgs, SendStart(m) PROVE TypeOK' /\ SendInv'
<1>1. /\ cur = Idle /\ m \in pass.rows /\ pass.adapter
      /\ cur' = [msg |-> m, step |-> "sending", outcome |-> "none"]
      /\ wire' = wire \cup {m} /\ tries' = [tries EXCEPT ![m] = @ + 1]
      /\ UNCHANGED <<up, loaded, storeVars, pass, taken, echoes, over, inboundVars>>
      BY DEF SendStart, First
<1>2. Clean(m) /\ row[m].attempt = tries[m] + 1 /\ row[m].state = "sending"
      BY <1>1, NoMessage DEF SendInv, PassInv, AttemptInv
<1>3. tries[m] \in Nat /\ tries \in [Msgs -> Nat] BY DEF TypeOK
<1>4. tries' \in [Msgs -> Nat] BY <1>1, <1>3
<1>5. TypeOK' BY <1>1, <1>4 DEF TypeOK, storeVars, inboundVars, Outcomes
<1>6. Away(m)' /\ \A x \in Msgs \ {m} : /\ Clean(x)' = Clean(x) /\ Once(x)' = Once(x)
                                       /\ Away(x)' = Away(x)
      BY <1>1, <1>2 DEF Clean, Once, Away
<1> USE DEF SendInv, storeVars
<1>7. cur'.msg = m /\ cur'.outcome = "none" /\ cur'.step = "sending" BY <1>1
<1>8. RowInv' BY <1>1, <1>2, <1>6 DEF RowInv
<1>9. \A x \in pass.rows : x \in Msgs /\ x # cur.msg BY <1>1, NoMessage DEF TypeOK
<1>10. PassInv'
  <2>1. \A x \in pass'.rows : row'[x].state = "sending" /\ (x # m => Clean(x)')
        BY <1>1, <1>6, <1>9 DEF PassInv
  <2>2. pass' # NoPass BY <1>1 DEF NoPass
  <2>3. up' BY <1>1, <2>2 DEF PassInv
  <2> QED BY <1>1, <1>7, <2>1, <2>2, <2>3 DEF PassInv
<1>11. CurInv' BY <1>6, <1>7 DEF CurInv
<1>12. AttemptInv'
  <2>1. tries'[m] = row[m].attempt /\ \A x \in Msgs \ {m} : tries'[x] = tries[x]
        BY <1>1, <1>2, <1>3
  <2>2. row' = row /\ pass' = pass BY <1>1
  <2>3. tries'[m] <= row[m].attempt
    <3>1. row[m].attempt \in Nat BY NumberTypes
    <3> QED BY <2>1, <3>1
  <2>4. ASSUME NEW x \in Msgs
        PROVE  /\ tries'[x] <= row[x].attempt
               /\ row[x].state = "absent" => row[x].attempt = 0
               /\ row[x].state = "queued" => row[x].attempt = tries'[x] /\ row[x].attempt < MaxAttempts
    <3>1. CASE x = m BY <1>2, <2>3, <3>1
    <3>2. CASE x # m BY <2>1, <3>2 DEF AttemptInv
    <3> QED BY <3>1, <3>2
  <2>5. ASSUME NEW x \in pass.rows
        PROVE  (x # m => row[x].attempt = tries'[x] + 1) /\ (x = m => row[x].attempt = tries'[x])
    <3>1. CASE x = m BY <2>1, <3>1
    <3>2. CASE x # m
      <4>1. tries'[x] = tries[x] BY <1>9, <2>1, <3>2
      <4>2. row[x].attempt = tries[x] + 1 BY <1>9 DEF AttemptInv
      <4> QED BY <3>2, <4>1, <4>2
    <3> QED BY <3>1, <3>2
  <2> QED BY <1>7, <2>2, <2>4, <2>5 DEF AttemptInv
<1> QED BY <1>5, <1>8, <1>10, <1>11, <1>12

LEMMA SendEndsStep ==
    ASSUME TypeOK, SendInv, NEW o \in Outcomes, SendEnds(o) PROVE TypeOK' /\ SendInv'
<1>0. cur # Idle BY DEF SendEnds, Idle
<1>m. PICK m \in Msgs : m = cur.msg BY <1>0, CurType
<1>1. /\ cur.step = "sending" /\ o # "none"
      /\ o = "sent" => m \notin wire
      /\ o \in {"retry", "permanent"} => m \in wire
      /\ wire' = IF o \in {"retry", "permanent"} THEN wire \ {m} ELSE wire
      /\ cur' = [cur EXCEPT !.step = IF o = "sent" THEN "sent" ELSE "done", !.outcome = o]
      /\ UNCHANGED <<up, loaded, storeVars, pass, tries, taken, echoes, over, inboundVars>>
      BY <1>m DEF SendEnds
<1>3. m \in Msgs /\ cur \in [msg : Msgs, step : {"sending", "sent", "unrecorded", "done"}, outcome : Outcomes]
      BY <1>0, CurType
<1>4. /\ cur'.msg = m /\ cur'.outcome = o
      /\ cur'.step = IF o = "sent" THEN "sent" ELSE "done"
      /\ cur' \in [msg : Msgs, step : {"sending", "sent", "unrecorded", "done"}, outcome : Outcomes]
      BY <1>1, <1>3, <1>m
<1>5. TypeOK' BY <1>1, <1>4 DEF TypeOK, storeVars, inboundVars
<1> USE DEF SendInv, storeVars
<1>6. (Away(m) \/ Once(m)) /\ cur.outcome = "none" BY <1>0, <1>1, <1>m DEF CurInv
<1>7. /\ o = "sent" => Once(m)'
      /\ o \in {"retry", "permanent"} => Clean(m)'
      /\ Clean(m)' \/ Once(m)' \/ Away(m)'
      /\ \A x \in Msgs \ {m} : Clean(x)' = Clean(x) /\ Once(x)' = Once(x) /\ Away(x)' = Away(x)
      BY <1>1, <1>6 DEF Clean, Once, Away
<1>8. m \in pass.rows /\ row[m].state = "sending" /\ pass.adapter BY <1>0, <1>m DEF PassInv
<1>9. RowInv' BY <1>1, <1>7, <1>8 DEF RowInv
<1>10. PassInv'
  <2>1. \A x \in pass.rows : x \in Msgs BY DEF TypeOK
  <2>2. \A x \in pass'.rows : row'[x].state = "sending" /\ (x # m => Clean(x)')
        BY <1>1, <1>7, <1>m, <2>1 DEF PassInv
  <2>3. pass' # NoPass BY <1>1, <1>8 DEF NoPass
  <2>4. up' BY <1>1, <2>3 DEF PassInv
  <2> QED BY <1>1, <1>4, <1>8, <2>2, <2>3, <2>4 DEF PassInv
<1>11. CurInv' BY <1>1, <1>4, <1>7 DEF CurInv
<1>12. AttemptInv' BY <1>1, <1>4, <1>6, <1>m DEF AttemptInv
<1> QED BY <1>5, <1>9, <1>10, <1>11, <1>12

\* The id is recorded, or it is not and the account is marked, or not even that.
LEMMA AfterSendStep ==
    ASSUME TypeOK, SendInv,
           RecordEcho \/ RecordEchoFails \/ SentWithoutId
           \/ \E fails \in BOOLEAN : MarkDegraded(fails)
    PROVE  TypeOK' /\ SendInv'
<1>1. /\ cur.step \in {"sent", "unrecorded"}
      /\ cur' = [cur EXCEPT !.step = "unrecorded"] \/ cur' = [cur EXCEPT !.step = "done"]
      /\ UNCHANGED <<up, loaded, row, pass, providerVars, check, answered>>
      BY DEF RecordEcho, RecordEchoFails, SentWithoutId, MarkDegraded, storeVars, inboundVars
<1>2. cur # Idle BY <1>1 DEF Idle
<1>3. cur.msg \in Msgs /\ cur \in [msg : Msgs, step : {"sending", "sent", "unrecorded", "done"}, outcome : Outcomes]
      BY <1>2, CurType
<1>4. /\ cur'.msg = cur.msg /\ cur'.outcome = cur.outcome /\ cur'.step \in {"unrecorded", "done"}
      /\ cur' \in [msg : Msgs, step : {"sending", "sent", "unrecorded", "done"}, outcome : Outcomes]
      BY <1>1, <1>3
<1>5. cur.outcome = "sent" /\ Once(cur.msg) BY <1>1, <1>2 DEF SendInv, CurInv
<1>6. ledger' \in [Msgs -> Nat] /\ marked' \subseteq Msgs /\ lost' \subseteq Msgs
  <2>1. CASE RecordEcho
    <3>1. marked' = marked /\ lost' = lost BY <2>1 DEF RecordEcho, inboundVars
    <3>2. ledger \in [Msgs -> Nat] BY DEF TypeOK
    <3>3. ledger' \in [Msgs -> Nat] BY <2>1, <3>2 DEF RecordEcho
    <3> QED BY <3>1, <3>3 DEF TypeOK
  <2>2. CASE RecordEchoFails \/ SentWithoutId
        BY <1>3, <2>2 DEF RecordEchoFails, SentWithoutId, storeVars, inboundVars, TypeOK
  <2>3. CASE \E fails \in BOOLEAN : MarkDegraded(fails)
        BY <1>3, <2>3 DEF MarkDegraded, TypeOK
  <2> QED BY <2>1, <2>2, <2>3
<1>7. TypeOK' BY <1>1, <1>4, <1>6 DEF TypeOK, providerVars
<1>8. CurInv' BY <1>1, <1>4, <1>5 DEF CurInv, Once, providerVars
<1>9. SendInv'
  <2>1. cur' # Idle BY <1>4 DEF Idle
  <2>2. UNCHANGED <<up, row, pass, wire, tries, taken>> BY <1>1 DEF providerVars
  <2> QED BY <1>2, <1>4, <1>5, <1>8, <2>1, <2>2, CurStep
<1> QED BY <1>7, <1>9

LEMMA CompleteStep == ASSUME TypeOK, SendInv, Complete PROVE TypeOK' /\ SendInv'
<1>0. cur # Idle BY DEF Complete, Idle
<1>m. PICK m \in Msgs : m = cur.msg BY <1>0, CurType
<1> DEFINE s == NextState(row[m], cur.outcome)
           r == [row[m] EXCEPT !.state = s, !.due = FALSE]
<1>1. /\ cur.step = "done" /\ pass' = Left(m) /\ cur' = Idle
      /\ UNCHANGED <<up, loaded, ledger, marked, providerVars, inboundVars>>
      BY <1>m DEF Complete
<1>2. row[m] \in Rows /\ row \in [Msgs -> Rows] BY DEF TypeOK
<1>3. row' = [row EXCEPT ![m] = r]
  <2>1. row' = [row EXCEPT ![m].state = s, ![m].due = FALSE] BY <1>m DEF Complete
  <2> HIDE DEF s
  <2> QED BY <2>1, <1>2 DEF Rows
<1>4. cur.outcome \in Outcomes \ {"none"}
  <2>1. cur.outcome \in Outcomes BY <1>0, CurType
  <2>2. cur.outcome # "none" BY <1>0, <1>1 DEF SendInv, CurInv
  <2> QED BY <2>1, <2>2
<1>5. /\ s \in {"queued", "failed", "sent", "needs_reconciliation"}
      /\ s = "queued" => cur.outcome = "retry" /\ ~(row[m].attempt >= MaxAttempts)
      /\ s = "failed" => cur.outcome \in {"retry", "permanent"}
      /\ s = "sent" => cur.outcome = "sent"
  <2>1. CASE cur.outcome = "sent" BY <2>1 DEF NextState
  <2>2. CASE cur.outcome = "permanent" BY <2>2 DEF NextState
  <2>3. CASE cur.outcome = "unknown" BY <2>3 DEF NextState
  <2>4. CASE cur.outcome = "retry" BY <2>4 DEF NextState
  <2> QED BY <1>4, <2>1, <2>2, <2>3, <2>4 DEF Outcomes
<1> HIDE DEF s
<1>6. r \in Rows /\ r.state = s /\ r.attempt = row[m].attempt BY <1>2, <1>5 DEF Rows, RowStates
<1> HIDE DEF r
<1>7. m \in pass.rows /\ up BY <1>0, <1>m DEF SendInv, PassInv, NoPass
<1>8. s \in {"queued", "failed"} => Clean(m) BY <1>0, <1>5, <1>m DEF SendInv, CurInv
<1>9. s = "sent" => Once(m) BY <1>0, <1>5, <1>m DEF SendInv, CurInv
<1>10. tries[m] <= r.attempt /\ (s = "queued" => r.attempt = tries[m] /\ r.attempt < MaxAttempts)
  <2>1. tries[m] <= row[m].attempt BY DEF SendInv, AttemptInv
  <2>2. s = "queued" => row[m].attempt = tries[m] BY <1>5, <1>7, <1>m DEF SendInv, AttemptInv
  <2>3. row[m].attempt \in Nat /\ MaxAttempts \in Nat BY NumberTypes
  <2>4. ~(row[m].attempt >= MaxAttempts) => row[m].attempt < MaxAttempts BY <2>3
  <2> QED BY <1>5, <1>6, <2>1, <2>2, <2>4
<1>11. row' \in [Msgs -> Rows] BY <1>3, <1>6, RowSet
<1>12. TypeOK' BY <1>1, <1>7, <1>11, LeftRows DEF TypeOK, providerVars, inboundVars
<1>13. SendInv'
  <2>1. UNCHANGED <<up, wire, tries, taken>> BY <1>1 DEF providerVars
  <2> QED BY <1>1, <1>3, <1>5, <1>6, <1>7, <1>8, <1>9, <1>10, <1>m, <2>1, LeaveRow
<1> QED BY <1>12, <1>13

\* A pass ends before it handled every row it had claimed.
LEMMA PassEnds ==
    ASSUME SendInv, pass' = NoPass, cur' = Idle, UNCHANGED <<row, wire, tries, taken>>
    PROVE  SendInv'
<1>1. RowInv' BY DEF SendInv, RowInv, Clean, Once, Away
<1>2. PassInv' BY DEF PassInv, NoPass
<1>3. CurInv' BY DEF CurInv
<1>4. AttemptInv' BY DEF SendInv, AttemptInv, NoPass
<1> QED BY <1>1, <1>2, <1>3, <1>4 DEF SendInv

LEMMA PassFailsStep == ASSUME TypeOK, SendInv, PassFails PROVE TypeOK' /\ SendInv'
<1>1. pass' = NoPass /\ cur' = Idle /\ UNCHANGED <<up, loaded, storeVars, providerVars, inboundVars>>
      BY DEF PassFails
<1>2. TypeOK' BY <1>1 DEF TypeOK, storeVars, providerVars, inboundVars, NoPass
<1>3. SendInv' BY <1>1, PassEnds DEF storeVars, providerVars
<1> QED BY <1>2, <1>3

LEMMA CrashStep == ASSUME TypeOK, SendInv, Crash PROVE TypeOK' /\ SendInv'
<1>1. /\ up' = FALSE /\ pass' = NoPass /\ cur' = Idle /\ check' = NoCheck
      /\ echoes' = echoes \cup ({check.msg} \ {NoMsg})
      /\ UNCHANGED <<loaded, storeVars, wire, tries, taken, over, answered, lost>>
      BY DEF Crash
<1>2. {check.msg} \ {NoMsg} \subseteq Msgs BY NoMessage DEF TypeOK
<1>3. TypeOK' BY <1>1, <1>2 DEF TypeOK, storeVars, NoPass
<1>4. SendInv' BY <1>1, PassEnds DEF storeVars
<1> QED BY <1>3, <1>4

LEMMA RestartStep ==
    ASSUME TypeOK, SendInv, NEW fails \in BOOLEAN, Restart(fails) PROVE TypeOK' /\ SendInv'
<1>1. /\ ~up /\ up' = TRUE
      /\ UNCHANGED <<loaded, ledger, marked, drainVars, providerVars, inboundVars>>
      /\ row' = row \/ row' = [m \in Msgs |-> Parked(row[m])]
      BY DEF Restart
<1>2. pass = NoPass /\ cur = Idle BY <1>1 DEF SendInv, PassInv
<1>3. ASSUME NEW m \in Msgs
      PROVE  /\ row'[m] \in Rows /\ row'[m].attempt = row[m].attempt
             /\ row'[m].state = row[m].state \/ row'[m].state = "needs_reconciliation"
  <2>1. row[m] \in Rows BY DEF TypeOK
  <2>2. row'[m] = row[m] \/ row'[m] = [row[m] EXCEPT !.state = "needs_reconciliation"]
        BY <1>1 DEF Parked
  <2>3. /\ [row[m] EXCEPT !.state = "needs_reconciliation"] \in Rows
        /\ [row[m] EXCEPT !.state = "needs_reconciliation"].attempt = row[m].attempt
        /\ [row[m] EXCEPT !.state = "needs_reconciliation"].state = "needs_reconciliation"
        BY <2>1, RowEdit DEF RowStates
  <2> QED BY <2>1, <2>2, <2>3
<1>4. row' \in [Msgs -> Rows] BY <1>1, <1>3 DEF TypeOK
<1>5. TypeOK' BY <1>1, <1>4 DEF TypeOK, drainVars, providerVars, inboundVars
<1> USE DEF SendInv, drainVars, providerVars
<1>6. RowInv' BY <1>1, <1>3 DEF RowInv, Clean, Once, Away
<1>7. PassInv' BY <1>1, <1>2 DEF PassInv, NoPass
<1>8. CurInv' BY <1>1, <1>2 DEF CurInv
<1>9. AttemptInv' BY <1>1, <1>2, <1>3 DEF AttemptInv, NoPass
<1> QED BY <1>5, <1>6, <1>7, <1>8, <1>9
-----------------------------------------------------------------------------
(* The provider, and the steps that leave sending alone *)

LEMMA ProviderTakesStep ==
    ASSUME TypeOK, SendInv, NEW m \in Msgs, ProviderTakes(m) PROVE TypeOK' /\ SendInv'
<1>1. /\ m \in wire /\ wire' = wire \ {m} /\ taken' = [taken EXCEPT ![m] = @ + 1]
      /\ UNCHANGED <<up, loaded, storeVars, drainVars, tries, echoes, over, inboundVars>>
      BY DEF ProviderTakes
<1>2. taken \in [Msgs -> Nat] /\ taken[m] \in Nat BY DEF TypeOK
<1>3. taken' \in [Msgs -> Nat] BY <1>1, <1>2
<1>4. TypeOK' BY <1>1, <1>3 DEF TypeOK, storeVars, drainVars, inboundVars
<1>5. Away(m) BY <1>1 DEF SendInv, RowInv, Clean, Once, Away
<1>6. Once(m)' BY <1>1, <1>2, <1>5 DEF Once, Away
<1>7. \A x \in Msgs \ {m} : Clean(x)' = Clean(x) /\ Once(x)' = Once(x) /\ Away(x)' = Away(x)
      BY <1>1, <1>2 DEF Clean, Once, Away
<1>8. ~Clean(m) /\ ~Once(m) BY <1>1 DEF Clean, Once
<1> USE DEF SendInv, storeVars, drainVars
<1>9. RowInv' BY <1>1, <1>6, <1>7, <1>8 DEF RowInv
<1>10. PassInv'
  <2>1. \A x \in pass.rows : x \in Msgs BY DEF TypeOK
  <2>2. \A x \in pass.rows : x # cur.msg => Clean(x)' BY <1>7, <1>8, <2>1 DEF PassInv
  <2> QED BY <1>1, <2>2 DEF PassInv
<1>11. CurInv'
  <2>1. CASE cur = Idle BY <1>1, <2>1 DEF CurInv
  <2>2. CASE cur # Idle
    <3>1. cur.msg \in Msgs BY <2>2, CurType
    <3>2. CASE cur.msg = m BY <1>1, <1>6, <1>8, <2>2, <3>2 DEF CurInv
    <3>3. CASE cur.msg # m BY <1>1, <1>7, <2>2, <3>1, <3>3 DEF CurInv
    <3> QED BY <3>2, <3>3
  <2> QED BY <2>1, <2>2
<1>12. AttemptInv' BY <1>1 DEF AttemptInv
<1> QED BY <1>4, <1>9, <1>10, <1>11, <1>12

LEMMA OtherSteps ==
    ASSUME TypeOK, SendInv,
           \/ Reload \/ PruneEcho \/ CheckRows \/ Decide
           \/ \E m \in Msgs : \/ Elapse(m) \/ ProviderEchoes(m)
                              \/ \E u \in BOOLEAN : CheckMarker(m, u)
    PROVE  TypeOK' /\ SendInv'
<1> USE DEF storeVars, drainVars, providerVars, inboundVars
<1>1. UNCHANGED <<up, row, pass, cur, wire, tries, taken>>
      BY DEF Reload, PruneEcho, CheckRows, Decide, Elapse, ProviderEchoes, CheckMarker
<1>2. SendInv' BY <1>1, SendFrame
<1>3. TypeOK'
  <2>1. CASE Reload BY <2>1 DEF Reload, TypeOK
  <2>2. CASE PruneEcho BY <2>2 DEF PruneEcho, TypeOK
  <2>3. CASE CheckRows
    <3>1. check # NoCheck /\ check.step = "marker" BY <2>3 DEF CheckRows, NoCheck
    <3>2. check \in [msg : Msgs, step : {"marker", "rows"}, narrow : BOOLEAN] BY <3>1 DEF TypeOK
    <3>4. check' \in [msg : Msgs, step : {"marker", "rows"}, narrow : BOOLEAN]
          BY <2>3, <3>2 DEF CheckRows, Unresolved
    <3> QED BY <2>3, <3>4 DEF CheckRows, TypeOK
  <2>4. CASE Decide
    <3>1. check # NoCheck BY <2>4 DEF Decide, NoCheck
    <3>2. check.msg \in Msgs BY <3>1 DEF TypeOK
    <3> QED BY <2>4, <3>2 DEF Decide, TypeOK
  <2>5. ASSUME NEW m \in Msgs, Elapse(m) PROVE TypeOK' BY <2>5 DEF Elapse, TypeOK
  <2>6. ASSUME NEW m \in Msgs, ProviderEchoes(m) PROVE TypeOK' BY <2>6 DEF ProviderEchoes, TypeOK
  <2>7. ASSUME NEW m \in Msgs, NEW u \in BOOLEAN, CheckMarker(m, u) PROVE TypeOK'
        BY <2>7 DEF CheckMarker, TypeOK
  <2> QED BY <2>1, <2>2, <2>3, <2>4, <2>5, <2>6, <2>7
<1> QED BY <1>2, <1>3
-----------------------------------------------------------------------------
(* The first theorems *)

LEMMA SendInit == Init => TypeOK /\ SendInv
<1> SUFFICES ASSUME Init PROVE TypeOK /\ SendInv OBVIOUS
<1> USE DEF Init
<1>1. ASSUME NEW m \in Msgs PROVE row[m] \in Rows /\ row[m].state = "absent" /\ row[m].attempt = 0
      BY SomeAttempt DEF Rows, RowStates
<1>2. TypeOK BY <1>1 DEF TypeOK, NoPass
<1>3. RowInv BY <1>1 DEF RowInv, Clean
<1>4. PassInv BY DEF PassInv, NoPass
<1>5. CurInv BY DEF CurInv
<1>6. AttemptInv BY <1>1 DEF AttemptInv, NoPass
<1> QED BY <1>2, <1>3, <1>4, <1>5, <1>6 DEF SendInv

LEMMA SendStep == TypeOK /\ SendInv /\ [Next]_vars => TypeOK' /\ SendInv'
<1> SUFFICES ASSUME TypeOK, SendInv, [Next]_vars PROVE TypeOK' /\ SendInv' OBVIOUS
<1>1. CASE Drain
      BY <1>1, ClaimBatchStep, ReleaseClaimStep, UnreadableStep, SendStartStep, SendEndsStep,
         AfterSendStep, CompleteStep DEF Drain
<1>2. CASE PassFails BY <1>2, PassFailsStep
<1>3. CASE Purge BY <1>3, PurgeStep
<1>4. CASE Crash BY <1>4, CrashStep
<1>5. CASE \E fails \in BOOLEAN : Restart(fails) BY <1>5, RestartStep
<1>6. CASE Reload \/ PruneEcho \/ CheckRows \/ Decide BY <1>6, OtherSteps
<1>7. CASE \E m \in Msgs : \/ Enqueue(m) \/ Cancel(m) \/ Due(m) \/ Elapse(m)
                           \/ ProviderTakes(m) \/ ProviderEchoes(m)
                           \/ \E u \in BOOLEAN : CheckMarker(m, u)
      BY <1>7, EnqueueStep, CancelStep, DueStep, ProviderTakesStep, OtherSteps
<1>8. CASE UNCHANGED vars
  <2> USE <1>8 DEF vars, storeVars, drainVars, providerVars, inboundVars
  <2>1. SendInv' BY SendFrame
  <2>2. TypeOK' BY DEF TypeOK
  <2> QED BY <2>1, <2>2
<1> QED BY <1>1, <1>2, <1>3, <1>4, <1>5, <1>6, <1>7, <1>8 DEF Next

\* Every variable of the outbox keeps its type: no claim counts an attempt past
\* max_attempts, and no release below none.
THEOREM TypeCorrect == Spec => []TypeOK
<1>1. TypeOK /\ SendInv /\ [Next]_vars => (TypeOK /\ SendInv)' BY SendStep
<1> QED BY <1>1, SendInit, PTL DEF Spec

\* drain_outbox_once, complete_outbox_send and requeue_stuck_sending never let
\* one message reach the provider twice, for any number of messages, attempts,
\* crashes and failed writes.
THEOREM AtMostOnce == Spec => []SentAtMostOnce
<1>1. TypeOK /\ SendInv /\ [Next]_vars => (TypeOK /\ SendInv)' BY SendStep
<1>2. SendInv => SentAtMostOnce
  <2> SUFFICES ASSUME SendInv, NEW m \in Msgs PROVE taken[m] <= 1 BY DEF SentAtMostOnce
  <2>1. taken[m] = 0 \/ taken[m] = 1 BY DEF SendInv, RowInv, Clean, Once, Away
  <2> QED BY <2>1
<1> QED BY <1>1, <1>2, SendInit, PTL DEF Spec

\* What the operator reads off a row is true: a queued, failed or cancelled
\* message did not reach the provider and will not, and a sent one did.
THEOREM RowsTruthful == Spec => []RowTellsTruth
<1>1. TypeOK /\ SendInv /\ [Next]_vars => (TypeOK /\ SendInv)' BY SendStep
<1>2. SendInv => RowTellsTruth BY DEF SendInv, RowInv, RowTellsTruth, Clean, Once
<1> QED BY <1>1, <1>2, SendInit, PTL DEF Spec

\* claim_outbox_batch and release_outbox_claim count requests exactly: a queued
\* row has spent as many attempts as requests were made for it, and there are
\* never more than max_attempts.
THEOREM AttemptsCounted == Spec => []AttemptsAreRequests
<1>1. TypeOK /\ SendInv /\ [Next]_vars => (TypeOK /\ SendInv)' BY SendStep
<1>2. TypeOK /\ SendInv => AttemptsAreRequests
  <2> SUFFICES ASSUME TypeOK, SendInv, NEW m \in Msgs
               PROVE  (row[m].state = "queued" => row[m].attempt = tries[m]) /\ tries[m] <= MaxAttempts
      BY DEF AttemptsAreRequests
  <2>1. tries[m] \in Nat /\ row[m].attempt \in 0 .. MaxAttempts /\ MaxAttempts \in Nat BY NumberTypes
  <2>2. tries[m] <= row[m].attempt /\ (row[m].state = "queued" => row[m].attempt = tries[m])
        BY DEF SendInv, AttemptInv
  <2> QED BY <2>1, <2>2
<1> QED BY <1>1, <1>2, SendInit, PTL DEF Spec
-----------------------------------------------------------------------------
(* Echoes *)

\* The ledger or the marker covers m, or nothing does in time.
Known(m) == ledger[m] # 0 \/ m \in marked \/ m \in lost

\* What reached the provider is unresolved or known, as long as its echo can
\* come.  A check that found no marker is of a message that has none, and once
\* it found no unresolved row either, only the ledger is left to know it.
EchoInv ==
    /\ \A m \in Msgs : taken[m] > 0 /\ m \notin over =>
           row[m].state \in {"sending", "needs_reconciliation"} \/ Known(m)
    /\ cur.step = "done" /\ cur.outcome = "sent" => Known(cur.msg)
    /\ \A m \in echoes : taken[m] > 0 /\ m \notin over
    /\ check # NoCheck => taken[check.msg] > 0 /\ check.msg \notin over
    /\ check # NoCheck /\ ~check.narrow => check.msg \notin marked \/ check.msg \in lost
    /\ check.step = "rows" /\ ~check.narrow => ledger[check.msg] # 0 \/ check.msg \in lost
    /\ answered \subseteq lost

\* Steps that touch only rows: none that leaves the unresolved states was taken
\* unless it is known.
LEMMA RowsMove ==
    ASSUME EchoInv, UNCHANGED <<taken, over, ledger, marked, lost, echoes, check, answered>>,
           \A m \in Msgs : \/ row'[m].state = row[m].state
                           \/ row'[m].state \in {"sending", "needs_reconciliation"}
                           \/ ~(taken[m] > 0) \/ Known(m)
                           \/ row[m].state \notin {"sending", "needs_reconciliation"},
           \/ UNCHANGED cur \/ cur' = Idle
    PROVE  EchoInv'
BY DEF EchoInv, Known, Idle

LEMMA QuietRowsEcho ==
    ASSUME TypeOK, SendInv, EchoInv,
           Purge \/ \E m \in Msgs : Enqueue(m) \/ Cancel(m) \/ Due(m)
    PROVE  EchoInv'
<1> USE DEF storeVars, drainVars, providerVars, inboundVars
<1>1. CASE Purge
  <2>1. UNCHANGED <<taken, over, ledger, marked, lost, echoes, check, answered, cur>> BY <1>1 DEF Purge
  <2>2. \A m \in Msgs : row[m].state \notin {"sending", "needs_reconciliation"} BY <1>1 DEF Purge, In
  <2> QED BY <2>1, <2>2, RowsMove
<1>2. ASSUME NEW m \in Msgs, Enqueue(m) \/ Cancel(m) \/ Due(m) PROVE EchoInv'
  <2>1. UNCHANGED <<taken, over, ledger, marked, lost, echoes, check, answered, cur>>
        BY <1>2 DEF Enqueue, Cancel, Due
  <2>2. row[m].state \notin {"sending", "needs_reconciliation"} BY <1>2 DEF Enqueue, Cancel, Due
  <2>3. \A x \in Msgs \ {m} : row'[x] = row[x]
    <3>1. CASE Enqueue(m) BY <3>1 DEF Enqueue, TypeOK
    <3>2. CASE Cancel(m) BY <3>2 DEF Cancel, TypeOK
    <3>3. CASE Due(m) BY <3>3 DEF Due, TypeOK
    <3> QED BY <1>2, <3>1, <3>2, <3>3
  <2> QED BY <2>1, <2>2, <2>3, RowsMove
<1> QED BY <1>1, <1>2

LEMMA DrainEcho == ASSUME TypeOK, SendInv, EchoInv, Drain \/ PassFails PROVE EchoInv'
<1> USE DEF storeVars, drainVars, providerVars, inboundVars
<1>1. ASSUME NEW S \in SUBSET Msgs, ClaimBatch(S) PROVE EchoInv'
  <2>1. UNCHANGED <<taken, over, ledger, marked, lost, echoes, check, answered, cur>> BY <1>1 DEF ClaimBatch
  <2>2. ASSUME NEW m \in Msgs PROVE row'[m].state = row[m].state \/ row'[m].state = "sending"
    <3>1. row[m] \in Rows BY DEF TypeOK
    <3>2. row'[m] = row[m] \/ row'[m] = [row[m] EXCEPT !.state = "sending", !.attempt = @ + 1]
          BY <1>1 DEF ClaimBatch
    <3> DEFINE a == row[m].attempt + 1
    <3>3. row'[m] = row[m] \/ row'[m] = [row[m] EXCEPT !.state = "sending", !.attempt = a] BY <3>2
    <3> HIDE DEF a
    <3> QED BY <3>1, <3>3 DEF Rows
  <2> QED BY <2>1, <2>2, RowsMove
<1>2. ASSUME NEW m \in Msgs, ReleaseClaim(m) PROVE EchoInv'
  <2>1. UNCHANGED <<taken, over, ledger, marked, lost, echoes, check, answered, cur>> BY <1>2 DEF ReleaseClaim
  <2>2. ~(taken[m] > 0)
    <3>1. Clean(m) BY <1>2, NoMessage DEF ReleaseClaim, First, SendInv, PassInv
    <3> QED BY <3>1 DEF Clean
  <2>3. \A x \in Msgs \ {m} : row'[x] = row[x] BY <1>2 DEF ReleaseClaim, TypeOK
  <2> QED BY <2>1, <2>2, <2>3, RowsMove
<1>3. ASSUME NEW m \in Msgs, Unreadable(m) PROVE EchoInv' BY <1>3 DEF Unreadable, EchoInv, Known
<1>4. ASSUME NEW m \in Msgs, SendStart(m) PROVE EchoInv' BY <1>4 DEF SendStart, EchoInv, Known
<1>5. ASSUME NEW o \in Outcomes, SendEnds(o) PROVE EchoInv'
  <2>1. cur # Idle BY <1>5 DEF SendEnds, Idle
  <2>2. cur \in [msg : Msgs, step : {"sending", "sent", "unrecorded", "done"}, outcome : Outcomes]
        BY <2>1, CurType
  <2>3. (o = "sent" /\ cur'.step = "sent") \/ (cur'.step = "done" /\ cur'.outcome = o /\ o # "sent")
        BY <1>5, <2>2 DEF SendEnds
  <2>4. UNCHANGED <<row, ledger, marked, taken, over, echoes, check, answered, lost>> BY <1>5 DEF SendEnds
  <2> QED BY <2>3, <2>4 DEF EchoInv, Known
<1>6. CASE RecordEcho
  <2>0. cur # Idle /\ cur.step = "sent" BY <1>6 DEF RecordEcho, Idle
  <2>1. PICK m \in Msgs : m = cur.msg BY <2>0, CurType
  <2>2. ledger \in [Msgs -> Nat] BY DEF TypeOK
  <2>3. ledger'[m] # 0 /\ \A x \in Msgs : ledger[x] # 0 => ledger'[x] # 0
    <3>1. CASE ledger[m] # 0 BY <1>6, <2>1, <3>1 DEF RecordEcho
    <3>2. CASE ledger[m] = 0
      <4>1. ledger' = [x \in Msgs |-> IF x = m THEN 1
                                      ELSE IF ledger[x] = 0 THEN 0 ELSE ledger[x] + 1]
            BY <1>6, <2>1, <3>2 DEF RecordEcho
      <4> QED BY <2>2, <4>1
    <3> QED BY <3>1, <3>2
  <2>4. /\ cur'.msg = m /\ cur'.step = "done"
        /\ UNCHANGED <<row, marked, taken, over, echoes, check, answered, lost>>
        BY <1>6, <2>0, <2>1, CurType DEF RecordEcho
  <2>5. check # NoCheck => check.msg \in Msgs BY DEF TypeOK
  <2>6. check.step = "rows" => check # NoCheck BY DEF NoCheck
  <2> QED BY <2>3, <2>4, <2>5, <2>6 DEF EchoInv, Known
<1>7. CASE RecordEchoFails
  <2>s. cur.step = "sent" BY <1>7 DEF RecordEchoFails
  <2>0. cur # Idle BY <2>s DEF Idle
  <2>1. /\ cur'.step = "unrecorded"
        /\ UNCHANGED <<row, ledger, marked, taken, over, echoes, check, answered, lost>>
        BY <1>7, <2>0, CurType DEF RecordEchoFails
  <2> QED BY <2>1 DEF EchoInv, Known
<1>8. ASSUME NEW fails \in BOOLEAN, MarkDegraded(fails) PROVE EchoInv'
  <2>0. cur # Idle BY <1>8 DEF MarkDegraded, Idle
  <2>1. PICK m \in Msgs : m = cur.msg BY <2>0, CurType
  <2>2. /\ cur'.msg = m /\ cur'.step = "done"
        /\ marked' = IF fails THEN marked ELSE marked \cup {m}
        /\ lost' = IF fails \/ CheckedTooEarly(m) THEN lost \cup {m} ELSE lost
        /\ UNCHANGED <<row, ledger, taken, over, echoes, check, answered>>
        BY <1>8, <2>0, <2>1, CurType DEF MarkDegraded
  <2>3. (m \in marked' \/ m \in lost') /\ marked \subseteq marked' /\ lost \subseteq lost' BY <2>2
  <2>4. ~check.narrow => check.msg \notin marked' \ marked \/ check.msg \in lost'
        BY <2>2 DEF CheckedTooEarly
  <2> QED BY <2>2, <2>3, <2>4 DEF EchoInv, Known
<1>w. CASE SentWithoutId
  <2>s. cur.step = "sent" BY <1>w DEF SentWithoutId
  <2>0. cur # Idle BY <2>s DEF Idle
  <2>1. /\ cur'.msg = cur.msg /\ cur'.step = "done" /\ lost' = lost \cup {cur.msg}
        /\ UNCHANGED <<row, ledger, marked, taken, over, echoes, check, answered>>
        BY <1>w, <2>0, CurType DEF SentWithoutId
  <2> QED BY <2>1 DEF EchoInv, Known
<1>9. CASE Complete
  <2>0. cur # Idle /\ cur.step = "done" BY <1>9 DEF Complete, Idle
  <2>1. PICK m \in Msgs : m = cur.msg BY <2>0, CurType
  <2>2. /\ cur' = Idle /\ UNCHANGED <<taken, over, ledger, marked, lost, echoes, check, answered>>
        BY <1>9 DEF Complete
  <2>3. \A x \in Msgs \ {m} : row'[x] = row[x] BY <1>9, <2>1 DEF Complete, TypeOK
  <2>4. row'[m].state = "needs_reconciliation" \/ ~(taken[m] > 0) \/ Known(m)
    <3>1. row[m] \in Rows /\ row \in [Msgs -> Rows] BY DEF TypeOK
    <3>2. row'[m].state = NextState(row[m], cur.outcome)
      <4> DEFINE s == NextState(row[m], cur.outcome)
      <4>1. row' = [row EXCEPT ![m].state = s, ![m].due = FALSE] BY <1>9, <2>1 DEF Complete
      <4> HIDE DEF s
      <4>2. row'[m].state = s BY <3>1, <4>1 DEF Rows
      <4> QED BY <4>2 DEF s
    <3>3. CASE cur.outcome = "sent" BY <2>0, <2>1, <3>3 DEF EchoInv
    <3>4. CASE cur.outcome = "unknown" BY <3>2, <3>4 DEF NextState
    <3>5. CASE cur.outcome \in {"retry", "permanent"}
          BY <2>0, <2>1, <3>5 DEF SendInv, CurInv, Clean
    <3>6. cur.outcome \in {"sent", "unknown", "retry", "permanent"}
      <4>1. cur.outcome \in Outcomes BY <2>0, CurType
      <4>2. cur.outcome # "none" BY <2>0 DEF SendInv, CurInv
      <4> QED BY <4>1, <4>2 DEF Outcomes
    <3> QED BY <3>3, <3>4, <3>5, <3>6
  <2> QED BY <2>2, <2>3, <2>4, RowsMove
<1>10. CASE PassFails BY <1>10 DEF PassFails, EchoInv, Known, Idle
<1> QED BY <1>1, <1>2, <1>3, <1>4, <1>5, <1>6, <1>7, <1>8, <1>w, <1>9, <1>10 DEF Drain

LEMMA CrashEcho ==
    ASSUME TypeOK, SendInv, EchoInv, Crash \/ \E fails \in BOOLEAN : Restart(fails) PROVE EchoInv'
<1> USE DEF storeVars, drainVars, providerVars, inboundVars
<1>1. CASE Crash
  <2>1. /\ cur' = Idle /\ check' = NoCheck /\ echoes' = echoes \cup ({check.msg} \ {NoMsg})
        /\ UNCHANGED <<row, ledger, marked, taken, over, answered, lost>>
        BY <1>1 DEF Crash
  <2>2. \A m \in echoes' : taken[m] > 0 /\ m \notin over BY <2>1, NoMessage DEF EchoInv
  <2>3. check'.step = "idle" /\ cur'.step = "idle" BY <2>1 DEF Idle, NoCheck
  <2> QED BY <2>1, <2>2, <2>3 DEF EchoInv, Known
<1>2. ASSUME NEW fails \in BOOLEAN, Restart(fails) PROVE EchoInv'
  <2>1. UNCHANGED <<taken, over, ledger, marked, lost, echoes, check, answered, cur>> BY <1>2 DEF Restart
  <2>2. ASSUME NEW m \in Msgs
        PROVE  row'[m].state = row[m].state \/ row'[m].state = "needs_reconciliation"
    <3>1. row[m] \in Rows BY DEF TypeOK
    <3>2. row'[m] = row[m] \/ row'[m] = [row[m] EXCEPT !.state = "needs_reconciliation"]
          BY <1>2 DEF Restart, Parked
    <3> QED BY <3>1, <3>2 DEF Rows
  <2> QED BY <2>1, <2>2, RowsMove
<1> QED BY <1>1, <1>2

LEMMA ProviderEcho ==
    ASSUME TypeOK, SendInv, EchoInv,
           \E m \in Msgs : Elapse(m) \/ ProviderTakes(m) \/ ProviderEchoes(m)
    PROVE  EchoInv'
<1> USE DEF storeVars, drainVars, providerVars, inboundVars
<1>1. ASSUME NEW m \in Msgs, Elapse(m) PROVE EchoInv' BY <1>1 DEF Elapse, EchoInv, Known
<1>2. ASSUME NEW m \in Msgs, ProviderEchoes(m) PROVE EchoInv' BY <1>2 DEF ProviderEchoes, EchoInv, Known
<1>3. ASSUME NEW m \in Msgs, ProviderTakes(m) PROVE EchoInv'
  <2>1. row[m].state \in {"sending", "needs_reconciliation"}
    <3>1. m \in wire BY <1>3 DEF ProviderTakes
    <3>2. row[m] \in Rows BY DEF TypeOK
    <3>3. row[m].state \in RowStates BY <3>2 DEF Rows
    <3> QED BY <3>1, <3>3 DEF SendInv, RowInv, Clean, Once, RowStates
  <2>2. /\ taken' = [taken EXCEPT ![m] = @ + 1]
        /\ UNCHANGED <<row, cur, ledger, marked, over, echoes, check, answered, lost>>
        BY <1>3 DEF ProviderTakes
  <2>3. taken \in [Msgs -> Nat] BY DEF TypeOK
  <2>4. \A x \in Msgs : (x # m => taken'[x] = taken[x]) /\ (taken[x] > 0 => taken'[x] > 0)
        BY <2>2, <2>3
  <2>5. \A x \in Msgs : taken'[x] > 0 /\ x \notin over =>
            row[x].state \in {"sending", "needs_reconciliation"} \/ Known(x)
        BY <2>1, <2>4 DEF EchoInv
  <2>6. \A x \in echoes : taken'[x] > 0 BY <2>4 DEF EchoInv, TypeOK
  <2>7. check # NoCheck => taken'[check.msg] > 0
    <3>1. check # NoCheck => check.msg \in Msgs BY DEF TypeOK
    <3> QED BY <2>4, <3>1 DEF EchoInv
  <2> QED BY <2>2, <2>5, <2>6, <2>7 DEF EchoInv, Known
<1> QED BY <1>1, <1>2, <1>3

\* The ledger holds more rows than are ever newer than one.
LEMMA LedgerRoom ==
    ASSUME TypeOK, Cardinality(Msgs) <= MaxLedger, NEW m \in Msgs PROVE ~(NewerRows(m) >= MaxLedger)
<1> DEFINE N == {x \in Msgs : 0 < ledger[x] /\ ledger[x] < ledger[m]}
<1>1. IsFiniteSet(Msgs) /\ MaxLedger \in Nat BY OutboxAssumption
<1>2. IsFiniteSet(Msgs \ {m}) /\ Cardinality(Msgs \ {m}) = Cardinality(Msgs) - 1
      BY <1>1, FS_RemoveElement
<1>3. N \subseteq Msgs \ {m}
  <2>1. ledger[m] \in Nat BY DEF TypeOK
  <2> QED BY <2>1
<1>4. Cardinality(N) <= Cardinality(Msgs \ {m}) /\ IsFiniteSet(N) BY <1>2, <1>3, FS_Subset
<1>5. Cardinality(N) \in Nat /\ Cardinality(Msgs) \in Nat BY <1>1, <1>4, FS_CardinalityType
<1>6. NewerRows(m) = Cardinality(N) BY DEF NewerRows
<1> HIDE DEF N
<1> QED BY <1>1, <1>2, <1>4, <1>5, <1>6

LEMMA InboundEcho ==
    ASSUME TypeOK, SendInv, EchoInv, Cardinality(Msgs) <= MaxLedger,
           \/ Reload \/ PruneEcho \/ CheckRows \/ Decide
           \/ \E m \in Msgs, u \in BOOLEAN : CheckMarker(m, u)
    PROVE  EchoInv'
<1> USE DEF storeVars, drainVars, providerVars, inboundVars
<1>1. CASE Reload BY <1>1 DEF Reload, EchoInv, Known
<1>2. CASE PruneEcho
  <2>1. \A m \in Msgs : m \notin over => ledger'[m] = ledger[m] BY <1>2, LedgerRoom DEF PruneEcho
  <2>2. cur = Idle /\ UNCHANGED <<row, cur, marked, taken, over, echoes, check, answered, lost>>
        BY <1>2 DEF PruneEcho, Between
  <2>3. check # NoCheck => check.msg \in Msgs BY DEF TypeOK
  <2>4. check.step = "rows" => check # NoCheck BY DEF NoCheck
  <2>5. cur.step = "idle" BY <2>2 DEF Idle
  <2>6. check.step = "rows" /\ ~check.narrow => ledger'[check.msg] # 0 \/ check.msg \in lost
        BY <2>1, <2>3, <2>4 DEF EchoInv, Known
  <2> QED BY <2>1, <2>2, <2>5, <2>6 DEF EchoInv, Known
<1>3. CASE CheckRows
  <2>1. check # NoCheck BY <1>3 DEF CheckRows, NoCheck
  <2>2. PICK m \in Msgs : m = check.msg BY <2>1 DEF TypeOK
  <2>3. check \in [msg : Msgs, step : {"marker", "rows"}, narrow : BOOLEAN] BY <2>1 DEF TypeOK
  <2>4. check'.msg = m /\ (~check'.narrow => ~Unresolved /\ ~check.narrow)
        BY <1>3, <2>2, <2>3 DEF CheckRows
  <2>5. UNCHANGED <<row, cur, ledger, marked, taken, over, echoes, answered, lost>> BY <1>3 DEF CheckRows
  <2>6. taken[m] > 0 /\ m \notin over BY <2>1, <2>2 DEF EchoInv
  <2>7. ~Unresolved => Known(m) BY <2>6 DEF EchoInv, Unresolved, In
  <2>8. ~check'.narrow => (m \notin marked \/ m \in lost) /\ (ledger[m] # 0 \/ m \in lost)
        BY <2>1, <2>2, <2>4, <2>7 DEF EchoInv, Known
  <2> QED BY <2>4, <2>5, <2>6, <2>8 DEF EchoInv, Known
<1>4. CASE Decide
  <2>1. /\ check' = NoCheck /\ check'.step = "idle"
        /\ UNCHANGED <<row, cur, ledger, marked, taken, over, echoes, lost>>
        BY <1>4 DEF Decide, NoCheck
  <2>2. answered' \subseteq lost BY <1>4 DEF Decide, EchoInv, Known
  <2> QED BY <2>1, <2>2 DEF EchoInv, Known
<1>5. ASSUME NEW m \in Msgs, NEW u \in BOOLEAN, CheckMarker(m, u) PROVE EchoInv'
  <2>1. /\ m \in echoes /\ check'.msg = m /\ check'.step = "marker" /\ echoes' = echoes \ {m}
        /\ ~check'.narrow => marked \ over = {}
        /\ UNCHANGED <<row, cur, ledger, marked, taken, over, answered, lost>>
        BY <1>5 DEF CheckMarker
  <2>2. m \notin over BY <2>1 DEF EchoInv
  <2>3. ~check'.narrow => m \notin marked BY <2>1, <2>2
  <2> QED BY <2>1, <2>3 DEF EchoInv, Known
<1> QED BY <1>1, <1>2, <1>3, <1>4, <1>5

\* accept_channel_envelope_with never answers a message of the account's own
\* whose id or marker was written in time, as long as the ledger has room for
\* the messages.
THEOREM EchoIgnored == ASSUME Cardinality(Msgs) <= MaxLedger PROVE Spec => []OwnEchoIgnored
<1>1. Init => EchoInv
      BY DEF Init, EchoInv, Idle, NoCheck
<1>2. TypeOK /\ SendInv /\ EchoInv /\ [Next]_vars => EchoInv'
  <2> SUFFICES ASSUME TypeOK, SendInv, EchoInv, [Next]_vars PROVE EchoInv' OBVIOUS
  <2>1. CASE Drain \/ PassFails BY <2>1, DrainEcho
  <2>2. CASE Purge \/ \E m \in Msgs : Enqueue(m) \/ Cancel(m) \/ Due(m) BY <2>2, QuietRowsEcho
  <2>3. CASE Crash \/ \E fails \in BOOLEAN : Restart(fails) BY <2>3, CrashEcho
  <2>4. CASE \E m \in Msgs : Elapse(m) \/ ProviderTakes(m) \/ ProviderEchoes(m)
        BY <2>4, ProviderEcho
  <2>5. CASE \/ Reload \/ PruneEcho \/ CheckRows \/ Decide
             \/ \E m \in Msgs, u \in BOOLEAN : CheckMarker(m, u)
        BY <2>5, InboundEcho
  <2>6. CASE UNCHANGED vars
        BY <2>6 DEF vars, storeVars, drainVars, providerVars, inboundVars, EchoInv, Known
  <2> QED BY <2>1, <2>2, <2>3, <2>4, <2>5, <2>6 DEF Next
<1>3. EchoInv => OwnEchoIgnored BY DEF EchoInv, OwnEchoIgnored
<1>4. TypeOK /\ SendInv /\ EchoInv /\ [Next]_vars => (TypeOK /\ SendInv /\ EchoInv)'
      BY <1>2, SendStep
<1> QED BY <1>1, <1>3, <1>4, SendInit, PTL DEF Spec
=============================================================================

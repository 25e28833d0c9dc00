---------------------------- MODULE ChannelOutbox ----------------------------
(***************************************************************************)
(* The outbox of a messaging account and the ledger by which the account    *)
(* recognises its own messages when the provider echoes them back           *)
(* (daemon/channel_store.rs, channel_worker.rs, channel_adapter.rs and the  *)
(* first part of channel_ingress.rs).                                       *)
(*                                                                         *)
(* The supervisor claims a batch of queued rows, then for each row sends    *)
(* the message, writes the provider's id for it to the ledger and completes *)
(* the row, in transactions of their own.  Meanwhile the account's inbound  *)
(* task decides what comes in.  One account, of a transport that reports    *)
(* the provider's ids, open to everyone; everything that comes in is an     *)
(* echo, from a sender nobody approved.                                     *)
(*                                                                         *)
(* The provider is external: a request reaches it once or never, perhaps    *)
(* long after its sender died, and an outcome says what channels/types.rs   *)
(* says it means.  An echo comes back within the retention of the ledger.   *)
(***************************************************************************)
EXTENDS Integers, FiniteSets

CONSTANTS
    Msgs,         \* outbox rows, one per idempotency key
    NoMsg,
    MaxAttempts,  \* max_attempts of a row
    Batch,        \* OUTBOX_BATCH
    MaxLedger,    \* ECHO_MAX_ROWS_PER_ACCOUNT
    Inputs        \* what happens in this instance

ASSUME OutboxAssumption ==
    /\ IsFiniteSet(Msgs) /\ NoMsg \notin Msgs
    /\ MaxAttempts \in Nat \ {0} /\ Batch \in Nat \ {0} /\ MaxLedger \in Nat
    /\ Inputs \subseteq {"crash", "cancel", "purge", "disable", "unreadable", "fail", "echo fails",
                   "no id"}

RowStates == {"absent", "queued", "sending", "sent", "failed", "needs_reconciliation",
              "cancelled", "purged"}
Outcomes  == {"none", "sent", "retry", "permanent", "unknown"}
Rows      == [state : RowStates, attempt : 0 .. MaxAttempts, due : BOOLEAN, born : Nat]
Settled   == {"sent", "failed", "needs_reconciliation", "cancelled", "purged"}

VARIABLES
    up,        \* the daemon runs
    loaded,    \* the account's adapter is loaded
    row,       \* channel_outbox
    pass,      \* drain_outbox_once: rows claimed and not handled yet, and its adapter
    cur,       \* the row it is handling
    ledger,    \* channel_outbound_echo: 0, or how recent the entry is (1: the newest)
    marked,    \* messages the echo-degraded marker was written for
    wire,      \* requests on their way to the provider
    tries,     \* requests made for a message
    taken,     \* how often the provider took it
    echoes,    \* echoes on their way back
    over,      \* messages whose retention has passed
    check,     \* the echo the inbound task is deciding
    answered,  \* own messages a run was accepted for
    lost       \* messages no evidence of the account's covers in time

storeVars    == <<row, ledger, marked>>
drainVars    == <<pass, cur>>
providerVars == <<wire, tries, taken, echoes, over>>
inboundVars  == <<check, answered, lost>>
vars == <<up, loaded, storeVars, drainVars, providerVars, inboundVars>>

NoPass  == [rows |-> {}, adapter |-> FALSE]
Idle    == [msg |-> NoMsg, step |-> "idle", outcome |-> "none"]
NoCheck == [msg |-> NoMsg, step |-> "idle", narrow |-> FALSE]

\* The values every variable can take.
TypeOK ==
    /\ up \in BOOLEAN /\ loaded \in BOOLEAN
    /\ row \in [Msgs -> Rows]
    /\ pass \in [rows : SUBSET Msgs, adapter : BOOLEAN]
    /\ cur \in [msg : Msgs, step : {"sending", "sent", "unrecorded", "done"}, outcome : Outcomes]
               \cup {Idle}
    /\ ledger \in [Msgs -> Nat] /\ marked \subseteq Msgs
    /\ wire \subseteq Msgs /\ tries \in [Msgs -> Nat] /\ taken \in [Msgs -> Nat]
    /\ echoes \subseteq Msgs /\ over \subseteq Msgs
    /\ check \in [msg : Msgs, step : {"marker", "rows"}, narrow : BOOLEAN] \cup {NoCheck}
    /\ answered \subseteq Msgs /\ lost \subseteq Msgs

Init ==
    /\ up = TRUE /\ loaded = TRUE
    /\ row = [m \in Msgs |-> [state |-> "absent", attempt |-> 0, due |-> FALSE, born |-> 0]]
    /\ pass = NoPass /\ cur = Idle
    /\ ledger = [m \in Msgs |-> 0] /\ marked = {}
    /\ wire = {} /\ tries = [m \in Msgs |-> 0] /\ taken = [m \in Msgs |-> 0]
    /\ echoes = {} /\ over = {}
    /\ check = NoCheck /\ answered = {} /\ lost = {}

In(states) == {m \in Msgs : row[m].state \in states}
-----------------------------------------------------------------------------
(* Rows: enqueue_channel_message, cancel, purge, the clock *)

\* A second insert under the same key changes nothing.
Enqueue(m) ==
    /\ row[m].state = "absent"
    /\ row' = [row EXCEPT ![m] = [state |-> "queued", attempt |-> 0, due |-> TRUE,
                                  born |-> Cardinality(Msgs \ In({"absent"}))]]
    /\ UNCHANGED <<up, loaded, ledger, marked, drainVars, providerVars, inboundVars>>

Cancel(m) ==
    /\ "cancel" \in Inputs /\ row[m].state = "queued"
    /\ row' = [row EXCEPT ![m].state = "cancelled"]
    /\ UNCHANGED <<up, loaded, ledger, marked, drainVars, providerVars, inboundVars>>

\* The conversation is deleted, not while a send is unresolved; the ledger stays.
Purge ==
    /\ "purge" \in Inputs /\ In({"sending", "needs_reconciliation"}) = {}
    /\ row' = [m \in Msgs |-> IF row[m].state = "absent" THEN row[m]
                              ELSE [row[m] EXCEPT !.state = "purged"]]
    /\ UNCHANGED <<up, loaded, ledger, marked, drainVars, providerVars, inboundVars>>

\* next_attempt_at_ms is reached.
Due(m) ==
    /\ row[m].state = "queued" /\ ~row[m].due
    /\ row' = [row EXCEPT ![m].due = TRUE]
    /\ UNCHANGED <<up, loaded, ledger, marked, drainVars, providerVars, inboundVars>>

\* A day after m was taken: no echo of it comes any more.
Elapse(m) ==
    /\ m \notin over /\ taken[m] > 0
    /\ m \notin wire \cup echoes /\ check.msg # m /\ cur.msg # m
    /\ over' = over \cup {m}
    /\ UNCHANGED <<up, loaded, storeVars, drainVars, wire, tries, taken, echoes, inboundVars>>
-----------------------------------------------------------------------------
(* The provider *)

ProviderTakes(m) ==
    /\ m \in wire
    /\ wire' = wire \ {m} /\ taken' = [taken EXCEPT ![m] = @ + 1]
    /\ UNCHANGED <<up, loaded, storeVars, drainVars, tries, echoes, over, inboundVars>>

\* An echo may be delivered more than once.
ProviderEchoes(m) ==
    /\ taken[m] > 0 /\ m \notin over \cup echoes
    /\ echoes' = echoes \cup {m}
    /\ UNCHANGED <<up, loaded, storeVars, drainVars, wire, tries, taken, over, inboundVars>>
-----------------------------------------------------------------------------
(* The supervisor: reload, claim_outbox_batch, drain_outbox_once *)

Between == up /\ pass = NoPass /\ cur = Idle

\* The operator disables or enables the account; a reload notices.
Reload ==
    /\ "disable" \in Inputs /\ Between
    /\ loaded' = ~loaded
    /\ UNCHANGED <<up, storeVars, drainVars, providerVars, inboundVars>>

\* How many rows of the ledger are newer than m's.
NewerRows(m) == Cardinality({x \in Msgs : 0 < ledger[x] /\ ledger[x] < ledger[m]})

\* prune_outbound_echo, on the reload tick: by age, then by count.
PruneEcho ==
    /\ Between
    /\ ledger' = [m \in Msgs |-> IF m \in over \/ NewerRows(m) >= MaxLedger THEN 0 ELSE ledger[m]]
    /\ UNCHANGED <<up, loaded, row, marked, drainVars, providerVars, inboundVars>>

\* mutant: a row that was tried before is never ready again.
Ready_FirstTime == {m \in Msgs : row[m].state = "queued" /\ row[m].due /\ row[m].attempt = 0}

\* Queued, and its time has come.
Ready == {m \in Msgs : row[m].state = "queued" /\ row[m].due}

\* The oldest ready rows, at most Batch of them, each counting an attempt.
ClaimBatch(S) ==
    /\ Between /\ S # {} /\ S \subseteq Ready
    /\ Cardinality(S) = Batch \/ (Cardinality(S) < Batch /\ S = Ready)
    /\ \A s \in S, d \in Ready \ S : row[s].born <= row[d].born
    /\ row' = [m \in Msgs |-> IF m \in S
                              THEN [row[m] EXCEPT !.state = "sending", !.attempt = @ + 1]
                              ELSE row[m]]
    /\ pass' = [rows |-> S, adapter |-> loaded]
    /\ UNCHANGED <<up, loaded, ledger, marked, cur, providerVars, inboundVars>>

First(m) == cur = Idle /\ m \in pass.rows /\ \A x \in pass.rows : row[m].born <= row[x].born

Left(m) == IF pass.rows = {m} THEN NoPass ELSE [pass EXCEPT !.rows = @ \ {m}]

\* mutant: the attempt the claim counted is not handed back.
ReleaseClaim_Spent(m) ==
    /\ First(m) /\ ~pass.adapter
    /\ row' = [row EXCEPT ![m].state = "queued", ![m].due = FALSE]
    /\ pass' = Left(m)
    /\ UNCHANGED <<up, loaded, ledger, marked, cur, providerVars, inboundVars>>

\* release_outbox_claim: no adapter, so nothing was tried.
ReleaseClaim(m) ==
    /\ First(m) /\ ~pass.adapter
    /\ row' = [row EXCEPT ![m].state = "queued", ![m].due = FALSE,
                          ![m].attempt = IF @ > 0 THEN @ - 1 ELSE 0]
    /\ pass' = Left(m)
    /\ UNCHANGED <<up, loaded, ledger, marked, cur, providerVars, inboundVars>>

\* A payload that does not parse is a permanent failure; nothing is sent.
Unreadable(m) ==
    /\ "unreadable" \in Inputs /\ First(m) /\ pass.adapter
    /\ cur' = [msg |-> m, step |-> "done", outcome |-> "permanent"]
    /\ UNCHANGED <<up, loaded, storeVars, pass, providerVars, inboundVars>>

\* adapter.send: the request leaves ...
SendStart(m) ==
    /\ First(m) /\ pass.adapter
    /\ cur' = [msg |-> m, step |-> "sending", outcome |-> "none"]
    /\ wire' = wire \cup {m} /\ tries' = [tries EXCEPT ![m] = @ + 1]
    /\ UNCHANGED <<up, loaded, storeVars, pass, taken, echoes, over, inboundVars>>

\* ... and its outcome comes back: a failure that is said to be safe to retry,
\* or permanent, did not reach the provider; an unknown one may still.
SendEnds(o) ==
    LET m == cur.msg IN
    /\ cur.step = "sending" /\ o \in Outcomes \ {"none"}
    /\ o = "sent" => m \notin wire
    /\ o \in {"retry", "permanent"} => m \in wire
    /\ wire' = IF o \in {"retry", "permanent"} THEN wire \ {m} ELSE wire
    /\ cur' = [cur EXCEPT !.step = IF o = "sent" THEN "sent" ELSE "done", !.outcome = o]
    /\ UNCHANGED <<up, loaded, storeVars, pass, tries, taken, echoes, over, inboundVars>>

\* record_outbound_echo, before the row is completed.
RecordEcho ==
    LET m == cur.msg IN
    /\ cur.step = "sent"
    /\ ledger' = IF ledger[m] # 0 THEN ledger
                 ELSE [x \in Msgs |-> IF x = m THEN 1
                                      ELSE IF ledger[x] = 0 THEN 0 ELSE ledger[x] + 1]
    /\ cur' = [cur EXCEPT !.step = "done"]
    /\ UNCHANGED <<up, loaded, row, marked, pass, providerVars, inboundVars>>

\* The id could not be written, which is only said aloud ...
RecordEchoFails ==
    /\ "echo fails" \in Inputs /\ cur.step = "sent"
    /\ cur' = [cur EXCEPT !.step = "unrecorded"]
    /\ UNCHANGED <<up, loaded, storeVars, pass, providerVars, inboundVars>>

\* The inbound task is past the marker with this echo, and found none.
CheckedTooEarly(m) == check.msg = m /\ ~check.narrow

\* ... and marked on the account, unless that write fails too.
MarkDegraded(fails) ==
    /\ cur.step = "unrecorded"
    /\ marked' = IF fails THEN marked ELSE marked \cup {cur.msg}
    /\ lost' = IF fails \/ CheckedTooEarly(cur.msg) THEN lost \cup {cur.msg} ELSE lost
    /\ cur' = [cur EXCEPT !.step = "done"]
    /\ UNCHANGED <<up, loaded, row, ledger, pass, providerVars, check, answered>>

\* The provider reported no id: nothing is written, and nothing is marked.
SentWithoutId ==
    /\ "no id" \in Inputs /\ cur.step = "sent"
    /\ lost' = lost \cup {cur.msg}
    /\ cur' = [cur EXCEPT !.step = "done"]
    /\ UNCHANGED <<up, loaded, storeVars, pass, providerVars, check, answered>>

\* mutant: an outcome nobody knows is retried like one that failed.
NextState_RetryUnknown(r, o) ==
    CASE o = "sent" -> "sent"
      [] o = "permanent" -> "failed"
      [] OTHER -> IF r.attempt >= MaxAttempts THEN "failed" ELSE "queued"

\* complete_outbox_send
NextState(r, o) ==
    CASE o = "sent" -> "sent"
      [] o = "permanent" -> "failed"
      [] o = "unknown" -> "needs_reconciliation"
      [] OTHER -> IF r.attempt >= MaxAttempts THEN "failed" ELSE "queued"

Complete ==
    LET m == cur.msg IN
    /\ cur.step = "done"
    /\ row' = [row EXCEPT ![m].state = NextState(row[m], cur.outcome), ![m].due = FALSE]
    /\ pass' = Left(m) /\ cur' = Idle
    /\ UNCHANGED <<up, loaded, ledger, marked, providerVars, inboundVars>>

\* A row could not be completed or released: the pass ends there, and the rows
\* it had claimed stay as they are.
PassFails ==
    /\ "fail" \in Inputs
    /\ cur.step = "done" \/ (cur = Idle /\ pass.rows # {} /\ ~pass.adapter)
    /\ pass' = NoPass /\ cur' = Idle
    /\ UNCHANGED <<up, loaded, storeVars, providerVars, inboundVars>>
-----------------------------------------------------------------------------
(* The daemon dies and comes back *)

Crash ==
    /\ "crash" \in Inputs /\ up
    /\ up' = FALSE /\ pass' = NoPass /\ cur' = Idle
    /\ check' = NoCheck
    /\ echoes' = echoes \cup ({check.msg} \ {NoMsg})
    /\ UNCHANGED <<loaded, storeVars, wire, tries, taken, over, answered, lost>>

\* mutant: what was being sent is queued again.
Parked_Queued(r) == IF r.state = "sending" THEN [r EXCEPT !.state = "queued"] ELSE r

\* requeue_stuck_sending parks a row, whatever its name says.
Parked(r) == IF r.state = "sending" THEN [r EXCEPT !.state = "needs_reconciliation"] ELSE r

\* A failure to park them is passed over.
Restart(fails) ==
    /\ ~up /\ up' = TRUE
    /\ fails => "fail" \in Inputs
    /\ row' = IF fails THEN row ELSE [m \in Msgs |-> Parked(row[m])]
    /\ UNCHANGED <<loaded, ledger, marked, drainVars, providerVars, inboundVars>>
-----------------------------------------------------------------------------
(* The inbound task: what accept_channel_envelope_with reads, in its order *)

\* The degraded marker; one that cannot be read counts.
CheckMarker(m, unreadable) ==
    /\ up /\ loaded /\ check = NoCheck /\ m \in echoes
    /\ unreadable => "fail" \in Inputs
    /\ check' = [msg |-> m, step |-> "marker", narrow |-> unreadable \/ marked \ over # {}]
    /\ echoes' = echoes \ {m}
    /\ UNCHANGED <<up, loaded, storeVars, drainVars, wire, tries, taken, over, answered, lost>>

\* mutant: only a parked send narrows the account, not one that is in flight.
Unresolved_Parked == In({"needs_reconciliation"}) \ over # {}

\* has_unresolved_outbound
Unresolved == In({"sending", "needs_reconciliation"}) \ over # {}

CheckRows ==
    /\ check.step = "marker"
    /\ check' = [check EXCEPT !.step = "rows", !.narrow = @ \/ Unresolved]
    /\ UNCHANGED <<up, loaded, storeVars, drainVars, providerVars, answered, lost>>

\* A narrowed account answers approved senders only; otherwise the ledger says
\* whether the message is the account's own.
Decide ==
    /\ check.step = "rows"
    /\ check' = NoCheck
    /\ answered' = IF check.narrow \/ ledger[check.msg] # 0 THEN answered
                   ELSE answered \cup {check.msg}
    /\ UNCHANGED <<up, loaded, storeVars, drainVars, providerVars, lost>>

Drain == \/ \E S \in SUBSET Msgs : ClaimBatch(S)
         \/ \E m \in Msgs : ReleaseClaim(m) \/ Unreadable(m) \/ SendStart(m)
         \/ \E o \in Outcomes : SendEnds(o)
         \/ RecordEcho \/ RecordEchoFails \/ SentWithoutId
         \/ \E fails \in BOOLEAN : MarkDegraded(fails)
         \/ Complete

Next ==
    \/ Drain \/ PassFails \/ Reload \/ PruneEcho \/ Purge \/ Crash
    \/ \E m \in Msgs :
        \/ Enqueue(m) \/ Cancel(m) \/ Due(m) \/ Elapse(m)
        \/ ProviderTakes(m) \/ ProviderEchoes(m)
        \/ \E unreadable \in BOOLEAN : CheckMarker(m, unreadable)
    \/ CheckRows \/ Decide
    \/ \E fails \in BOOLEAN : Restart(fails)

Spec == Init /\ [][Next]_vars

\* The supervisor's loop goes on, a send returns, and a retry comes due.
FairSpec == Spec /\ WF_vars(Drain) /\ \A m \in Msgs : WF_vars(Due(m))
-----------------------------------------------------------------------------
(* Properties *)

\* No message reaches the provider twice, through retries, lost answers, failed
\* writes, and a crash at any point of a send.
SentAtMostOnce == \A m \in Msgs : taken[m] <= 1

\* A row that is queued, failed or cancelled stands for a message that neither
\* reached the provider nor ever will by an earlier request, and a row that is
\* sent for one that did.
RowTellsTruth ==
    \A m \in Msgs :
        /\ row[m].state \in {"queued", "failed", "cancelled"} => taken[m] = 0 /\ m \notin wire
        /\ row[m].state = "sent" => taken[m] = 1

\* Every attempt a row has spent was a request that was made, and there are no
\* more requests than max_attempts: an account that is disabled for long
\* exhausts nothing.
AttemptsAreRequests ==
    \A m \in Msgs : /\ row[m].state = "queued" => row[m].attempt = tries[m]
                    /\ tries[m] <= MaxAttempts

\* The account never answers a message of its own for which the worker wrote
\* down the id or marked the account, whenever its echo comes: before the send
\* returns, before or after the row is completed, across a crash, or after the
\* conversation was deleted.  Excepted are a send that reported no id, one whose
\* two writes both failed, and an echo whose check had already looked for the
\* marker when it was written.
OwnEchoIgnored == answered \subseteq lost

\* No pass holds the row and only a restart will look at it again.
Stranded(m) == row[m].state = "sending" /\ m \notin pass.rows

\* Once the daemon and the account's adapter stay up, a queued message is
\* eventually sent, refused or parked, or stranded by a failed write.
QueuedSettles ==
    <>[](up /\ loaded) =>
        \A m \in Msgs : row[m].state = "queued" ~> (row[m].state \in Settled \/ Stranded(m))
=============================================================================

------------------------- MODULE ConversationIngress -------------------------
(***************************************************************************)
(* How a message that a provider delivers becomes one durable run           *)
(* (daemon/channel_ingress.rs, channel_worker.rs, ingress_store.rs, the     *)
(* event table of channel_store.rs and the delivery route of webhook.rs).   *)
(*                                                                         *)
(* One account.  Its messages are polled, behind a cursor and acknowledged  *)
(* one by one, or delivered to a webhook route.  A pass over a batch reads  *)
(* what is known of each message, decides it against the operator's         *)
(* configuration of that moment, commits the event and the turn it became   *)
(* in one transaction, and submits the turn to the queue under an id        *)
(* derived from the message.  The supervisor repeats what was left over.    *)
(* A poller that was aborted for a reload may still be at work when its     *)
(* replacement starts.                                                      *)
(*                                                                         *)
(* The provider is external: it delivers a message until it was told not    *)
(* to.  What the queue does with a job is DaemonEngine's, and the replies   *)
(* are ChannelOutbox's.                                                     *)
(***************************************************************************)
EXTENDS Integers, FiniteSets

CONSTANTS
    N,           \* messages, numbered in the order they arrive
    Pollers,     \* inbound tasks of the account, alive or on their way out
    Sup,         \* the supervisor's task
    Recipes,     \* what a turn may be frozen to execute
    NoRecipe,
    Batch,       \* PENDING_BATCH and RECOVERY_BATCH
    MaxSubmit,   \* MAX_SUBMIT_ATTEMPTS
    MaxFaults,   \* bound on failed store operations, crashes, refusals, edits and reloads
    Verdicts,    \* the outcomes other than a turn of this instance
    AtFirst,     \* what the configuration may say in the beginning
    Transports,  \* of "poll" and "push", the ones of this instance
    Inputs       \* what else happens in this instance

Events == 1 .. N
Passes == Pollers \cup {Sup}
Settling == {"ignored", "challenged", "failed"}

ASSUME IngressAssumption ==
    /\ N \in Nat /\ Batch \in Nat \ {0} /\ MaxSubmit \in Nat \ {0} /\ MaxFaults \in Nat
    /\ Verdicts \subseteq Settling /\ AtFirst \subseteq Recipes \cup Verdicts
    /\ Sup \notin Pollers /\ Pollers # {} /\ NoRecipe \notin Recipes /\ Recipes \cap Settling = {}
    /\ NoRecipe \notin Settling
    /\ Transports \subseteq {"poll", "push"}
    /\ Inputs \subseteq {"crash", "edit", "refuse", "reload", "unreadable"}

VARIABLES
    transport,  \* how the account's messages come in
    arrived,    \* messages the provider has
    cursor,     \* channel_cursors
    acked,      \* messages the provider was told it need not deliver again
    event,      \* channel_events: disposition, ingress_id and job_id
    turn,       \* ingress_turns: state, the frozen execution, attempts
    job,        \* what the job of a message executes, if the queue has one
    config,     \* what the policy, the routes and the recipe files say now
    live,       \* the inbound task that is not aborted
    pass,       \* the passes under way
    faults,     \* failed store operations, crashes, refusals, edits and reloads so far
    contested   \* messages that two passes were deciding at the same time

storeVars  == <<event, turn, job>>
sourceVars == <<transport, arrived, cursor, acked>>
worldVars  == <<config, live>>
vars == <<sourceVars, storeVars, worldVars, pass, faults, contested>>

NoPass == [kind |-> "none", step |-> "idle", ev |-> 0, batch |-> {}, upto |-> 0,
           att |-> [e \in Events |-> 0], want |-> NoRecipe, miss |-> FALSE, safe |-> {}]

Decisions == Recipes \cup Verdicts

EventRows == [disp : {"absent", "accepted"} \cup Settling, linked : BOOLEAN, job : BOOLEAN]

TurnRows == [state : {"absent", "accepted", "queued", "failed"},
             frozen : Recipes \cup {NoRecipe}, attempts : Nat]

PassRows == [kind : {"none", "poll", "pending", "recover"},
             step : {"idle", "next", "decide", "commit", "read", "submit",
                     "taken", "refused", "queued", "deferred", "parked"},
             ev : 0 .. N, batch : SUBSET Events, upto : 0 .. N, att : [Events -> Nat],
             want : Decisions \cup {NoRecipe}, miss : BOOLEAN, safe : SUBSET Events]

\* The values every variable can take.
TypeOK ==
    /\ transport \in Transports /\ arrived \in 0 .. N /\ cursor \in 0 .. N /\ acked \subseteq Events
    /\ event \in [Events -> EventRows] /\ turn \in [Events -> TurnRows]
    /\ job \in [Events -> Recipes \cup {NoRecipe}]
    /\ config \in Decisions /\ live \in Pollers
    /\ pass \in [Passes -> PassRows]
    /\ faults \in 0 .. MaxFaults /\ contested \subseteq Events

Init ==
    /\ transport \in Transports /\ arrived = 0 /\ cursor = 0 /\ acked = {}
    /\ event = [e \in Events |-> [disp |-> "absent", linked |-> FALSE, job |-> FALSE]]
    /\ turn = [e \in Events |-> [state |-> "absent", frozen |-> NoRecipe, attempts |-> 0]]
    /\ job = [e \in Events |-> NoRecipe]
    /\ config \in AtFirst /\ live = CHOOSE p \in Pollers : TRUE
    /\ pass = [p \in Passes |-> NoPass]
    /\ faults = 0 /\ contested = {}

\* The provider will not deliver e again.
Done(e) == e <= cursor \/ e \in acked

\* What may go wrong, or change, does so a bounded number of times.
Fault == faults < MaxFaults /\ faults' = faults + 1
-----------------------------------------------------------------------------
(* The world *)

Arrive ==
    /\ arrived < N /\ arrived' = arrived + 1
    /\ UNCHANGED <<transport, cursor, acked, storeVars, worldVars, pass, faults, contested>>

\* The operator edits the policy, a route or a recipe.
Edit ==
    /\ "edit" \in Inputs /\ Fault /\ config' \in Decisions \ {config}
    /\ UNCHANGED <<sourceVars, storeVars, live, pass, contested>>

\* reconcile_workers: a rotated secret replaces the task.  The one that is aborted
\* finishes the batch it is in, for nothing there yields, and polls no more.
Reload(p) ==
    /\ "reload" \in Inputs /\ Fault /\ p # live /\ pass[p] = NoPass
    /\ live' = p
    /\ UNCHANGED <<sourceVars, storeVars, config, pass, contested>>

\* The daemon dies and starts again: only what was committed is left.
Crash ==
    /\ "crash" \in Inputs /\ Fault /\ \E p \in Passes : pass[p] # NoPass
    /\ pass' = [p \in Passes |-> NoPass]
    /\ UNCHANGED <<sourceVars, storeVars, worldVars, contested>>

\* accept_webhook_delivery: every message of a delivery is recorded as accepted
\* and not processed; the provider is answered once all are.
Deliver(e, ok) ==
    /\ transport = "push" /\ e <= arrived /\ ~Done(e)
    /\ event' = IF event[e].disp = "absent" THEN [event EXCEPT ![e].disp = "accepted"] ELSE event
    /\ IF ok THEN acked' = acked \cup {e} /\ UNCHANGED faults ELSE Fault /\ UNCHANGED acked
    /\ UNCHANGED <<transport, arrived, cursor, turn, job, worldVars, pass, contested>>
-----------------------------------------------------------------------------
(* Where a pass gets its messages from *)

NewPass(kind, S, att, upto) ==
    [NoPass EXCEPT !.kind = kind, !.step = "next", !.batch = S, !.att = att, !.upto = upto]

Begin(p, kind, S, att, upto) == pass' = [pass EXCEPT ![p] = NewPass(kind, S, att, upto)]

NoAtt == [e \in Events |-> 0]

\* poll_account_once: what the provider has beyond the cursor, or unacknowledged.
Poll(p) ==
    LET S == {e \in 1 .. arrived : ~Done(e)} IN
    /\ transport = "poll" /\ p = live /\ pass[p] = NoPass /\ S # {}
    /\ Begin(p, "poll", S, NoAtt, arrived)
    /\ UNCHANGED <<sourceVars, storeVars, worldVars, faults, contested>>

Oldest(S) == {e \in S : Cardinality({x \in S : x < e}) < Batch}

\* accepted_events_awaiting_processing
Awaiting == {e \in Events : event[e].disp = "accepted" /\ ~event[e].linked /\ ~event[e].job}

\* process_pending_channel_ingress
Pending ==
    /\ pass[Sup] = NoPass /\ Awaiting # {}
    /\ Begin(Sup, "pending", Oldest(Awaiting), NoAtt, 0)
    /\ UNCHANGED <<sourceVars, storeVars, worldVars, faults, contested>>

\* mutant: a turn that was refused before is not looked at again.
PendingTurns_FirstTime == {e \in Events : turn[e].state = "accepted" /\ turn[e].attempts = 0}

\* pending_ingress_turns
PendingTurns == {e \in Events : turn[e].state = "accepted"}

\* recover_pending_ingress: turns with the attempts they had when they were read.
Recover ==
    /\ pass[Sup] = NoPass /\ PendingTurns # {}
    /\ Begin(Sup, "recover", Oldest(PendingTurns), [e \in Events |-> IF e \in Oldest(PendingTurns) THEN turn[e].attempts ELSE 0], 0)
    /\ UNCHANGED <<sourceVars, storeVars, worldVars, faults, contested>>
-----------------------------------------------------------------------------
(* accept_channel_envelope_with *)

At(p, step) == pass[p].step = step

\* Done with the message at hand, which crossed the acceptance boundary.
Recorded(r) ==
    [r EXCEPT !.step = "next", !.ev = 0, !.want = NoRecipe, !.att[r.ev] = 0,
              !.safe = IF r.kind = "poll" THEN @ \cup {r.ev} ELSE {}]

\* Done with it, though it did not.
Missed(r) == [r EXCEPT !.step = "next", !.ev = 0, !.want = NoRecipe, !.att[r.ev] = 0, !.miss = TRUE]

\* mutant: an event that owns a turn is decided again.
FirstStep_Redecided(kind, e) ==
    IF kind = "recover" THEN "submit"
    ELSE IF event[e].disp \in Settling THEN "next" ELSE "decide"

\* existing_channel_event and classify_existing_event: settled, owned by a turn,
\* or still to be decided.  A recovered turn goes straight to the queue.
FirstStep(kind, e) ==
    IF kind = "recover" THEN "submit"
    ELSE CASE event[e].disp \in Settling -> "next"
           [] event[e].disp = "accepted" /\ event[e].linked -> "read"
           [] OTHER -> "decide"

IsNext(p, e) == At(p, "next") /\ e \in pass[p].batch /\ \A x \in pass[p].batch : e <= x

NextEvent(p, e) ==
    LET r    == pass[p]
        step == FirstStep(r.kind, e)
        at   == [r EXCEPT !.ev = e, !.batch = @ \ {e}, !.step = step,
                          !.want = IF r.kind = "recover" THEN turn[e].frozen ELSE NoRecipe] IN
    /\ IsNext(p, e)
    /\ pass' = [pass EXCEPT ![p] = IF step = "next" THEN Recorded(at) ELSE at]
    /\ UNCHANGED <<sourceVars, storeVars, worldVars, faults, contested>>

\* A stored envelope that does not parse is set aside for an operator.
Unreadable(e) ==
    /\ "unreadable" \in Inputs /\ IsNext(Sup, e) /\ pass[Sup].kind = "pending"
    /\ event' = [event EXCEPT ![e].disp = "failed", ![e].job = FALSE]
    /\ pass' = [pass EXCEPT ![Sup].batch = @ \ {e}]
    /\ UNCHANGED <<sourceVars, turn, job, worldVars, faults, contested>>

\* The policy, the routes and the recipe are read, and the recipe frozen ...
Decide(p) ==
    /\ At(p, "decide")
    /\ pass' = [pass EXCEPT ![p].want = config, ![p].step = "commit"]
    /\ UNCHANGED <<sourceVars, storeVars, worldVars, faults, contested>>

\* Another pass found the event undecided, too.
Contended(p) ==
    \E q \in Passes \ {p} : pass[q].ev = pass[p].ev /\ pass[q].step \in {"decide", "commit"}

\* ... and one transaction writes the event and what it became.  A turn that is
\* already there stays, and is read back.
Commit(p) ==
    LET r   == pass[p]
        e   == r.ev
        run == r.want \in Recipes IN
    /\ At(p, "commit")
    /\ event' = [event EXCEPT ![e].disp = IF run THEN "accepted" ELSE r.want,
                              ![e].linked = @ \/ run]
    /\ turn' = IF run /\ turn[e].state = "absent"
               THEN [turn EXCEPT ![e] = [state |-> "accepted", frozen |-> r.want, attempts |-> 0]]
               ELSE turn
    /\ pass' = [pass EXCEPT ![p] =
                   CASE ~run -> Recorded(r)
                     [] run /\ turn[e].state = "absent" -> [r EXCEPT !.step = "submit"]
                     [] run /\ turn[e].state = "accepted" -> [r EXCEPT !.step = "read"]
                     [] OTHER -> Recorded(r)]
    /\ contested' = IF Contended(p) THEN contested \cup {e} ELSE contested
    /\ UNCHANGED <<sourceVars, job, worldVars, faults>>

\* mutant: what runs is what this delivery resolved.
Frozen_Resolved(p) == IF pass[p].want = NoRecipe THEN turn[pass[p].ev].frozen ELSE pass[p].want

\* What runs is what was frozen then.
Frozen(p) == turn[pass[p].ev].frozen

\* pending_ingress_turn: drive the submission the first delivery did not finish.
ReadTurn(p) ==
    LET r == pass[p] IN
    /\ At(p, "read")
    /\ pass' = [pass EXCEPT ![p] =
                   IF turn[r.ev].state = "accepted"
                   THEN [r EXCEPT !.step = "submit", !.want = Frozen(p),
                                  !.att = [@ EXCEPT ![r.ev] = turn[r.ev].attempts]]
                   ELSE Recorded(r)]
    /\ UNCHANGED <<sourceVars, storeVars, worldVars, faults, contested>>

\* Nothing was committed, as far as the caller knows: the message is left to
\* the provider, or keeps its place among the accepted ones.
AcceptFails(p) ==
    LET r == pass[p] IN
    /\ r.step \in {"decide", "commit", "read"} /\ Fault
    /\ event' = IF r.kind = "pending"
                THEN [event EXCEPT ![r.ev].disp = "accepted", ![r.ev].job = FALSE] ELSE event
    /\ pass' = [pass EXCEPT ![p] = Missed(r)]
    /\ UNCHANGED <<sourceVars, turn, job, worldVars, contested>>
-----------------------------------------------------------------------------
(* finish_submission, and what the caller writes to the event *)

\* The queue refuses while the kill switch is on, whatever it holds; otherwise a
\* job that is there already is the answer.
Submit(p, refused) ==
    LET r == pass[p] IN
    /\ At(p, "submit")
    /\ IF refused THEN "refuse" \in Inputs /\ Fault ELSE UNCHANGED faults
    /\ job' = IF refused \/ job[r.ev] # NoRecipe THEN job ELSE [job EXCEPT ![r.ev] = r.want]
    /\ pass' = [pass EXCEPT ![p].step = IF refused THEN "refused" ELSE "taken"]
    /\ UNCHANGED <<sourceVars, event, turn, worldVars, contested>>

\* Recovery has no event to write to.
Then(p, step) ==
    pass' = [pass EXCEPT ![p] = IF pass[p].kind = "recover" THEN Recorded(pass[p])
                                ELSE [pass[p] EXCEPT !.step = step]]

\* Whether it was written or not, nothing is undone.
MarkQueued(p, ok) ==
    LET e == pass[p].ev IN
    /\ At(p, "taken")
    /\ IF ok THEN turn' = [turn EXCEPT ![e].state = "queued", ![e].attempts = @ + 1] /\ UNCHANGED faults
             ELSE Fault /\ UNCHANGED turn
    /\ Then(p, "queued")
    /\ UNCHANGED <<sourceVars, event, job, worldVars, contested>>

\* record_failed_submission: parked when the attempts it was read with are spent.
MarkRefused(p, ok) ==
    LET e        == pass[p].ev
        terminal == pass[p].att[e] + 1 >= MaxSubmit IN
    /\ At(p, "refused")
    /\ IF ok THEN /\ turn' = [turn EXCEPT ![e].state = IF terminal THEN "failed" ELSE "accepted",
                                          ![e].attempts = @ + 1]
                  /\ UNCHANGED faults
             ELSE Fault /\ UNCHANGED turn
    /\ Then(p, IF terminal THEN "parked" ELSE "deferred")
    /\ UNCHANGED <<sourceVars, event, job, worldVars, contested>>

\* mutant: the outcome of the submission is written for the disposition.
Disposition_Outcome(step) == step

\* What the event says of a turn that was submitted.
Disposition(step) == IF step = "parked" THEN "failed" ELSE "accepted"

\* set_channel_event_disposition, best effort.
Note(p, ok) ==
    LET r == pass[p] IN
    /\ r.step \in {"queued", "deferred", "parked"}
    /\ IF ok THEN /\ event' = [event EXCEPT ![r.ev].disp = Disposition(r.step),
                                            ![r.ev].job = (r.step = "queued")]
                  /\ UNCHANGED faults
             ELSE Fault /\ UNCHANGED event
    /\ pass' = [pass EXCEPT ![p] = Recorded(r)]
    /\ UNCHANGED <<sourceVars, turn, job, worldVars, contested>>

\* mutant: the cursor moves past what could not be recorded.
MayAdvance_Always(p) == TRUE

MayAdvance(p) == ~pass[p].miss

\* The cursor moves when the whole batch is durable; an acknowledgement, which
\* is not sent when the cursor could not be written, covers exactly what is.
EndPass(p, ok, moved) ==
    LET r    == pass[p]
        poll == r.kind = "poll" IN
    /\ At(p, "next") /\ r.batch = {}
    /\ IF ok THEN UNCHANGED faults ELSE poll /\ Fault
    /\ moved => poll /\ MayAdvance(p)
    /\ ok /\ poll /\ MayAdvance(p) => moved
    /\ cursor' = IF moved THEN r.upto ELSE cursor
    /\ acked' = IF poll /\ ok THEN acked \cup r.safe ELSE acked
    /\ pass' = [pass EXCEPT ![p] = NoPass]
    /\ UNCHANGED <<transport, arrived, storeVars, worldVars, contested>>

\* What a pass does next.
Step(p) ==
    \/ \E e \in Events : NextEvent(p, e)
    \/ Decide(p) \/ Commit(p) \/ ReadTurn(p) \/ AcceptFails(p)
    \/ \E b \in BOOLEAN : Submit(p, b) \/ MarkQueued(p, b) \/ MarkRefused(p, b) \/ Note(p, b)
    \/ \E ok, moved \in BOOLEAN : EndPass(p, ok, moved)

Next ==
    \/ Arrive \/ Edit \/ Crash
    \/ \E e \in Events, ok \in BOOLEAN : Deliver(e, ok)
    \/ \E p \in Pollers : Reload(p) \/ Poll(p)
    \/ Pending \/ Recover
    \/ \E e \in Events : Unreadable(e)
    \/ \E p \in Passes : Step(p)

Spec == Init /\ [][Next]_vars

\* A pass that is under way goes on, and the supervisor's loop comes round to
\* the unprocessed events and to the unqueued turns.
FairSpec ==
    /\ Spec /\ SF_vars(Pending) /\ SF_vars(Recover)
    /\ \A p \in Passes : WF_vars(Step(p))
-----------------------------------------------------------------------------
(* Properties *)

\* What the provider will not deliver again is recorded here, whatever failed in
\* its batch and whoever else was polling.
NothingSkipped == \A e \in Events : Done(e) /\ e <= arrived => event[e].disp # "absent"

\* A job executes what was frozen when its message was first accepted, however
\* often it was delivered, decided and submitted since.
RunsWhatWasAccepted ==
    \A e \in Events : job[e] # NoRecipe => turn[e].state # "absent" /\ job[e] = turn[e].frozen

\* A message that was ignored or challenged does not run, and one that was
\* promised a run is not ignored later, unless two passes decided it at once.
IgnoredNeverRuns ==
    \A e \in Events \ contested :
        event[e].disp \in {"ignored", "challenged"} => turn[e].state = "absent" /\ job[e] = NoRecipe

\* A recorded message is settled, queued or parked in the end, across crashes,
\* failed writes, refusals by the queue and edits of the policy.
EventSettles ==
    \A e \in Events : event[e].disp # "absent" ~>
        event[e].disp \in Settling \/ turn[e].state \in {"queued", "failed"}

\* "Where a run's reply belongs: the conversation whose accepted inbound event
\* produced this job" (channel_origin_for_job): the event of every job gets to
\* name it.
RunHasOrigin == \A e \in Events : job[e] # NoRecipe ~> event[e].job
=============================================================================

# Little Monkey: verification of the resident daemon, its channels and its swarm

Little Monkey is a desktop agent (Rust/Tauri with a TypeScript front end).  Its
surfaces (desktop window, CLI, resident daemon, paired phones) share a few
contracts - the permission gate, the run ledger, the process table, the egress
policy, the workspace boundary - and meet in the **daemon**, where correctness is
decided by timing.  This project models the four parts of the daemon in which
that is most so, checks them with TLC and proves their main guarantees with
TLAPS:

- **job execution**: a job is executed by a child process that outlives the
  daemon, recorded in two SQLite files without a common transaction, and steered
  by clients that write bits and events whenever they like;
- **the swarm**: several installations elect a leader with signed majorities and
  clocks of their own, replicate what the leader is about to do, and recover its
  graphs when it is gone;
- **the outbox**: replies go to providers that may have taken a message nobody
  knows they took, and that deliver an account's own messages back to it;
- **the ingress**: a message that a provider delivers, any number of times,
  becomes one durable run of what was accepted the first time.

Paths below are relative to `src/src-tauri/src/`; `daemon/` is
`bin/monkey-cli/daemon/`.

## 1. Inventory

| Component | State it keeps | Operations | Interaction | Correct means |
|---|---|---|---|---|
| Daemon engine `daemon/engine.rs` | children in memory (`active`), adopted workers | `recover`, `tick` (signals, `tick_active`, `cancel_queued`, `schedule`, `sync_process_table`), `start_job`, `finish_active`, `reconcile_interrupted` | polls store, ledger and process table; signals process groups | every live child is supervised; slots are respected; a job and its run end alike |
| Daemon store `daemon/store.rs` | `daemon_jobs` (state, attempt, pid, pause/cancel bits, run id), kill switch | `insert_preparing`, `mark_queued(_paused)`, `transition`, `request_pause/cancel(_all)`, `ready_jobs`, `active_jobs` | written by the daemon and by every client | attempts bounded; requests are not lost |
| Run leases, shared ledger `daemon/ledger.rs` | `run_leases`, `external_mutations` | acquire, heartbeat, take over, release | owner check between daemon generations | one owner; a live owner never loses its lease |
| Lifecycle and commands `daemon/mod.rs` | - | `serve`, `recover_preparing`, `enqueue`, pause, resume, cancel, kill switch | starts the engine; three writes per enqueue | an enqueue cut short is completed or failed |
| Durable run recorder `bin/monkey-cli/durable_run.rs` | - | `submit`, `append` | used by child, daemon and clients | a run is executed at most once |
| Run ledger `run_ledger.rs`, `run_protocol.rs` | runs, events, approvals | `submit_run`, `append_event`, `decide_approval` | shared by all surfaces | no event after the terminal one |
| Process table `process_table.rs` | rows with state and signal latches | `reconcile`, `signal`, `exit` | written by the daemon, signalled by operators | one live row per job; signals survive restarts |
| Task child `bin/monkey-cli/task.rs`, `permission.rs` | - | submit, start, ask, mutate, finish, exit | appends to the ledger | as the ledger |
| Remote control `daemon/remote/api.rs` | - | cancel, pause, resume, decide | same writes as the CLI | a request about a finished run is harmless |
| Admission, ranking `daemon/admission.rs`, `daemon/scheduler.rs` | hardware snapshot | fit, age, preempt | called by `schedule` | no starvation; no over-commitment |
| Triggers and deliveries | delivery rows | reserve, activate, submit | enqueue jobs | exactly one job per delivery |
| Channel outbox `daemon/channel_store.rs`, `channel_worker.rs`, `channel_adapter.rs` | `channel_outbox`, `channel_outbound_echo`, the degraded marker | enqueue, claim a batch, send, record the echo id, complete, release, cancel, purge, park at restart, prune | providers; the ingress asks whether a message is the account's own | sent at most once; a row says what happened; own echoes are not answered |
| Channel ingress `daemon/channel_ingress.rs`, `ingress_store.rs`, `channel_worker.rs`, `webhook.rs` | `channel_events`, `ingress_turns`, `channel_cursors` | poll, deliver, accept, submit, process pending, recover, acknowledge | the daemon's queue; the reply tool looks up the event by job | no message lost; one run per message, of what was accepted |
| Swarm election `daemon/swarm_cluster.rs` | roster, vote and lease rows of each member | configure, vote, campaign, renew, expire | signed requests between members; everything else asks `may_schedule` | one leader at a time; terms grow |
| Swarm graphs `daemon/swarm_coordinator.rs`, `swarm_task_retry.rs`, `swarm_replication.rs`, `swarm_quorum.rs`, `swarm_recovery_witness.rs`, `swarm_failover.rs`, `swarm_transfer.rs` | graph and task rows, checkpoint outbox, peer checkpoints, acknowledgments, witnesses, plans and claims | submit, tick, cancel; capture, ingest, read back, attest; arm, refresh, record, claim, import | the daemon's queue; peers; the election | a task never runs under two leaders |
| Worktrees, service files, peers, telephony, workflow core, permissions, checkpoints, front end | various | various | not on the path of a job's life | see `PROJECT.json` |

`PROJECT.json` lists every component with its files and status.  The hard
behaviour, with the line where it bites, is under `hazards` there: crashes
between the two databases and between spawn and record, children that outlive
their daemon, leases that lapse, three writers on one run, two copies of the
pause intent, signals keyed by attempt, an enqueue racing a start-up, an
error of one handler ending the daemon for all; votes, deadlines and clocks of
several machines; checkpoints and answers that arrive late or out of order; a
send whose outcome is unknown; messages delivered again after the policy has
changed.

## 2. Modules

- **`RunProtocol`** - the status machine of a run (`CanEmit`, `CanRecord`), the
  job states and `map_run_status`.  Pure definitions.
- **`ProcessRow`** - one process-table row: its transitions, the signal latches,
  `reconcile`.  Pure definitions.
- **`RunContract`** - the abstract specification: a run is accepted once, begun
  by at most one child, and finished once.  It knows no daemon, store, lease or
  crash.
- **`DaemonEngine`** - the system: daemon, children, clients, clock.  It extends
  the first two and instantiates the third (`ImplementsContract`).
- **`SwarmLease`** - the abstract specification of the election: one lease, free or
  held by one member under one term, lapsed before it is granted again.
- **`SwarmCluster`** - enrolment, votes, campaigns and leases of all members, with a
  clock per member; it implements `SwarmLease` (`ImplementsLease`).
- **`SwarmRecovery`** - one clustered graph under that lease (it instantiates
  `SwarmLease`): dispatch, replication, recovery.
- **`ChannelOutbox`** - the outbox and the echo ledger of one account.
- **`ConversationIngress`** - the inbound messages of one account.
- **`DaemonEngine_proofs`** (types, leases, execution, the contract),
  **`DaemonSupervision_proofs`** (children, slots, stopped children, rows; extends it),
  **`DaemonAgreement_proofs`** (job and run, the queue; extends that),
  **`SwarmCluster_proofs`**, **`SwarmRecovery_proofs`**, **`ChannelOutbox_proofs`**,
  **`ConversationIngress_proofs`** - theorems and proofs.
- **`MCDaemonEngine`**, **`MCSwarmCluster`**, **`MCSwarmRecovery`** - values of constants and
  symmetry sets for TLC.

The modules meet where the parts do.  `SwarmRecovery` rests on `SwarmLease`, which
`SwarmCluster` is shown to implement; its jobs, like the ones `ConversationIngress`
submits, are jobs of `DaemonEngine`, whose contract is `RunContract`; and the echo
check of `ChannelOutbox` is the first thing the decision of `ConversationIngress`
does.  The subsections below describe `DaemonEngine`; the other models follow.

### DaemonEngine: state

| Variables | In the code |
|---|---|
| `jobState, attempt, pauseReq, cancelReq, pid, linked, killSwitch` | columns of `daemon_jobs` (`linked`: `run_id` is set) and the kill switch |
| `runStatus, approval, mutation, lease` | the run's projected status, its approval, its external mutation, its lease.  `held` by the living daemon; `stale`: by a dead one, unexpired; `expired` |
| `row[j][o]` | the process-table row of attempt `o` of job `j` |
| `phase, todo, cur` | the daemon's place in its loop, the jobs its current loop still has to visit, the one it is in the middle of |
| `active, adopted, tickKill` | the engine's memory; the kill switch as read at the start of the tick |
| `worker[j][k], frozen, spawns` | the `k`-th child of `j`: booting, past submission, executing, asking, closing, dead; stopped by SIGSTOP |
| `enq, appending` | a client between two writes of an enqueue or a cancellation |
| `begun, lost, crashes` | history: children past Started; children spawned and never recorded; bound |

### DaemonEngine: actions

A step is one committed write or one process signal, so a crash may fall
between any two.  Handlers that only write one database are one action; those
that write both are split where a crash or another party makes a difference:
`start_job` into `StartJob` and `RecordSpawn`; a start that is refused for good
(`RejectOversized`, `SpawnFails`) into the run's failure and `FailRecord`; `cancel_queued` into
`CancelQueued` and `CancelRecord`; a cancellation of a running job into
`CancelBegin`, the grace period in which the child goes on, and `CancelEnd`;
`enqueue` into `EnqueueInsert`, `EnqueueSubmit` and `EnqueueMark`.  `finish_active`
and `reconcile_interrupted` are single steps: they write the run first, and a
daemon that dies before the job's write repeats it from the run's terminal
status at the next `recover`.  The loops of a tick
are phases: `TickSignals` (kill switch, `apply_signal_intent`), `active`
(`tick_active`), `cancelq`, `schedule`, `sweep` and `project`
(`sync_process_table_inner`), and again.  A handler's error reaches `serve`
through `?` and ends the process; every such path is an action of its own
(`CancelRefused`, `PauseRefused`, `WorktreeInvalid`, `RecoverPreparingRaced`...)
and leads to `GoDown`.  `PROJECT.json` maps each definition to its lines.

### DaemonEngine: what is abstracted

- A job has one approval and one external mutation; the second would repeat the
  first.  The mutation's two records are actions of the child, which is the writer
  `reconcile_interrupted` (and its tests) provide for; the tools of `task run`
  themselves write none at this commit.
- `stop` and `kill` signals differ only in the length of the grace period, which
  the model leaves open; preemption latches `suspend` and is a `SignalRow`; a
  draining daemon passes candidates over like a hold.
- Admission has its three outcomes as inputs (fits, hold, never fits).  The order
  in which `schedule` visits jobs is left open: every order is checked.
- `Crash` stands for any death of the daemon not caused by a modelled error,
  SQLite errors and lost sequence races included.
- The exit code of a child is left open: one that exits before Started may be
  retried or reconciled (`ExitRetries`, `ExitInterrupted`), whatever attempts remain.
- Two appends to one run are one step where nothing the model has comes between
  them: `ensure_cancelling` and `cancel_run` in `CancelQueued`, the permission request and the
  awaiting status in `WorkerAsk`.  So are the lease's acquisition, a spawn that fails
  and the release of that lease (`SpawnFails`).
- `Project` reads the jobs at its own step; the code uses the list it read before
  the sweep.  A job that a client moves in between is projected one tick later there.
- A run never reaches `max_event_count`, where `run_ledger.rs:1095` refuses every further
  event, the terminal one included: `CanEmit` does not count events.
- The branch of `tick_active` for a lost lease is left out; `LeaseHeld` shows
  that it cannot be reached.
- After a resume the model reads the job again where the code uses its snapshot;
  this only adds behaviours.
- Not modelled: resource reservations, contract settlement, retention and
  `delete_terminal_job`, pid reuse and attestation mismatch at adoption, and
  everything with status `not_modelled`.

### SwarmCluster

A member has the three rows of the code: `roster`, `voted` (term, candidate,
expiry) and `lease` (term, expiry, quorum).  `Clock(m)` is real time plus the
member's offset plus the adjustments made to it, which are at most `MaxDrift`;
every timestamp is read from the clock of the member that writes it.  A campaign
is a call with a state of its own (`campaign[m][r]`), because the lease worker and the
operator's command run one each, in two processes.  `CampaignStart` is the vote
for itself and the requests; `AnswerBallot` is the `vote` handler at a peer, whose
receipt arrives or is lost; `CampaignEnd` is `persist_quorum` with its compare-and-set,
or the deletion of the lease when it fails.  The caller of a campaign reads its
clock a moment before the vote; the model reads it at the vote, and what lies
between them is an adjustment of the clock.  `configure` is four actions, since its
statements are committed one by one.  Crashes leave the rows.  Left out:
signatures (a receipt is what its voter said) and the mapping of pairing ids to
fingerprints.

### SwarmRecovery

`Source` registers the graph; `graph`, `node` and `jobs` are its rows.  The coordinator's
tick is split at its writes: `TickNote` (a job is over), `TickStop`, `TickSucceed`,
`TickPrepare` (the intent), `TickReattach`, `TickCheck` (the last check), `Enqueue`,
`TickSubmitted`.  The last three are separate because the lease may lapse, and a
successor act, between them.  A task's `stage` counts its attempts: retries of a
read-only task, or its fallback.  A publication is a capture in two steps
(`CaptureRead`, `CapturePost`), a checkpoint in flight (`posts`, delivered in any order or
never), a readback and an attestation.  Recovery is `RefreshStart`, `PeerAnswers` and `Record`
(each answer may be recorded in a later term), then `ClaimCheck` and `Claim` or `Resume`, `ImportCheck`,
`ImportSubmit` and `MarkImported`.  A claimed plan that lost its lease, or the majority that
confirmed it, stays claimed; one whose bundle is no longer what was approved is
failed (`ImportRefused`).  Ages are not counted: an acknowledgment or a witness
may be forgotten at any moment.  Checks that use the clock of
the start of their pass (`CaptureRead`, `Attest`, `Record`, `Eligible`, `ImportCheck`) let a lease that has
expired since pass: they ask for the row and its term, not for a lease in force.  A copy
that a successor registers is a set element; it is not itself dispatched.  Left
out: mutation contracts, graphs without a cluster, results, the pruning of
stored checkpoints by count, and the retention of finished jobs, whose missing
row `swarm_coordinator.rs:694` takes for a failure.

### ChannelOutbox

`row` is `channel_outbox`; `pass` and `cur` are `drain_outbox_once`: the rows it claimed and
the one it is at.  A send is a request on the `wire`, which the provider may take
before, or long after, an outcome is reported.  The outcomes mean what
`channels/types.rs` says of them (`RetryableFailure` and `PermanentFailure`: not taken;
`NeedsReconciliation`: unknown).  That is an assumption on the adapters.  The echo check
reads the marker, the rows and the ledger in that order, in three steps.  `lost` is
history: messages for which the worker left no evidence in time.  They are the sends that
reported no id on a transport that correlates by id (`SentWithoutId`: neither ledger
nor marker is written), those whose ledger and marker writes both failed, and those whose
marker was written when a check of their echo had already looked for it.  Left
out: conversations as
data, attachments, rate limits; delivery receipts, which write other columns of
the row (`telecom_store.rs:876`); an enqueue of the same key after a purge, which deletes the key
with the row (`channel_store.rs:1914` accepts it); a transport without provider ids is narrowed
always and needs no ledger.

### ConversationIngress

A pass is one run of `ingest_batch` (after a poll), `process_pending_channel_ingress` or
`recover_pending_ingress`; up to three are under way at once, among them a poller that was
aborted for a reload and finishes its batch.  For each message: `NextEvent` (what
is known of it), `Decide` (policy, routes and recipe of that moment; the recipe is
frozen), `Commit` (event and turn in one transaction), `ReadTurn` (a turn that was there
already), `Submit`, `MarkQueued` or `MarkRefused`, `Note` (the event's annotation); `EndPass`
moves the cursor and acknowledges.  Each may fail, except where the code passes
over the failure, and then it does so here.  A job is what it executes; the queue
collapses a second submission under the same id.  The kill switch and other
refusals are `Submit` with `refused`.  A failing hydration ends its pass like a crash of
that pass and is only modelled as `Crash`.  Left out: pairing, bindings, command replies,
attachments, the webhook's signatures and body; rows of older builds (a turn
without a frozen recipe, `channel_ingress.rs:1220`; an event not linked to its turn,
`channel_ingress.rs:452`); a stored turn that cannot be read back, which fails
`recover_pending_ingress` for every other turn too (`ingress_store.rs:271`); and the purge of a
conversation (`channel_store.rs:1919`), which deletes events and turns.

## 3. What TLC checks

`Inputs` selects what the environment does, so that each run asks one question
with the events that matter to it; between them the passing runs take every
action.  Deadlock is checked for `DaemonEngine`, whose daemon never stops.  It is not
for the other three models: there time, terms, messages or faults are bounded,
and once they are used up the system may rest.

| Run | Environment | Shows | States |
|---|---|---|---|
| `control` | cancel, pause, resume, park, budget, holds, durable signals, dying children, 1 crash | `TypeOK`; every live child is supervised (`Supervised`) and counted (`SlotsBound`); no child is left stopped and forgotten (`FrozenIsPaused`); `OneLiveRow`; a job that is over stays over (`JobsStayOver`) | 477,546 |
| `execution` | cancel, kill switch, approvals, mutations, refusals, failing spawns, bad worktrees, holds, dying children, 1 crash | `ExecutedOnce`; job and run end alike (`TerminalAgreement`); the first end of a run stands (`EndsStand`); `ImplementsContract` | 288,092 |
| `handoff` | live handoff, a start during an enqueue that may fail, pause, resume, cancel, dying children, 2 crashes | `LeaseHeld`; `ImplementsContract` | 1,291,800 |
| `cancel_live` | fairness; cancel, pause, resume, budget, approvals, kill switch, dying children | `CancelLeadsToEnd` | 54,820 |
| `queue_live` | fairness; two jobs, one slot, budget, cancel | `SlotsBound`, `QueueMoves` | 193,772 |
| `swarm_cluster` | three members with clocks up to 3 units apart, one of them adjusted; worker and operator campaigns, renewals, lost answers, an enrolment, a kill switch, crashes | `TypeOK`, `OneLeader`, `EpochFenced`, `ImplementsLease` | 661,032 |
| `swarm_recovery` | three members, one task with one retry, two plans; checkpoints in any order, cancellation, refusals by the queue and of a bundle, a kill switch, crashes of the leader | `TypeOK`, `IntentReplicated`, `OneCopyPerInstallation`, `NoDoubleExecution` | 1,509,420 |
| `outbox` | fairness; two messages, two attempts; unknown outcomes, sends without an id, failed writes, unreadable payloads, a disabled account, cancel, purge, crashes, echoes at any time | `TypeOK`, `SentAtMostOnce`, `RowTellsTruth`, `AttemptsAreRequests`, `OwnEchoIgnored`, `QueuedSettles` | 609,060 |
| `ingress` | fairness; two messages, polled or pushed; two pollers and the supervisor; two faults out of crash, failed write, edit, refusal and reload | `TypeOK`, `NothingSkipped`, `RunsWhatWasAccepted`, `IgnoredNeverRuns`, `EventSettles` | 376,071 |

**Bounds.**  *Daemon*: `MaxAttempts` and `KindAttempts` are 3, the least at which a child that
exits before Started is retried by `ExitRetries`; `queue_live`, where a job has one child, has `MaxAttempts = 2`.  `MaxSpawns` is 2 (a child and its replacement; 1 with
two jobs, which is what two jobs on one slot need).  One crash reaches every pair
of writes; two are given to `handoff`, where a worker can be adopted twice.
`MaxQueue = 2`, `Slots = 1`.  When a job's children are used up, `PassOver` leaves it in
the queue.  *Election*: a vote lasts 4 units, the lease ends 2 earlier and is renewed in its last
2, clocks are adjusted by 1 and real time runs for 3, so a lease is won, renewed, or
expires and is won by another member; two campaigns and one enrolment make every race of two; two terms.
*Recovery*: two terms (the leader and its successor), two checkpoints (before and
after the intent), one task with a second stage, two plans that compete for the
source.  Two of the three members may lead; the kill switch of the third is on
only while the graph runs (`KillBound`).  Fallback recipes, dependencies, `max_parallel` and the operator's captures under
`QuietPublish` are in the proofs for every value and not in this instance.  *Outbox*: two rows of one
batch, so that one can be stranded by the other's failure; two attempts, so that
a retry and the limit both happen.  *Ingress*: two messages and a batch of one, so
that the cursor can jump over one; two faults, so that a fault can meet the
recovery from another.

**Fairness.**  *Daemon* (`FairSpec`): the service manager restarts the daemon (the unit
files written by `daemon/service.rs`): weak fairness of `Start`.  The daemon's loop
never waits for a client or a child: weak fairness of `DaemonStep`.  An enqueuing
client finishes or dies.  An unrenewed lease expires.  Where budgets are an input,
a supervised child exceeds its wall-clock budget some time - strong fairness,
because the branch is enabled only when the loop visits the job.  Children get no
fairness: they may hang for ever.  *Outbox*: the supervisor's loop drains in every
round and adapters time out, so `Drain` is weakly fair; a retry's time comes (`Due`).
The property itself says that daemon and account stay up from some time on.
*Ingress*: a pass under way goes on (weak, per pass).  The supervisor's loop calls
`process_pending_channel_ingress` in every round and `recover_pending_ingress` every 60 s
(`RECOVERY_INTERVAL_MS`), one after the other, so each is taken again and again although the other one occupies the supervisor
in between: strong fairness of `Pending` and `Recover`.  Nothing is assumed of the providers, of
polling, or of the election and recovery of the swarm, for which no liveness is
claimed.

**Assumptions.**

- `BootWithinLease` (daemon): a child gets past its submission check and to Started, or
  dies, before the lease of its dead daemon expires.  The code has no other barrier
  between a child lost between spawn and record and the one a restarted daemon
  starts once that lease has lapsed.
- `RosterAssumption` (election): majorities of any two enrolled rosters share a member.  The
  code compares a campaign's roster with the voter's; it cannot compare two
  campaigns.  `MajoritiesMeet` shows that rosters before and after one member joins
  satisfy it.
- `ClockAssumption` (election): the safety margin is at least twice what a clock is adjusted
  by while the cluster runs.  Offsets may be anything.
- `QuietEnrol` (election) and `QuietPublish` (recovery): the two races that `enrol_race` and `publish_race`
  refute do not happen.  Without them the properties do not hold.
- Terms grow (recovery): `Elect` takes a term above every earlier one, which is
  `EpochFenced` of the election until an enrolment deletes a vote.
- The ledger holds the messages of one retention period (outbox, `OwnEchoIgnored`):
  `Cardinality(Msgs) <= MaxLedger`.  An echo comes back within the retention.

**Known limits of the properties.**  A child lost between spawn and record is
outside `Supervised` and `SlotsBound` (nobody knows its pid; its run is protected by
`ExecutedOnce`).  `Supervised`, `SlotsBound`, `FrozenIsPaused`, `TerminalAgreement`, `JobsStayOver`
and `QueueBound` are not claimed when a daemon starts during an enqueue: a client
whose submission is refused then fails the job unconditionally, over a live child
or a job that is being scheduled.  `FrozenIsPaused` is not claimed with live handoff
either: an adopted worker may be stopped whatever its job's row says.
`NoDoubleExecution` is about the original and a copy: two installations that both hold an
armed plan may each recover the same graph, one after the other, which the code
does not exclude.  `OwnEchoIgnored` excepts `lost` messages, which the account does answer when their row is
completed nevertheless.  That a marker was written is not enough to be excluded
from them: the check reads the marker first and the rows second
(`channel_adapter.rs:397`), so one that read the marker before it was written, and the rows after
the completion, finds neither.  `IgnoredNeverRuns` excepts messages that two passes decided at the same
time.

## 4. Where the code and its documentation disagree

Three are runs that TLC refutes; `findings` in `PROJECT.json` quotes the text.

| Run | What happens |
|---|---|
| `enrol_race` | `configure` checks that the member's vote has expired and deletes it two statements later.  A ballot answered in between casts a vote that is then forgotten, the member votes again, and two members lead. |
| `publish_race` | `capture_local_leader` reads the tasks before it allocates the sequence number.  With the operator's `swarm-replicate` beside the worker, an older state is published under a newer number and replaces the acknowledged intent at the peer. |
| `reply_lost` | A turn queued by `recover_pending_ingress` leaves its event without `job_id`, so that `channel_origin_for_job` finds no conversation for the run's reply. |

Others were found with `DaemonEngine` and have no run of their own; each is a hazard in
`PROJECT.json`, at its line.

| Where | What happens | The text |
|---|---|---|
| `engine.rs:2246` | A pause from the CLI or a controller sets only `pause_requested`; the next tick overwrites it with the row's suspend latch. | `docs/features.md:405` "Pause and resume reach the loops that can honour them" |
| `store.rs:437` | A job enqueued paused and then resumed is visited by no loop until the daemon restarts. | `m6a_desktop_bridge.rs:408` "no fallible activation step left that could strand a daemon-owned job" |
| `engine.rs:2843` | A child that dies before Started on its last attempt is queued again by `reconcile_interrupted`, without bound. | `engine.rs:582` "a job cannot out-live the kind's ceiling" |
| `engine.rs:2203` | A stop latched on an interrupted attempt's row does not reach the attempt that replaces it. | `docs/agent-os-roadmap.md:993` "Durable *intent* survives a restart" |
| `engine.rs:3018` | The run of a cancelled parked job stays in `cancelling`. | `engine.rs:1428` "cannot remain in `cancelling` forever" |
| `engine.rs:3018` | A crash between `cancel_queued`'s two writes, or between those of a refused start whose job is then cancelled, makes every later tick fail on the terminal run. | `docs/agent-os-roadmap.md:4278` "recovers from crashes and resumes queued jobs" |

## 5. What is proved

For every value of the constants that satisfies the named assumptions:

| Module | Theorem | Statement | Assumes |
|---|---|---|---|
| `DaemonEngine_proofs` | `TypeCorrect` | `Spec => []TypeOK` | - |
| | `LeaseAlwaysHeld` | `Spec => []LeaseHeld` | - |
| | `RunExecutedOnce` | `Spec => []ExecutedOnce` | `BootWithinLease` |
| | `DaemonImplementsContract` | `Spec => ImplementsContract` | `BootWithinLease` |
| `DaemonSupervision_proofs` | `RowsNeverDouble` | `Spec => []OneLiveRow` | - |
| | `ChildrenSupervised` | `Spec => []Supervised` | no `"enqrace"` |
| | `SlotsRespected` | `Spec => []SlotsBound` | no `"enqrace"` |
| | `FrozenNeverForgotten` | `Spec => []FrozenIsPaused` | no `"enqrace"`, `~LiveHandoff` |
| `DaemonAgreement_proofs` | `JobsAndRunsAgree` | `Spec => []TerminalAgreement` | no `"enqrace"` |
| | `FirstEndStands` | `Spec => EndsStand` | - |
| | `OverForGood` | `Spec => JobsStayOver` | no `"enqrace"` |
| | `QueueRespected` | `Spec => []QueueBound` | no `"enqrace"` |
| `SwarmCluster_proofs` | `TypeCorrect` | `Spec => []TypeOK` | - |
| | `AtMostOneLeader` | `Spec => []OneLeader` | `QuietEnrol` |
| | `TermsFence` | `Spec => []EpochFenced` | `QuietEnrol` |
| | `ElectionImplementsLease` | `Spec => ImplementsLease` | `QuietEnrol` |
| `SwarmRecovery_proofs` | `TypeCorrect` | `Spec => []TypeOK` | - |
| | `IntentDurable` | `Spec => []IntentReplicated` | `QuietPublish` |
| | `RecoverySafe` | `Spec => []NoDoubleExecution` | `QuietPublish` |
| | `OneCopy` | `Spec => []OneCopyPerInstallation` | - |
| `ChannelOutbox_proofs` | `TypeCorrect` | `Spec => []TypeOK` | - |
| | `AtMostOnce` | `Spec => []SentAtMostOnce` | - |
| | `RowsTruthful` | `Spec => []RowTellsTruth` | - |
| | `AttemptsCounted` | `Spec => []AttemptsAreRequests` | - |
| | `EchoIgnored` | `Spec => []OwnEchoIgnored` | a large enough ledger |
| `ConversationIngress_proofs` | `TypeCorrect` | `Spec => []TypeOK` | - |
| | `NothingLost` | `Spec => []NothingSkipped` | - |
| | `FrozenRuns` | `Spec => []RunsWhatWasAccepted` | - |
| | `DecisionStands` | `Spec => []IgnoredNeverRuns` | - |

Each uses the assumption of its module on its constants (`DaemonAssumption`,
`RosterAssumption` and `ClockAssumption`, `RecoveryAssumption`, `OutboxAssumption`, `IngressAssumption`).
No `"enqrace"` means `"enqrace" \notin Inputs`: no daemon is started while a client is between
the writes of an enqueue.  It is used in one place, the case of `Start` in `EnqueueStep`, and
it cannot be dropped (section 3, known limits).  Neither live handoff nor
`BootWithinLease` is assumed unless the table says so: the proofs cover daemons that
adopt workers and children of any speed.

**Daemon.**  The argument has four layers, each an inductive invariant that relies on
the ones before it.

1. *Memory, store and leases.*  `TypeOK /\ PhaseInv /\ StoreInv` is inductive.
   `TypeOK` is not inductive alone: `RecordSpawn` counts an attempt, and that it stays
   within the children started needs `attempt <= spawns`.  `PhaseInv` says what the
   daemon's place in its loop implies for its memory (a job being scheduled is
   not running; a job being recovered is not queued), `StoreInv` that memory,
   store and lease name the same child.  `LeaseHeld` follows.
2. *Execution.*  `ExecutedOnce` needs to know that a child which may still
   pass Started excludes every other.  `UnstartedInv`: it is the last one spawned, and its
   lease is held for it or has not run out since its daemon died - here
   `BootWithinLease` is used, in `LeaseExpires` and nowhere else.  `BegunInv`: while
   a child may pass the submission, nothing has begun.  `AcceptedInv`: a run that
   was never submitted has no job that is queued or started, which the refinement
   needs for its first step.
3. *Supervision.*  `EnqueueInv`: a job whose enqueue is under way was touched by nobody but
   a cancellation, so the lists the daemon works through hold jobs in the state in
   which the loop found them.  `ChildInv`: the pid in the store and the child in
   memory are one, except for the jobs recovery has still to visit, and every
   live child that is not lost is that one or the one just started; `Supervised` follows.
   `SlotsInv` counts the jobs with a pid, one less while a child is started; the live
   children are mapped to those jobs one to one (`SlotsCount`), which gives `SlotsBound`.
   `FrozenInv` adds to `FrozenIsPaused` that a stopped child's run never shows as waiting for
   permission, since `tick_active` would then take the job out of the paused state.
   `RowInv` needs none of this: between sweep and projection a job that is not over has its current
   row at most, although clients move jobs in between.
4. *Job and run.*  `TerminalAgreement` relates two databases, so the invariant describes what
   a handler has done in one and not yet in the other.  `UnlinkedInv`: before a job is
   linked to its run nothing happened to that run.  `QueuedInv`: a run that ended while
   its job is queued was ended by a cancellation cut short, so that the job is not
   scheduled again, by a refusal cut short, whose run has failed as the job will,
   or by a lost child, which is an exception of the property.  `AgreementInv`: between the
   writes of `cancel_queued` the run is already cancelled, between those of a refusal it is over, and a job cancelled before its run was
   linked never had a child, which makes that exception last.  `EndStep` shows that no writer
   replaces a run's end, which the contract leaves open (it knows only that a run is
   over).  `OpenStep` shows action by
   action that no job leaves a terminal state and that only `insert_preparing` makes
   one; `JobsStayOver` is that, and with the count of `QueueInv` it gives `QueueBound`.

`ContractStep` maps every action to a step of `RunContract` or a stutter; only the
submissions, `WorkerBegin` and the writers of terminal events move it.  Each
step lemma (`TypeStep`, `PhaseStep`, `StoreStep`, `UnstartedStep`, `BegunStep`,
`AcceptedStep`, `ContractStep`, and in the other two modules `RowStep`, `EnqueueStep`, `ChildStep`,
`SlotsStep`, `FrozenStep`, `UnlinkedStep`, `QueuedStep`, `AgreementStep`, `EndStep`, `OpenStep`) has one case per action; the
actions that touch none of the variables concerned are one case together.
All these invariants are definitions of `DaemonEngine`, and TLC has checked them on the instances of
`control`, `execution` and `handoff` (without the enqueue race) before they were proved.

**Election.**  The times of several clocks are compared in real time.  `Backed(v, n, k, u)` says
that until the real time `u` the vote of `v` is for `n` in term `k`, and exclusive.  `CampaignInv` says it of every receipt of a campaign, `LeaseInv` of
every voter behind a lease, until that lease ends: the safety margin pays for
the adjustments of the two clocks.  Two leases that are both alive have quorums
that share a voter, who would be bound to both.  `EnrolInv` says that the vote of a
member under enrolment has expired; `QuietEnrol` is used there.  `HeldInv` keeps, for every
term that was ever held, a majority that will not vote below it; `EpochFenced`
follows.  `ElectionImplementsLease` adds that no step moves the lease between members, or terms,
without a moment in which it is free.

**Recovery.**  `OrderInv`: published checkpoints are ordered by their numbers the way
the graph moved (`Behind`), so a peer that saw an attempt keeps seeing it; it needs
`QuietPublish` to know that a capture is numbered in the order it was read.  `TermInv`: once
anything of a recovery exists, a later term than the graph's has been granted, so
the source no longer owns the epoch and can check nothing more.  `QuorumInv`: from the
last check on, a majority is `Aware` of the attempt: its checkpoint, and every answer
and witness taken from it in a later term, shows it.  A successor's own majority
meets that one, and a checkpoint with every task pending shows nothing
(`PendingShowsNothing`), so it is not eligible (`EligibleUntouched`, `RecoveredInv`).  None of
this asks for a lease in force: a plan is eligible by answers of a majority,
which has a second member, and an answer is only taken in a later term (`EligibleLate`).  `CopyInv` is about claims alone.

**Outbox.**  Every message is `Clean` (nothing out), `Away` (one request out) or `Once` (taken).
`RowInv` ties the states of a row to these, `PassInv` and `CurInv` the rows of a pass to its
place, `AttemptInv` the counters.  `EchoInv`: a message that was taken and can still be
echoed is in the ledger, or unresolved, or its account is marked, or it is in `lost`.  The check reads
the rows before the ledger, the opposite order of the worker's writes, which is
what makes that part sound; the marker is read first, hence the third kind of
`lost` message.

**Ingress.**  `Good` says of one pass what it may rely on: a turn it is about to submit
exists and has the frozen recipe it carries; everything below its cursor target
is recorded, or still in its batch, or missed.  It is stable under the steps of
other passes, because events and turns only grow (`Grows`, `GoodKept`).  `StoreInv` relates the
three tables.

Only model-checked: the liveness properties `CancelLeadsToEnd`, `QueueMoves`, `QueuedSettles` and
`EventSettles`: fairness and ENABLED are outside the prover.  Every safety property that a
passing run checks is stated by a theorem.  `QueueBound` is proved and checked by no run
of its own: it takes more jobs than the queue holds to say anything.

## 6. Not modelled

The repository has over half a million lines of implementation in some 350 files.
Most of it is not a state machine that a model would say something about: the
front end, model serving and speech, skills and extensions, the adapters of
individual providers and tools, prompts, rendering and packaging.  A model of it
would restate its code.  The map therefore covers a small share of the lines,
and the part of it with concurrent writers, crashes and messages between
machines is where the modules are.  Components that are left out are listed in
`PROJECT.json` with their reasons; of these, triggers and deliveries, scheduling and
the workflow core are worth modelling.

## 7. Plan

1. *Done*: `RunProtocol`, `ProcessRow`, `RunContract`, `DaemonEngine`; `SwarmLease`, `SwarmCluster`, `SwarmRecovery`; `ChannelOutbox`,
   `ConversationIngress`; and the proofs above.
2. `RunLedger`: several writers of one run, the sequence number computed before
   the insert, several approvals and mutations, checkpoints; refined by the status
   machine `DaemonEngine` uses.
3. `Scheduler` and `Admission`: ranking, aging, the starvation bound, preemption
   victims, reservations, as pure definitions checked against reference
   definitions; composed with `schedule`.
4. `Deliveries`: reserve, activate and submit a trigger's delivery across two
   databases, with crashes; the abstract specification is "one job per delivery".
5. Swarm: rosters whose majorities do not meet, pruning of stored checkpoints,
   mutation contracts, two successors for one graph.
6. Process-table reaping across owners; a property that bounds what the enqueue
   race can damage.
7. Proofs: what remains true of children and jobs when a daemon starts during an
   enqueue, and the modules of 2 to 4 as they are written.

---------------------------- MODULE SwarmRecovery ----------------------------
(***************************************************************************)
(* A clustered graph of the resident swarm: its dispatch by the leader that *)
(* registered it, the replication of its state to the other members, and    *)
(* its recovery by a later leader (daemon/swarm_coordinator.rs,             *)
(* swarm_task_retry.rs, swarm_replication.rs, swarm_quorum.rs,              *)
(* swarm_recovery_witness.rs, swarm_failover.rs).                           *)
(*                                                                         *)
(* One member, Source, registers the graph.  Before a task becomes a job    *)
(* its intent is written to the graph, published to the peers and read back *)
(* from a majority of them.  Another member that an operator has armed with *)
(* the same graph may register a copy once it leads: it asks the peers what *)
(* they hold and must find a majority that saw every task untouched.        *)
(*                                                                         *)
(* The lease is the one SwarmLease specifies and SwarmCluster implements;   *)
(* its terms grow, as SwarmCluster's EpochFenced says.  Ages (of            *)
(* acknowledgments, witnesses and checkpoints) are not counted: what may be *)
(* too old may be forgotten at any moment.                                  *)
(***************************************************************************)
EXTENDS Integers, FiniteSets

CONSTANTS
    Members,      \* the enrolled roster
    Source,       \* the member that registers the graph
    Nodes,        \* the tasks of the graph
    Deps,         \* Deps[n]: the tasks n depends on
    Fallback,     \* tasks with an alternate recipe
    MaxParallel,  \* max_parallel of the graph
    MaxReassign,  \* MAX_READ_ONLY_REASSIGNMENTS
    Plans,        \* failover plans an operator may arm at a member
    NoPlan, NoNode, NoSnap,
    QuietPublish, \* swarm-replicate never runs between two statements of another capture
    Inputs,       \* what happens in this instance
    MaxTerm,      \* bound: terms granted
    MaxSeq        \* bound: checkpoints published

Peers      == Members \ {Source}
Publishers == {"worker", "operator"}
Majorities == {Q \in SUBSET Members : 2 * Cardinality(Q) > Cardinality(Members)}
MaxStage(n) == IF n \in Fallback THEN 1 ELSE MaxReassign
Jobs       == {j \in Nodes \X (0 .. MaxReassign + 1) : j[2] <= MaxStage(j[1])}

GraphStates == {"none", "running", "cancelling", "failing", "succeeded", "failed", "cancelled"}
NodeStates  == {"pending", "pending_fallback", "preparing", "submitted",
                "succeeded", "failed", "cancelled"}
Waiting     == {"pending", "pending_fallback"}
NodeRow  == {r \in [state : NodeStates, stage : 0 .. MaxReassign + 1] :
                r.state = "pending" => r.stage = 0}
Vector   == [term : 0 .. MaxTerm, graph : GraphStates, nodes : [Nodes -> NodeRow]]
Snapshot == [seq : 1 .. MaxSeq, vec : Vector]

ASSUME RecoveryAssumption ==
    /\ IsFiniteSet(Members) /\ Source \in Members
    /\ Fallback \subseteq Nodes /\ Deps \in [Nodes -> SUBSET Nodes]
    /\ NoPlan \notin Plans /\ NoNode \notin Nodes
    /\ NoSnap \notin [seq : 0 .. MaxSeq, vec : Vector]
    /\ MaxParallel \in Nat /\ MaxReassign \in Nat /\ MaxTerm \in Nat /\ MaxSeq \in Nat
    /\ QuietPublish \in BOOLEAN
    /\ Inputs \subseteq {"cancel", "crash", "refuse", "kill", "publish", "arm", "lead"} \X Members

VARIABLES
    holders,    \* the lease: <<member, term>>
    last,       \* the highest term granted so far
    row,        \* row[m]: term of m's lease row, kept after it expires
    graph,      \* resident_swarm_graphs and _graph_owners at Source
    node,       \* resident_swarm_nodes and _task_reassignments at Source
    jobs,       \* the daemon jobs of the graph at Source
    tick,       \* the dispatch the coordinator's tick is in the middle of
    seq,        \* resident_swarm_checkpoint_outbox
    pub,        \* a publication in progress, by publisher
    posts,      \* checkpoints on their way to a peer
    replica,    \* resident_swarm_peer_checkpoints of each peer
    acks,       \* resident_swarm_quorum_acks at Source
    asked,      \* <<member, peer>>: recovery readbacks not answered yet
    answers,    \* answers to them not recorded yet
    witness,    \* resident_swarm_takeover_witnesses of each member
    plan,       \* resident_swarm_failover_plans of each member
    claim,      \* resident_swarm_failover_sources of each member
    consume,    \* the plan a member's failover worker is executing
    copies,     \* plans whose graph is registered at a member
    kill        \* members whose kill switch is on

leaseVars  == <<holders, last, row>>
graphVars  == <<graph, node, jobs, tick>>
pubVars    == <<seq, pub, posts, replica, acks>>
readVars   == <<asked, answers, witness>>
planVars   == <<plan, claim, consume, copies>>
vars == <<leaseVars, graphVars, pubVars, readVars, planVars, kill>>

Lease == INSTANCE SwarmLease WITH Terms <- 1 .. MaxTerm

Idle   == [node |-> NoNode, step |-> "idle"]
NoPub  == [step |-> "idle", to |-> Source, vec |-> NoSnap, seq |-> 0]
Unseen == [term |-> 0, snap |-> NoSnap]
NoWork == [plan |-> NoPlan, step |-> "idle"]

\* The values every variable can take.
TypeOK ==
    /\ holders \subseteq Members \X (1 .. MaxTerm)
    /\ last \in 0 .. MaxTerm
    /\ row \in [Members -> 0 .. MaxTerm]
    /\ graph \in [state : GraphStates, term : 0 .. MaxTerm]
    /\ node \in [Nodes -> NodeRow]
    /\ jobs \in [Jobs -> {"none", "live", "succeeded", "failed", "cancelled"}]
    /\ tick \in [node : Nodes, step : {"checked", "enqueued"}] \cup {Idle}
    /\ seq \in 0 .. MaxSeq
    /\ pub \in [Publishers ->
          [step : {"read", "posted", "verified"}, to : Peers, vec : Vector, seq : 0 .. MaxSeq]
            \cup {NoPub}]
    /\ posts \subseteq [to : Peers, snap : Snapshot]
    /\ replica \in [Peers -> Snapshot \cup {NoSnap}]
    /\ acks \subseteq [peer : Peers, vec : Vector]
    /\ asked \subseteq Peers \X Peers
    /\ answers \subseteq [by : Peers, peer : Peers, snap : Snapshot \cup {NoSnap}]
    /\ witness \in [Peers -> [Peers -> [term : 0 .. MaxTerm, snap : Snapshot \cup {NoSnap}]]]
    /\ plan \in [Peers -> [Plans -> {"none", "armed", "claimed", "imported", "failed"}]]
    /\ claim \in [Peers -> Plans \cup {NoPlan}]
    /\ consume \in [Peers -> [plan : Plans, step : {"eligible", "claimed", "submit", "mark"}]
                               \cup {NoWork}]
    /\ copies \in [Peers -> SUBSET Plans]
    /\ kill \subseteq Members

Init ==
    /\ Lease!Init /\ last = 0 /\ row = [m \in Members |-> 0]
    /\ graph = [state |-> "none", term |-> 0]
    /\ node = [n \in Nodes |-> [state |-> "pending", stage |-> 0]]
    /\ jobs = [j \in Jobs |-> "none"] /\ tick = Idle
    /\ seq = 0 /\ pub = [p \in Publishers |-> NoPub] /\ posts = {}
    /\ replica = [x \in Peers |-> NoSnap] /\ acks = {}
    /\ asked = {} /\ answers = {}
    /\ witness = [m \in Peers |-> [x \in Peers |-> Unseen]]
    /\ plan = [m \in Peers |-> [p \in Plans |-> "none"]]
    /\ claim = [m \in Peers |-> NoPlan]
    /\ consume = [m \in Peers |-> NoWork]
    /\ copies = [m \in Peers |-> {}] /\ kill = {}
-----------------------------------------------------------------------------
(* The lease and the kill switch *)

Elect(m, t) ==
    /\ <<"lead", m>> \in Inputs /\ t > last
    /\ Lease!Grant(m, t)
    /\ last' = t /\ row' = [row EXCEPT ![m] = t]
    /\ UNCHANGED <<graphVars, pubVars, readVars, planVars, kill>>

Lapse ==
    /\ holders # {} /\ Lease!Lapse
    /\ UNCHANGED <<last, row, graphVars, pubVars, readVars, planVars, kill>>

KillSwitch(m) ==
    /\ <<"kill", m>> \in Inputs
    /\ kill' = IF m \in kill THEN kill \ {m} ELSE kill \cup {m}
    /\ UNCHANGED <<leaseVars, graphVars, pubVars, readVars, planVars>>

MaySchedule(m) == \E t \in 1 .. MaxTerm : <<m, t>> \in holders

\* owns_current_epoch: leads, and under the very term it registered the graph in.
OwnsCurrentEpoch == graph.state # "none" /\ <<Source, graph.term>> \in holders
-----------------------------------------------------------------------------
(* The graph at Source: submit, request_cancel and the parts of tick *)

Submit ==
    /\ graph.state = "none"
    /\ \E t \in 1 .. MaxTerm : <<Source, t>> \in holders /\ graph' = [state |-> "running", term |-> t]
    /\ UNCHANGED <<leaseVars, node, jobs, tick, pubVars, readVars, planVars, kill>>

RequestCancel ==
    /\ <<"cancel", Source>> \in Inputs /\ graph.state = "running"
    /\ graph' = [graph EXCEPT !.state = "cancelling"]
    /\ UNCHANGED <<leaseVars, node, jobs, tick, pubVars, readVars, planVars, kill>>

\* The daemon runs a job to its end (needs_reconciliation counts as cancelled).
JobEnds(j, s) ==
    /\ jobs[j] = "live" /\ s \in {"succeeded", "failed", "cancelled"}
    /\ jobs' = [jobs EXCEPT ![j] = s]
    /\ UNCHANGED <<leaseVars, graph, node, tick, pubVars, readVars, planVars, kill>>

JobOf(n) == <<n, node[n].stage>>

\* tick serves a graph: a running one only under its owner's term.
TickOpen ==
    /\ tick = Idle
    /\ \/ graph.state = "running" /\ OwnsCurrentEpoch
       \/ graph.state \in {"cancelling", "failing"}

JobOver(n) == node[n].state = "submitted" /\ jobs[JobOf(n)] # "live"
Failure    == \E n \in Nodes : node[n].state = "failed"
Stopping   == graph.state \in {"cancelling", "failing"} \/ Failure

\* mutant: a task to be tried again is pending, as if it had never been touched.
NextRow_Pending(n) ==
    LET r == node[n]  s == jobs[JobOf(n)]  more == s = "failed" /\ r.stage < MaxStage(n) IN
    IF s = "succeeded" THEN [r EXCEPT !.state = "succeeded"]
    ELSE IF more THEN [state |-> "pending", stage |-> r.stage + 1]
    ELSE [r EXCEPT !.state = "failed"]

\* What a submitted task becomes when its job is over.
NextRow(n) ==
    LET r == node[n]  s == jobs[JobOf(n)]  more == s = "failed" /\ r.stage < MaxStage(n) IN
    CASE s = "succeeded"            -> [r EXCEPT !.state = "succeeded"]
      [] more /\ n \in Fallback     -> [state |-> "pending_fallback", stage |-> r.stage + 1]
      [] more /\ n \notin Fallback  -> [state |-> "preparing", stage |-> r.stage + 1]
      [] OTHER                      -> [r EXCEPT !.state = "failed"]

TickNote(n) ==
    /\ TickOpen /\ JobOver(n)
    /\ node' = [node EXCEPT ![n] = NextRow(n)]
    /\ UNCHANGED <<leaseVars, graph, jobs, tick, pubVars, readVars, planVars, kill>>

\* Every task that has not become a job is cancelled; a job is asked to stop,
\* which one that has not started (C) does at once.
TickStop(C) ==
    LET live == {n \in Nodes : node[n].state = "submitted" /\ n \notin C} IN
    /\ TickOpen /\ Stopping
    /\ \A n \in Nodes : ~JobOver(n)
    /\ \A n \in C : node[n].state = "submitted"
    /\ jobs' = [j \in Jobs |-> IF \E n \in C : j = JobOf(n) THEN "cancelled" ELSE jobs[j]]
    /\ node' = [n \in Nodes |-> IF node[n].state \in Waiting \cup {"preparing"}
                                THEN [node[n] EXCEPT !.state = "cancelled"] ELSE node[n]]
    /\ graph' = [graph EXCEPT !.state =
           IF live = {} THEN IF Failure \/ @ = "failing" THEN "failed" ELSE "cancelled"
           ELSE IF Failure THEN "failing" ELSE @]
    /\ UNCHANGED <<leaseVars, tick, pubVars, readVars, planVars, kill>>

TickSucceed ==
    /\ TickOpen /\ ~Stopping
    /\ \A n \in Nodes : node[n].state = "succeeded"
    /\ graph' = [graph EXCEPT !.state = "succeeded"]
    /\ UNCHANGED <<leaseVars, node, jobs, tick, pubVars, readVars, planVars, kill>>

Active == {n \in Nodes : node[n].state = "submitted"}

\* The conditions under which tick goes on to dispatch n.
Dispatchable(n) ==
    /\ TickOpen /\ ~Stopping /\ OwnsCurrentEpoch /\ Source \notin kill
    /\ \A x \in Nodes : ~JobOver(x)
    /\ Cardinality(Active) < MaxParallel
    /\ \A d \in Deps[n] : node[d].state = "succeeded"

\* The intent comes first: the job's identity, before the job.
TickPrepare(n) ==
    /\ Dispatchable(n) /\ node[n].state \in Waiting
    /\ node' = [node EXCEPT ![n].state = IF jobs[JobOf(n)] # "none" THEN "submitted" ELSE "preparing"]
    /\ UNCHANGED <<leaseVars, graph, jobs, tick, pubVars, readVars, planVars, kill>>

LocalVector == [term |-> graph.term, graph |-> graph.state, nodes |-> node]

\* mutant: acknowledgments of any state of the graph are counted.
MajorityHasState_AnyState ==
    {Source} \cup {x \in Peers : \E a \in acks : a.peer = x} \in Majorities

\* majority_has_state: peers that hold exactly this state, with Source.
MajorityHasState ==
    {Source} \cup {x \in Peers : [peer |-> x, vec |-> LocalVector] \in acks} \in Majorities

\* A job written before a crash is taken over instead of written again.
TickReattach(n) ==
    /\ Dispatchable(n) /\ node[n].state = "preparing" /\ MajorityHasState
    /\ jobs[JobOf(n)] # "none"
    /\ node' = [node EXCEPT ![n].state = "submitted"]
    /\ UNCHANGED <<leaseVars, graph, jobs, tick, pubVars, readVars, planVars, kill>>

\* The last check before a task becomes a job, with a fresh clock.
TickCheck(n) ==
    /\ Dispatchable(n) /\ node[n].state = "preparing"
    /\ MajorityHasState /\ jobs[JobOf(n)] = "none"
    /\ tick' = [node |-> n, step |-> "checked"]
    /\ UNCHANGED <<leaseVars, graph, node, jobs, pubVars, readVars, planVars, kill>>

\* enqueue: the job is written, however long after the check.
Enqueue ==
    /\ tick.step = "checked"
    /\ jobs' = [jobs EXCEPT ![JobOf(tick.node)] = "live"]
    /\ tick' = [tick EXCEPT !.step = "enqueued"]
    /\ UNCHANGED <<leaseVars, graph, node, pubVars, readVars, planVars, kill>>

\* enqueue refuses: for now (backpressure), or for good.
EnqueueRefused(forGood) ==
    /\ tick.step = "checked" /\ <<"refuse", Source>> \in Inputs
    /\ tick' = Idle
    /\ IF forGood
       THEN /\ node' = [node EXCEPT ![tick.node].state = "failed"]
            /\ graph' = [graph EXCEPT !.state = "failing"]
       ELSE UNCHANGED <<node, graph>>
    /\ UNCHANGED <<leaseVars, jobs, pubVars, readVars, planVars, kill>>

TickSubmitted ==
    /\ tick.step = "enqueued"
    /\ node' = [node EXCEPT ![tick.node].state = "submitted"]
    /\ tick' = Idle
    /\ UNCHANGED <<leaseVars, graph, jobs, pubVars, readVars, planVars, kill>>
-----------------------------------------------------------------------------
(* Replication: capture_local_leader, ingest, the readback and attest_readback *)

\* The state of the graph is read, under the owner's lease as of the start of
\* the pass: one that has expired since passes too ...
CaptureRead(p, x) ==
    /\ pub[p] = NoPub
    /\ graph.state # "none" /\ row[Source] = graph.term /\ Source \notin kill
    /\ p = "worker" => graph.state \in {"running", "succeeded", "failed"}
    /\ p = "operator" => <<"publish", Source>> \in Inputs
    /\ QuietPublish => \A q \in Publishers : pub[q].step # "read"
    /\ pub' = [pub EXCEPT ![p] = [step |-> "read", to |-> x, vec |-> LocalVector, seq |-> 0]]
    /\ UNCHANGED <<leaseVars, graphVars, seq, posts, replica, acks, readVars, planVars, kill>>

\* ... and its sequence number allocated, in a transaction of its own.
CapturePost(p) ==
    /\ pub[p].step = "read" /\ seq < MaxSeq
    /\ seq' = seq + 1
    /\ pub' = [pub EXCEPT ![p].step = "posted", ![p].seq = seq + 1]
    /\ posts' = posts \cup {[to |-> pub[p].to, snap |-> [seq |-> seq + 1, vec |-> pub[p].vec]]}
    /\ UNCHANGED <<leaseVars, graphVars, replica, acks, readVars, planVars, kill>>

\* ingest's comparison with the row there is.
Newer(s, old) == old = NoSnap \/ (s.vec.term >= old.vec.term /\ s.seq > old.seq)

\* A checkpoint arrives, in any order, and is stored or refused.
Ingest(c) ==
    /\ c.to \notin kill
    /\ posts' = posts \ {c}
    /\ replica' = IF Newer(c.snap, replica[c.to])
                  THEN [replica EXCEPT ![c.to] = c.snap] ELSE replica
    /\ UNCHANGED <<leaseVars, graphVars, seq, pub, acks, readVars, planVars, kill>>

\* The second, signed request finds the very same checkpoint at the peer.
Readback(p) ==
    /\ pub[p].step = "posted"
    /\ replica[pub[p].to] = [seq |-> pub[p].seq, vec |-> pub[p].vec]
    /\ pub' = [pub EXCEPT ![p].step = "verified"]
    /\ UNCHANGED <<leaseVars, graphVars, seq, posts, replica, acks, readVars, planVars, kill>>

\* attest_readback, by the worker only.  It checks the lease with the clock
\* of the start of the pass, which an expired lease passes too.
Attest ==
    /\ pub["worker"].step = "verified" /\ Source \notin kill
    /\ acks' = acks \cup {[peer |-> pub["worker"].to, vec |-> pub["worker"].vec]}
    /\ pub' = [pub EXCEPT !["worker"] = NoPub]
    /\ UNCHANGED <<leaseVars, graphVars, seq, posts, replica, readVars, planVars, kill>>

\* A publication is given up (no answer, another checkpoint read back, the
\* attestation refused) or, by the operator's command, is over.
PublishEnd(p) ==
    /\ pub[p] # NoPub
    /\ pub' = [pub EXCEPT ![p] = NoPub]
    /\ UNCHANGED <<leaseVars, graphVars, seq, posts, replica, acks, readVars, planVars, kill>>

AckAges(a) ==
    /\ acks' = acks \ {a}
    /\ UNCHANGED <<leaseVars, graphVars, seq, pub, posts, replica, readVars, planVars, kill>>
-----------------------------------------------------------------------------
(* Recovery: refresh and record, then the failover plan *)

\* The operator arms a plan, with a bundle exported from the graph.
Arm(m, p) ==
    /\ <<"arm", m>> \in Inputs /\ graph.state # "none"
    /\ plan[m][p] = "none"
    /\ plan' = [plan EXCEPT ![m][p] = "armed"]
    /\ UNCHANGED <<leaseVars, graphVars, pubVars, readVars, claim, consume, copies, kill>>

\* A pass of the failover worker starts: the leader asks every other peer.
\* (Source is asked too; it holds no checkpoint of its own graph.)
RefreshStart(m) ==
    /\ MaySchedule(m) /\ m \notin kill
    /\ consume[m] = NoWork
    /\ \E p \in Plans : plan[m][p] \in {"armed", "claimed"}
    /\ asked' = (asked \ ({m} \X Peers)) \cup ({m} \X (Peers \ {m}))
    /\ answers' = {a \in answers : a.by # m}
    /\ UNCHANGED <<leaseVars, graphVars, pubVars, witness, planVars, kill>>

PeerAnswers(m, x) ==
    /\ <<m, x>> \in asked
    /\ asked' = asked \ {<<m, x>>}
    /\ answers' = answers \cup {[by |-> m, peer |-> x, snap |-> replica[x]]}
    /\ UNCHANGED <<leaseVars, graphVars, pubVars, witness, planVars, kill>>

\* What record accepts next to the row of the same leader term there is.
Recordable(old, t, s) ==
    /\ s # NoSnap => s.vec.term < t
    /\ old.term = t /\ old.snap # NoSnap =>
           /\ s # NoSnap
           /\ s.vec.term >= old.snap.vec.term /\ s.seq >= old.snap.seq

\* record, under the term of the lease row, with the clock of the start of
\* the pass, which an expired lease passes too.
Record(a) ==
    /\ a.by \notin kill /\ row[a.by] > 0
    /\ answers' = answers \ {a}
    /\ witness' = IF Recordable(witness[a.by][a.peer], row[a.by], a.snap)
                  THEN [witness EXCEPT ![a.by][a.peer] = [term |-> row[a.by], snap |-> a.snap]]
                  ELSE witness
    /\ UNCHANGED <<leaseVars, graphVars, pubVars, asked, planVars, kill>>

WitnessAges(m, x) ==
    /\ witness[m][x] # Unseen
    /\ witness' = [witness EXCEPT ![m][x] = Unseen]
    /\ UNCHANGED <<leaseVars, graphVars, pubVars, asked, answers, planVars, kill>>

AllPending(s) == \A n \in Nodes : s.vec.nodes[n].state = "pending"

\* mutant: the peers' copies are counted, not read.
ConfirmsNoDispatch_Unread(m, t) ==
    {m} \cup {x \in Peers : witness[m][x].term = t /\ witness[m][x].snap # NoSnap} \in Majorities

\* majority_confirms_no_dispatch: the peers that hold a copy, as seen in this
\* term, make a majority with m, and none of them saw a task touched.
ConfirmsNoDispatch(m, t) ==
    LET said == {x \in Peers : witness[m][x].term = t /\ witness[m][x].snap # NoSnap} IN
    /\ \A x \in said : witness[m][x].snap.vec.term < t /\ AllPending(witness[m][x].snap)
    /\ {m} \cup said \in Majorities

\* eligible, with the clock of the start of run_once, which a lease that has
\* expired since passes too.
Eligible(m) ==
    /\ m \notin kill /\ row[m] > 0
    /\ replica[m] # NoSnap /\ replica[m].vec.term < row[m] /\ AllPending(replica[m])
    /\ ConfirmsNoDispatch(m, row[m])

\* consume, an armed plan: first whether it may be executed at all ...
ClaimCheck(m, p) ==
    /\ consume[m] = NoWork /\ plan[m][p] = "armed" /\ Eligible(m)
    /\ consume' = [consume EXCEPT ![m] = [plan |-> p, step |-> "eligible"]]
    /\ UNCHANGED <<leaseVars, graphVars, pubVars, readVars, plan, claim, copies, kill>>

\* mutant: the source is not claimed, only the plan.
Claim_PlanOnly(m) ==
    LET p == consume[m].plan IN
    /\ consume[m].step = "eligible"
    /\ plan' = [plan EXCEPT ![m][p] = "claimed"]
    /\ claim' = [claim EXCEPT ![m] = p]
    /\ consume' = [consume EXCEPT ![m].step = "claimed"]
    /\ UNCHANGED <<leaseVars, graphVars, pubVars, readVars, copies, kill>>

\* ... then the plan and its source are claimed together, unless another plan
\* has the source.
Claim(m) ==
    LET p == consume[m].plan IN
    /\ consume[m].step = "eligible"
    /\ IF claim[m] = NoPlan
       THEN /\ plan' = [plan EXCEPT ![m][p] = "claimed"]
            /\ claim' = [claim EXCEPT ![m] = p]
            /\ consume' = [consume EXCEPT ![m].step = "claimed"]
       ELSE consume' = [consume EXCEPT ![m] = NoWork] /\ UNCHANGED <<plan, claim>>
    /\ UNCHANGED <<leaseVars, graphVars, pubVars, readVars, copies, kill>>

\* consume, a plan claimed before: by this installation, for this source.
Resume(m, p) ==
    /\ consume[m] = NoWork /\ plan[m][p] = "claimed" /\ claim[m] = p
    /\ consume' = [consume EXCEPT ![m] = [plan |-> p, step |-> "claimed"]]
    /\ UNCHANGED <<leaseVars, graphVars, pubVars, readVars, plan, claim, copies, kill>>

\* The import goes ahead, is found done already, or waits for another pass.
\* may_schedule is asked with the clock of the start of run_once too: led is
\* its answer.
ImportCheck(m, led) ==
    LET p == consume[m].plan IN
    /\ consume[m].step = "claimed" /\ (MaySchedule(m) => led)
    /\ consume' = [consume EXCEPT ![m] =
           IF led /\ p \in copies[m] THEN [@ EXCEPT !.step = "mark"]
           ELSE IF led /\ Eligible(m) THEN [@ EXCEPT !.step = "submit"] ELSE NoWork]
    /\ UNCHANGED <<leaseVars, graphVars, pubVars, readVars, plan, claim, copies, kill>>

\* The approved bundle has changed, cannot be read or is not accepted.
ImportRefused(m) ==
    /\ <<"refuse", m>> \in Inputs /\ consume[m].step \in {"claimed", "submit"}
    /\ plan' = [plan EXCEPT ![m][consume[m].plan] = "failed"]
    /\ consume' = [consume EXCEPT ![m] = NoWork]
    /\ UNCHANGED <<leaseVars, graphVars, pubVars, readVars, claim, copies, kill>>

\* import_read_only ends in submit, which asks for a lease once more.  When it
\* has lapsed the plan is marked failed.
ImportSubmit(m) ==
    LET p == consume[m].plan IN
    /\ consume[m].step = "submit"
    /\ IF MaySchedule(m)
       THEN /\ copies' = [copies EXCEPT ![m] = @ \cup {p}]
            /\ consume' = [consume EXCEPT ![m].step = "mark"]
            /\ UNCHANGED plan
       ELSE /\ plan' = [plan EXCEPT ![m][p] = "failed"]
            /\ consume' = [consume EXCEPT ![m] = NoWork]
            /\ UNCHANGED copies
    /\ UNCHANGED <<leaseVars, graphVars, pubVars, readVars, claim, kill>>

MarkImported(m) ==
    /\ consume[m].step = "mark"
    /\ plan' = [plan EXCEPT ![m][consume[m].plan] = "imported"]
    /\ consume' = [consume EXCEPT ![m] = NoWork]
    /\ UNCHANGED <<leaseVars, graphVars, pubVars, readVars, claim, copies, kill>>

\* The daemon of m dies: calls in progress are gone, rows survive.  The
\* operator's command is a process of its own.
Crash(m) ==
    /\ <<"crash", m>> \in Inputs
    /\ IF m = Source
       THEN /\ tick' = Idle /\ pub' = [pub EXCEPT !["worker"] = NoPub]
            /\ UNCHANGED <<consume, asked, answers>>
       ELSE /\ consume' = [consume EXCEPT ![m] = NoWork]
            /\ asked' = asked \ ({m} \X Peers)
            /\ answers' = {a \in answers : a.by # m}
            /\ UNCHANGED <<tick, pub>>
    /\ UNCHANGED <<leaseVars, graph, node, jobs, seq, posts, replica, acks, witness,
                   plan, claim, copies, kill>>

Next ==
    \/ Lapse \/ Submit \/ RequestCancel
    \/ \E m \in Members, t \in 1 .. MaxTerm : Elect(m, t)
    \/ \E m \in Members : KillSwitch(m) \/ Crash(m)
    \/ \E j \in Jobs, s \in {"succeeded", "failed", "cancelled"} : JobEnds(j, s)
    \/ \E n \in Nodes : TickNote(n) \/ TickPrepare(n) \/ TickReattach(n) \/ TickCheck(n)
    \/ \E C \in SUBSET Nodes : TickStop(C)
    \/ TickSucceed \/ Enqueue \/ TickSubmitted
    \/ \E forGood \in BOOLEAN : EnqueueRefused(forGood)
    \/ \E p \in Publishers :
        \/ \E x \in Peers : CaptureRead(p, x)
        \/ CapturePost(p) \/ Readback(p) \/ PublishEnd(p)
    \/ \E c \in posts : Ingest(c)
    \/ Attest
    \/ \E a \in acks : AckAges(a)
    \/ \E m \in Peers :
        \/ \E p \in Plans : Arm(m, p) \/ ClaimCheck(m, p) \/ Resume(m, p)
        \/ \E led \in BOOLEAN : ImportCheck(m, led)
        \/ RefreshStart(m) \/ Claim(m) \/ ImportRefused(m) \/ ImportSubmit(m) \/ MarkImported(m)
        \/ \E x \in Peers : PeerAnswers(m, x) \/ WitnessAges(m, x)
    \/ \E a \in answers : Record(a)

Spec == Init /\ [][Next]_vars
-----------------------------------------------------------------------------
(* Properties *)

\* A task of the graph that became a job and a recovered copy of the graph
\* never both exist, whoever crashed, lapsed, was partitioned or answered late:
\* the recovery never runs again what the first leader has, or may have, run.
NoDoubleExecution ==
    (\E j \in Jobs : jobs[j] # "none") => \A m \in Peers : copies[m] = {}

\* The task whose row is r has been given the identity of its attempt k.
Reached(r, k) == r.stage > k \/ (r.stage = k /\ r.state \notin Waiting)

\* A checkpoint s from which the attempt of job j can be seen, and x holds one.
Shows(s, j) == s # NoSnap /\ Reached(s.vec.nodes[j[1]], j[2])
Knows(x, j) == Shows(replica[x], j)

\* Every job's intent, for this very attempt, is durable at a majority of the
\* members from before the job exists: what the successors rely on.
IntentReplicated ==
    \A j \in Jobs : jobs[j] # "none" => {Source} \cup {x \in Peers : Knows(x, j)} \in Majorities

\* Several approved plans for one source never make two copies of the graph on
\* one installation, also across crashes between claim, import and mark.
OneCopyPerInstallation == \A m \in Peers : \A p, q \in copies[m] : p = q

=============================================================================

---------------------------- MODULE SwarmCluster ----------------------------
(***************************************************************************)
(* The election of the resident swarm's leader (daemon/swarm_cluster.rs).   *)
(*                                                                         *)
(* Every member keeps three durable rows: the roster its operator enrolled, *)
(* its last vote and, when it won, its lease.  A campaign is one call of    *)
(* `campaign`: it votes for itself, asks the other members over the signed  *)
(* peer transport and, once a strict majority has answered, installs the    *)
(* lease.  The lease worker and the operator's cluster-elect command run    *)
(* campaigns of one member concurrently, in two processes.                  *)
(*                                                                         *)
(* Every timestamp is read from the clock of the member that writes it.     *)
(* The clocks are any distance apart, and each is adjusted by up to         *)
(* MaxDrift while the cluster runs.                                         *)
(***************************************************************************)
EXTENDS Integers, FiniteSets

CONSTANTS
    Members,      \* installations, by certificate fingerprint
    NoMember,     \* not a member
    Rosters,      \* the membership lists an operator may enrol
    Base,         \* how far ahead of real time each member's clock starts
    MaxDrift,     \* how far a clock is adjusted in all
    Lease,        \* LEASE_MS: how long a vote is exclusive
    Safety,       \* SAFETY_MS: how much earlier the lease ends
    Window,       \* how far a vote's time may be from the campaign's
    Margin,       \* the least a new lease must have left
    Renew,        \* a leader renews when less than this is left
    Stagger,      \* the extra wait per rank before a new term
    Rank,         \* position of a member among the sorted fingerprints
    MaxTerm,      \* MAX_ELECTION_TERM
    QuietEnrol,   \* no ballot reaches a member while its operator enrols it
    Inputs,       \* what happens, and to whom, in this instance
    MaxTime,      \* bound: real time
    MaxCampaigns, \* bound: campaigns started in all
    MaxEnrols     \* bound: enrolments started in all

Terms   == 1 .. MaxTerm
Runners == {"worker", "operator"}     \* who runs a campaign

\* voters.len() > members.len() / 2, of distinct roster members
Majorities(R) == {Q \in SUBSET R : 2 * Cardinality(Q) > Cardinality(R)}

\* The rosters in use agree enough that two majorities share a member: the
\* code compares whole rosters (digest), never two of them.
ASSUME RosterAssumption ==
    /\ Rosters \subseteq SUBSET Members /\ {} \notin Rosters
    /\ \A R \in Rosters : IsFiniteSet(R)
    /\ \A R, S \in Rosters : \A P \in Majorities(R), Q \in Majorities(S) : P \cap Q # {}

\* The safety margin covers the adjustments of the two clocks involved.
ASSUME ClockAssumption ==
    /\ NoMember \notin Members
    /\ Base \in [Members -> Int] /\ Rank \in [Members -> Nat]
    /\ MaxDrift \in Nat /\ Safety \in Nat /\ 2 * MaxDrift <= Safety
    /\ Lease \in Nat /\ Window \in Nat /\ Margin \in Nat
    /\ Renew \in Nat /\ Stagger \in Nat
    /\ MaxTerm \in Nat \ {0} /\ MaxTime \in Nat
    /\ MaxCampaigns \in Nat /\ MaxEnrols \in Nat
    /\ QuietEnrol \in BOOLEAN
    /\ Inputs \subseteq {"kill", "crash", "elect", "drift", "enrol"} \X Members

VARIABLES
    now,        \* real time
    drift,      \* drift[m]: adjustment of m's clock so far
    roster,     \* swarm_cluster_rosters
    voted,      \* swarm_cluster_votes
    lease,      \* swarm_cluster_leases of the member itself
    kill,       \* members whose kill switch is on
    enrol,      \* a `configure` call between two of its statements
    campaign,   \* campaign[m][r]: the call in progress
    ballots,    \* vote requests in flight
    started,    \* how many campaigns and enrolments there have been
    held,       \* history: every <<member, term>> that could schedule
    erased      \* history: an enrolment has deleted a vote

vars == <<now, drift, roster, voted, lease, kill, enrol, campaign, ballots,
          started, held, erased>>

Clock(m) == now + Base[m] + drift[m]

NoVote  == [term |-> 0, cand |-> NoMember, expires |-> 0]
NoLease == [term |-> 0, expires |-> 0, quorum |-> {}]
NoEnrol == [step |-> "idle", roster |-> {}]
NoCampaign == [on |-> FALSE, term |-> 0, start |-> 0, roster |-> {}, got |-> {}]

\* may_schedule: the question every other part of the swarm asks.
MaySchedule(m) ==
    /\ lease[m] # NoLease
    /\ lease[m].expires > Clock(m)

Holders == {<<m, lease[m].term>> : m \in {x \in Members : MaySchedule(x)}}

Vote == [term : 0 .. MaxTerm, cand : Members \cup {NoMember}, expires : Int]
Certificate == [term : 0 .. MaxTerm, expires : Int, quorum : SUBSET Members]
Enrolment == [step : {"roster", "leases", "votes"}, roster : Rosters] \cup {NoEnrol}
Ballot == [cand : Members, by : Runners, term : Terms, start : Int,
           roster : SUBSET Members, to : Members]
Receipt == [cand : Members, term : Terms, start : Int,
            roster : SUBSET Members, voter : Members, decided : Int, expires : Int]
Campaign == [on : BOOLEAN, term : 0 .. MaxTerm, start : Int, roster : SUBSET Members,
             got : SUBSET Receipt]

\* The rows and calls of every member.
StateTypeOK ==
    /\ now \in 0 .. MaxTime
    /\ drift \in [Members -> 0 .. MaxDrift]
    /\ roster \in [Members -> Rosters]
    /\ voted \in [Members -> Vote]
    /\ lease \in [Members -> Certificate]
    /\ kill \in SUBSET Members
    /\ enrol \in [Members -> Enrolment]
    /\ campaign \in [Members -> [Runners -> Campaign]]
    /\ ballots \in SUBSET Ballot
    /\ started \in [campaigns : 0 .. MaxCampaigns, enrols : 0 .. MaxEnrols]
    /\ erased \in BOOLEAN

\* The values every variable can take: no vote, lease or campaign ever has a
\* term outside 1 .. MAX_ELECTION_TERM, whatever term an operator asks for.
TypeOK == StateTypeOK /\ held \in SUBSET (Members \X (0 .. MaxTerm))

Init ==
    /\ now = 0
    /\ drift = [m \in Members |-> 0]
    /\ roster \in [Members -> Rosters]      \* as first enrolled
    /\ \A m \in Members : m \in roster[m]
    /\ voted = [m \in Members |-> NoVote]
    /\ lease = [m \in Members |-> NoLease]
    /\ kill = {}
    /\ enrol = [m \in Members |-> NoEnrol]
    /\ campaign = [m \in Members |-> [r \in Runners |-> NoCampaign]]
    /\ ballots = {}
    /\ started = [campaigns |-> 0, enrols |-> 0]
    /\ held = {} /\ erased = FALSE
-----------------------------------------------------------------------------
(* Time, clocks and the kill switch *)

Tick ==
    /\ now < MaxTime
    /\ now' = now + 1
    /\ UNCHANGED <<drift, roster, voted, lease, kill, enrol, campaign, ballots, started, erased>>

AdjustClock(m, d) ==
    /\ <<"drift", m>> \in Inputs /\ d # drift[m]
    /\ drift' = [drift EXCEPT ![m] = d]
    /\ UNCHANGED <<now, roster, voted, lease, kill, enrol, campaign, ballots, started, erased>>

KillSwitch(m) ==
    /\ <<"kill", m>> \in Inputs
    /\ kill' = IF m \in kill THEN kill \ {m} ELSE kill \cup {m}
    /\ UNCHANGED <<now, drift, roster, voted, lease, enrol, campaign, ballots, started, erased>>
-----------------------------------------------------------------------------
(* configure: three autocommitted statements after the check of the vote *)

ActiveVote(m) == voted[m].expires > Clock(m)

ConfigureCheck(m, R) ==
    /\ <<"enrol", m>> \in Inputs
    /\ enrol[m] = NoEnrol /\ m \in R
    /\ Clock(m) > 0
    /\ ~ActiveVote(m)
    /\ started.enrols < MaxEnrols
    /\ started' = [started EXCEPT !.enrols = @ + 1]
    /\ enrol' = [enrol EXCEPT ![m] = [step |-> "roster", roster |-> R]]
    /\ UNCHANGED <<now, drift, roster, voted, lease, kill, campaign, ballots, erased>>

ConfigureRoster(m) ==
    /\ enrol[m].step = "roster"
    /\ roster' = [roster EXCEPT ![m] = enrol[m].roster]
    /\ enrol' = [enrol EXCEPT ![m].step = "leases"]
    /\ UNCHANGED <<now, drift, voted, lease, kill, campaign, ballots, started, erased>>

ConfigureLeases(m) ==
    /\ enrol[m].step = "leases"
    /\ lease' = [lease EXCEPT ![m] = NoLease]
    /\ enrol' = [enrol EXCEPT ![m].step = "votes"]
    /\ UNCHANGED <<now, drift, roster, voted, kill, campaign, ballots, started, erased>>

ConfigureVotes(m) ==
    /\ enrol[m].step = "votes"
    /\ erased' = (erased \/ voted[m] # NoVote)
    /\ voted' = [voted EXCEPT ![m] = NoVote]
    /\ enrol' = [enrol EXCEPT ![m] = NoEnrol]
    /\ UNCHANGED <<now, drift, roster, lease, kill, campaign, ballots, started>>
-----------------------------------------------------------------------------
(* vote *)

\* mutant: an older term is accepted once the vote has expired.
VoteAllowed_OlderTerm(m, c, t) ==
    /\ t = voted[m].term => voted[m].cand = c
    /\ t # voted[m].term => ~ActiveVote(m)

\* mutant: a newer term takes the vote before it has expired.
VoteAllowed_Overlap(m, c, t) ==
    /\ t >= voted[m].term
    /\ t = voted[m].term => voted[m].cand = c

\* The voter's row allows the term: not an older one, not another candidate in
\* the same one, not a newer one while the vote is exclusive.
VoteAllowed(m, c, t) ==
    /\ t >= voted[m].term
    /\ t = voted[m].term => voted[m].cand = c
    /\ t > voted[m].term => ~ActiveVote(m)

\* mutant: the range of the term is not checked.
CanVote_AnyTerm(m, c, t, R) ==
    /\ Clock(m) > 0
    /\ roster[m] = R /\ c \in R
    /\ VoteAllowed(m, c, t)
    /\ QuietEnrol => enrol[m] = NoEnrol

\* The transaction of `vote` at voter m, for a candidate with the same roster.
\* The last conjunct is the assumption QuietEnrol, not a check of the code.
CanVote(m, c, t, R) ==
    /\ Clock(m) > 0 /\ t \in Terms
    /\ roster[m] = R /\ c \in R
    /\ VoteAllowed(m, c, t)
    /\ QuietEnrol => enrol[m] = NoEnrol

CastVote(m, c, t) ==
    voted' = [voted EXCEPT ![m] = [term |-> t, cand |-> c, expires |-> Clock(m) + Lease]]

\* What the voter signs.
ReceiptOf(m, c, t, start, R) ==
    [cand |-> c, term |-> t, start |-> start, roster |-> R, voter |-> m,
     decided |-> Clock(m), expires |-> Clock(m) + Lease]

-----------------------------------------------------------------------------
(* campaign *)

\* next_term(..).unwrap_or(1): when the terms are used up the worker asks for 1.
NextTerm(m) == IF voted[m].term + 1 > MaxTerm THEN 1 ELSE voted[m].term + 1

\* The term of the vote, or 1 when there is none.
RenewalTerm(m) == IF voted[m] = NoVote THEN 1 ELSE voted[m].term

\* The kill switch ends local leadership instead of renewing it.
CampaignUnderKill(m) ==
    /\ m \in kill
    /\ lease' = [lease EXCEPT ![m] = NoLease]
    /\ UNCHANGED <<now, drift, roster, voted, kill, enrol, campaign, ballots, started, erased>>

\* The member votes for itself and asks every other member of its roster.
CampaignStart(m, r, t) ==
    /\ m \notin kill
    /\ ~campaign[m][r].on
    /\ CanVote(m, m, t, roster[m])
    /\ CastVote(m, m, t)
    /\ campaign' = [campaign EXCEPT ![m][r] =
           [on |-> TRUE, term |-> t, start |-> Clock(m), roster |-> roster[m],
            got |-> {ReceiptOf(m, m, t, Clock(m), roster[m])}]]
    /\ ballots' = ballots \cup
           [cand : {m}, by : {r}, term : {t}, start : {Clock(m)},
            roster : {roster[m]}, to : roster[m] \ {m}]
    /\ started.campaigns < MaxCampaigns
    /\ started' = [started EXCEPT !.campaigns = @ + 1]
    /\ UNCHANGED <<now, drift, roster, lease, kill, enrol, erased>>

\* spawn_lease_worker: when the worker campaigns, and for which term.
RenewalDue(m) == MaySchedule(m) /\ lease[m].expires < Clock(m) + Renew
ElectionDue(m) ==
    /\ ~MaySchedule(m) /\ lease[m].expires <= Clock(m)
    /\ voted[m] # NoVote => voted[m].expires + Rank[m] * Stagger <= Clock(m)

LeaseWorker(m) ==
    \/ RenewalDue(m) /\ CampaignStart(m, "worker", RenewalTerm(m))
    \/ ElectionDue(m) /\ CampaignStart(m, "worker", NextTerm(m))
    \/ (RenewalDue(m) \/ ElectionDue(m)) /\ CampaignUnderKill(m)

\* The operator's cluster-elect may name any term, one out of range too.
ClusterElect(m, t) ==
    /\ <<"elect", m>> \in Inputs
    /\ CampaignStart(m, "operator", t) \/ CampaignUnderKill(m)

Voters(c) == {x.voter : x \in c.got}
HasMajority(c) == Voters(c) \in Majorities(c.roster)

\* A member answers a vote request, unless its kill switch is on.  The signed
\* receipt arrives at the campaign that asked or is lost: dropped on the way,
\* late, or not read because the campaign has its majority.  (The time an
\* answer travels is the time the campaign takes to end.)
AnswerBallot(b, arrives) ==
    LET c == campaign[b.cand][b.by] IN
    /\ b.to \notin kill
    /\ CanVote(b.to, b.cand, b.term, b.roster)
    /\ CastVote(b.to, b.cand, b.term)
    /\ ballots' = ballots \ {b}
    /\ arrives =>
           /\ c.on /\ c.term = b.term /\ c.start = b.start /\ c.roster = b.roster
           /\ ~HasMajority(c)
    /\ campaign' =
           IF arrives
           THEN [campaign EXCEPT ![b.cand][b.by].got = @ \cup
                    {ReceiptOf(b.to, b.cand, b.term, b.start, b.roster)}]
           ELSE campaign
    /\ UNCHANGED <<now, drift, roster, lease, kill, enrol, started, erased>>

\* mutant: the lease lasts as long as the votes.
LeaseExpiry_NoSafety(x) == x.expires

\* The lease ends a safety margin before the receipt x that expires first.
LeaseExpiry(x) == x.expires - Safety

\* persist_quorum: the checks of the answers against the campaign's own start.
FreshQuorum(m, c, x) ==
    /\ HasMajority(c)
    /\ roster[m] = c.roster
    /\ \A y \in c.got : y.decided \in (c.start - Window) .. (c.start + Window)
    /\ LeaseExpiry(x) > c.start + Margin

\* persist_quorum: the compare-and-set on the member's own vote and lease rows.
OwnVoteBacks(m, c) ==
    /\ voted[m].term = c.term /\ voted[m].cand = m /\ voted[m].expires > c.start
    /\ lease[m].term <= c.term

\* The end of a campaign: it has a majority, or its last ballot has failed or
\* timed out.  The lease is installed, or the one there was is deleted.
CampaignEnd(m, r, x) ==
    LET c == campaign[m][r] IN
    /\ c.on
    /\ \A y \in c.got : x.expires <= y.expires
    /\ lease' = [lease EXCEPT ![m] =
           IF FreshQuorum(m, c, x) /\ OwnVoteBacks(m, c)
           THEN [term |-> c.term, expires |-> LeaseExpiry(x), quorum |-> Voters(c)]
           ELSE NoLease]
    /\ campaign' = [campaign EXCEPT ![m][r] = NoCampaign]
    /\ UNCHANGED <<now, drift, roster, voted, kill, enrol, ballots, started, erased>>

\* The process running the campaign dies; the rows survive it.
CampaignCrash(m, r) ==
    /\ <<"crash", m>> \in Inputs
    /\ campaign[m][r].on
    /\ campaign' = [campaign EXCEPT ![m][r] = NoCampaign]
    /\ UNCHANGED <<now, drift, roster, voted, lease, kill, enrol, ballots, started, erased>>

\* The process running `configure` dies between two statements.
ConfigureCrash(m) ==
    /\ <<"crash", m>> \in Inputs
    /\ enrol[m] # NoEnrol
    /\ enrol' = [enrol EXCEPT ![m] = NoEnrol]
    /\ UNCHANGED <<now, drift, roster, voted, lease, kill, campaign, ballots, started, erased>>

Step ==
    \/ Tick
    \/ \E b \in ballots, arrives \in BOOLEAN : AnswerBallot(b, arrives)
    \/ \E m \in Members :
        \/ \E d \in 0 .. MaxDrift : AdjustClock(m, d)
        \/ KillSwitch(m)
        \/ \E R \in Rosters : ConfigureCheck(m, R)
        \/ ConfigureRoster(m) \/ ConfigureLeases(m) \/ ConfigureVotes(m)
        \/ ConfigureCrash(m)
        \/ LeaseWorker(m)
        \/ \E t \in 0 .. MaxTerm + 1 : ClusterElect(m, t)
        \/ \E r \in Runners :
            \/ \E x \in campaign[m][r].got : CampaignEnd(m, r, x)
            \/ CampaignCrash(m, r)

Next == Step /\ held' = held \cup Holders'

Spec == Init /\ [][Next]_vars
-----------------------------------------------------------------------------
(* Properties *)

\* At most one member's may_schedule answers yes at any moment, whatever the
\* order of votes, answers, renewals, enrolments, crashes and clock changes:
\* the fence every dispatch of a clustered graph relies on.
OneLeader == \A m, n \in Members : MaySchedule(m) /\ MaySchedule(n) => m = n

\* A member that may schedule does so under a higher term than every earlier
\* leader, or under the very term it was itself elected for: the comparison of
\* terms by which failover decides who is the newer leader.  It needs every
\* vote to be kept, so it ends with the first enrolment that deletes one.
EpochFenced ==
    ~erased => \A m \in Members : MaySchedule(m) =>
        \A h \in held : h[2] < lease[m].term \/ h = <<m, lease[m].term>>

Abstract == INSTANCE SwarmLease WITH holders <- Holders, Terms <- 0 .. MaxTerm

\* The election implements the lease: it is granted only when nobody holds it
\* and lapses, or is renewed under its own term, before anyone else has it.
ImplementsLease == Abstract!Spec
=============================================================================

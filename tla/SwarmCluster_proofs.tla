------------------------ MODULE SwarmCluster_proofs ------------------------
(***************************************************************************)
(* The election of SwarmCluster is safe for every set of members, every    *)
(* family of rosters whose majorities meet, every distance between the     *)
(* members' clocks and every length of the lease, as long as the safety    *)
(* margin covers what the clocks are adjusted by.                          *)
(***************************************************************************)
EXTENDS SwarmCluster, FiniteSetTheorems, TLAPS

\* Vote w of member v is exclusive until u, however v's clock is adjusted.
Lasts(w, v, u) == w.expires - Base[v] - MaxDrift >= u

\* Until real time u, member v's vote is for candidate c in term t and no other
\* vote of v can replace it.
Backed(v, c, t, u) ==
    /\ u <= now + Lease - MaxDrift
    /\ now < u => /\ voted[v].term = t /\ voted[v].cand = c
                  /\ Lasts(voted[v], v, u)

\* Up to when the votes of a campaign begun at `start` of m's clock are safe.
Secured(m, start) == start - Base[m] + Lease - 2 * MaxDrift

\* The answers a campaign has are exclusive votes, its own among them.
CampaignInv ==
    \A m \in Members, r \in Runners : campaign[m][r].on =>
        LET c == campaign[m][r] IN
        /\ c.roster \in Rosters
        /\ \E x \in c.got : x.voter = m /\ x.expires = c.start + Lease
        /\ \A x \in c.got : Backed(x.voter, m, c.term, Secured(m, c.start))

\* A ballot is answered after its campaign has begun.
BallotInv == \A b \in ballots : b.start - Base[b.cand] - MaxDrift <= now

\* Every lease rests on a majority of exclusive votes, the leader's among them.
LeaseInv ==
    \A m \in Members : lease[m] # NoLease =>
        /\ m \in lease[m].quorum
        /\ \E R \in Rosters : lease[m].quorum \in Majorities(R)
        /\ \A v \in lease[m].quorum :
               Backed(v, m, lease[m].term, lease[m].expires - Base[m])

\* While an enrolment is under way the member's vote has lapsed for good.
EnrolInv ==
    \A m \in Members : enrol[m] # NoEnrol =>
        voted[m].expires - Base[m] - MaxDrift <= now

\* A majority has voted in every term that was ever held, or in a later one.
HeldInv ==
    ~erased => \A h \in held : \E R \in Rosters : \E Q \in Majorities(R) :
        \A v \in Q : \/ voted[v].term > h[2]
                     \/ voted[v].term = h[2] /\ voted[v].cand = h[1]

IInv == TypeOK /\ CampaignInv /\ BallotInv /\ LeaseInv /\ EnrolInv /\ HeldInv
-----------------------------------------------------------------------------
(* The rosters an operator changes by one member at a time meet *)

\* Two majorities of one finite roster, and of a roster before and after one
\* member joins, share a member: RosterAssumption holds for them.
LEMMA MajoritiesMeet ==
    ASSUME NEW R, IsFiniteSet(R), NEW x,
           NEW P \in Majorities(R), NEW Q \in Majorities(R \cup {x})
    PROVE  P \cap Q # {}
<1>1. IsFiniteSet(R \cup {x}) /\ Cardinality(R) \in Nat
      /\ Cardinality(R \cup {x}) \in {Cardinality(R), Cardinality(R) + 1}
  BY FS_AddElement, FS_CardinalityType
<1>2. IsFiniteSet(P) /\ IsFiniteSet(Q) /\ Cardinality(P) \in Nat /\ Cardinality(Q) \in Nat
  BY <1>1, FS_Subset, FS_CardinalityType DEF Majorities
<1>3. 2 * Cardinality(P) > Cardinality(R) /\ 2 * Cardinality(Q) > Cardinality(R \cup {x})
  BY DEF Majorities
<1>4. Cardinality(P) + Cardinality(Q) > Cardinality(R \cup {x})
  BY <1>1, <1>2, <1>3
<1>5. P \subseteq R \cup {x} /\ Q \subseteq R \cup {x}
  BY DEF Majorities
<1> QED
  BY <1>1, <1>4, <1>5, FS_MajoritiesIntersect
-----------------------------------------------------------------------------
(* Type correctness *)

LEMMA ClockType ==
    ASSUME TypeOK, NEW m \in Members
    PROVE  /\ Clock(m) \in Int /\ now \in Nat
           /\ now + Base[m] <= Clock(m) /\ Clock(m) <= now + Base[m] + MaxDrift
BY ClockAssumption DEF TypeOK, StateTypeOK, Clock

LEMMA ReceiptType ==
    ASSUME TypeOK, NEW m \in Members, NEW c \in Members, NEW t \in Terms,
           NEW start \in Int, NEW R \in SUBSET Members
    PROVE  ReceiptOf(m, c, t, start, R) \in Receipt
BY ClockType, ClockAssumption DEF ReceiptOf, Receipt

LEMMA VoteType ==
    ASSUME TypeOK, NEW m \in Members, NEW c \in Members, NEW t, NEW R,
           CanVote(m, c, t, R), CastVote(m, c, t)
    PROVE  voted' \in [Members -> Vote] /\ t \in Terms /\ R \in Rosters /\ c \in R
<1>1. t \in Terms /\ roster[m] = R /\ c \in R
  BY DEF CanVote
<1>2. t \in 0 .. MaxTerm
  BY <1>1, ClockAssumption DEF Terms
<1>3. [term |-> t, cand |-> c, expires |-> Clock(m) + Lease] \in Vote
  BY <1>2, ClockType, ClockAssumption DEF Vote
<1> QED
  BY <1>1, <1>3 DEF TypeOK, StateTypeOK, CastVote

LEMMA NoneTypes ==
    /\ NoVote \in Vote /\ NoLease \in Certificate /\ NoCampaign \in Campaign
    /\ NoEnrol \in Enrolment
BY ClockAssumption DEF Enrolment, NoVote, Vote, NoLease, Certificate, NoCampaign, Campaign, NoEnrol

LEMMA CampaignStartType ==
    ASSUME TypeOK, NEW m \in Members, NEW r \in Runners, NEW t, CampaignStart(m, r, t)
    PROVE  /\ voted' \in [Members -> Vote]
           /\ campaign' \in [Members -> [Runners -> Campaign]]
           /\ ballots' \in SUBSET Ballot
           /\ started' \in [campaigns : 0 .. MaxCampaigns, enrols : 0 .. MaxEnrols]
<1>1. voted' \in [Members -> Vote] /\ t \in Terms /\ roster[m] \in Rosters
  BY VoteType DEF CampaignStart
<1>2. roster[m] \in SUBSET Members /\ t \in 0 .. MaxTerm /\ Clock(m) \in Int
  BY <1>1, RosterAssumption, ClockType, ClockAssumption DEF Terms
<1>3. ReceiptOf(m, m, t, Clock(m), roster[m]) \in Receipt
  BY <1>1, <1>2, ReceiptType
<1>4. [on |-> TRUE, term |-> t, start |-> Clock(m), roster |-> roster[m],
       got |-> {ReceiptOf(m, m, t, Clock(m), roster[m])}] \in Campaign
  BY <1>2, <1>3 DEF Campaign
<1>5. campaign' \in [Members -> [Runners -> Campaign]]
  BY <1>4 DEF CampaignStart, TypeOK, StateTypeOK
<1>6. [cand : {m}, by : {r}, term : {t}, start : {Clock(m)},
       roster : {roster[m]}, to : roster[m] \ {m}] \subseteq Ballot
  BY <1>1, <1>2 DEF Ballot
<1>7. started' \in [campaigns : 0 .. MaxCampaigns, enrols : 0 .. MaxEnrols]
  <2>1. started \in [campaigns : 0 .. MaxCampaigns, enrols : 0 .. MaxEnrols]
        /\ started.campaigns < MaxCampaigns
        /\ started' = [started EXCEPT !.campaigns = started.campaigns + 1]
    BY DEF CampaignStart, TypeOK, StateTypeOK
  <2>2. started.campaigns + 1 \in 0 .. MaxCampaigns
    BY <2>1, ClockAssumption
  <2> QED
    BY <2>1, <2>2
<1> QED
  BY <1>1, <1>5, <1>6, <1>7 DEF CampaignStart, TypeOK, StateTypeOK

LEMMA AnswerType ==
    ASSUME TypeOK, NEW b \in ballots, NEW arrives \in BOOLEAN, AnswerBallot(b, arrives)
    PROVE  /\ voted' \in [Members -> Vote]
           /\ campaign' \in [Members -> [Runners -> Campaign]]
           /\ ballots' \in SUBSET Ballot
<1>1. b \in Ballot /\ b.to \in Members /\ b.cand \in Members /\ b.by \in Runners
      /\ b.term \in Terms /\ b.start \in Int /\ b.roster \in SUBSET Members
  BY DEF TypeOK, StateTypeOK, Ballot
<1>2. voted' \in [Members -> Vote]
  BY <1>1, VoteType DEF AnswerBallot
<1>3. ReceiptOf(b.to, b.cand, b.term, b.start, b.roster) \in Receipt
  BY <1>1, ReceiptType
<1>4. campaign[b.cand][b.by] \in Campaign
  BY <1>1 DEF TypeOK, StateTypeOK
<1>5. [campaign[b.cand][b.by] EXCEPT !.got = @ \cup
          {ReceiptOf(b.to, b.cand, b.term, b.start, b.roster)}] \in Campaign
  BY <1>3, <1>4 DEF Campaign
<1>6. campaign' \in [Members -> [Runners -> Campaign]]
  BY <1>1, <1>5 DEF AnswerBallot, TypeOK, StateTypeOK
<1> QED
  BY <1>2, <1>6 DEF AnswerBallot, TypeOK, StateTypeOK

LEMMA CampaignEndType ==
    ASSUME TypeOK, NEW m \in Members, NEW r \in Runners, NEW x \in campaign[m][r].got,
           CampaignEnd(m, r, x)
    PROVE  /\ lease' \in [Members -> Certificate]
           /\ campaign' \in [Members -> [Runners -> Campaign]]
<1>1. campaign[m][r] \in Campaign
  BY DEF TypeOK, StateTypeOK
<1>2. /\ campaign[m][r].term \in 0 .. MaxTerm
      /\ x.expires \in Int
      /\ Voters(campaign[m][r]) \subseteq Members
  BY <1>1 DEF Campaign, Receipt, Voters
<1>3. [term |-> campaign[m][r].term, expires |-> LeaseExpiry(x),
       quorum |-> Voters(campaign[m][r])] \in Certificate
  BY <1>2, ClockAssumption DEF LeaseExpiry, Certificate
<1>4. lease' \in [Members -> Certificate]
  BY <1>3, NoneTypes DEF CampaignEnd, TypeOK, StateTypeOK
<1> QED
  BY <1>4, NoneTypes DEF CampaignEnd, TypeOK, StateTypeOK

LEMMA HoldersType ==
    ASSUME TypeOK
    PROVE  Holders \subseteq Members \X (0 .. MaxTerm)
BY DEF TypeOK, StateTypeOK, Holders, Certificate

\* Every step keeps the types of the rows and calls.
LEMMA StepType ==
    ASSUME TypeOK, Step
    PROVE  StateTypeOK'
<1> USE DEF TypeOK, StateTypeOK
<1>1. CASE Tick
  BY <1>1, ClockAssumption DEF Tick
<1>2. ASSUME NEW b \in ballots, NEW arrives \in BOOLEAN, AnswerBallot(b, arrives)
      PROVE  StateTypeOK'
  BY <1>2, AnswerType DEF AnswerBallot
<1>3. ASSUME NEW m \in Members, NEW d \in 0 .. MaxDrift, AdjustClock(m, d)
      PROVE  StateTypeOK'
  BY <1>3 DEF AdjustClock
<1>4. ASSUME NEW m \in Members, KillSwitch(m)
      PROVE  StateTypeOK'
  BY <1>4 DEF KillSwitch
<1>5. ASSUME NEW m \in Members, NEW R \in Rosters, ConfigureCheck(m, R)
      PROVE  StateTypeOK'
  <2>1. started' \in [campaigns : 0 .. MaxCampaigns, enrols : 0 .. MaxEnrols]
    <3>1. started.enrols + 1 \in 0 .. MaxEnrols
          /\ started' = [started EXCEPT !.enrols = started.enrols + 1]
      BY <1>5, ClockAssumption DEF ConfigureCheck
    <3> QED
      BY <3>1
  <2> QED
    BY <1>5, <2>1 DEF ConfigureCheck, Enrolment
<1>6. ASSUME NEW m \in Members, ConfigureRoster(m)
      PROVE  StateTypeOK'
  BY <1>6 DEF ConfigureRoster, Enrolment, NoEnrol
<1>7. ASSUME NEW m \in Members, ConfigureLeases(m)
      PROVE  StateTypeOK'
  BY <1>7, NoneTypes DEF ConfigureLeases, Enrolment, NoEnrol
<1>8. ASSUME NEW m \in Members, ConfigureVotes(m)
      PROVE  StateTypeOK'
  BY <1>8, NoneTypes DEF ConfigureVotes
<1>9. ASSUME NEW m \in Members, ConfigureCrash(m)
      PROVE  StateTypeOK'
  BY <1>9, NoneTypes DEF ConfigureCrash
<1>10. ASSUME NEW m \in Members, NEW r \in Runners, NEW t, CampaignStart(m, r, t)
       PROVE  StateTypeOK'
  BY <1>10, CampaignStartType DEF CampaignStart
<1>11. ASSUME NEW m \in Members, CampaignUnderKill(m)
       PROVE  StateTypeOK'
  BY <1>11, NoneTypes DEF CampaignUnderKill
<1>12. ASSUME NEW m \in Members, NEW r \in Runners, NEW x \in campaign[m][r].got,
              CampaignEnd(m, r, x)
       PROVE  StateTypeOK'
  BY <1>12, CampaignEndType DEF CampaignEnd
<1>13. ASSUME NEW m \in Members, NEW r \in Runners, CampaignCrash(m, r)
       PROVE  StateTypeOK'
  BY <1>13, NoneTypes DEF CampaignCrash
<1>14. \A m \in Members : LeaseWorker(m) => StateTypeOK'
  <2> SUFFICES ASSUME NEW m \in Members, LeaseWorker(m) PROVE StateTypeOK'
    OBVIOUS
  <2>1. "worker" \in Runners
    BY DEF Runners
  <2> QED
    BY <2>1, <1>10, <1>11, Zenon DEF LeaseWorker
<1>15. \A m \in Members, t \in 0 .. MaxTerm + 1 : ClusterElect(m, t) => StateTypeOK'
  BY <1>10, <1>11 DEF ClusterElect, Runners
<1> QED
  BY <1>1, <1>2, <1>3, <1>4, <1>5, <1>6, <1>7, <1>8, <1>9, <1>12, <1>13, <1>14, <1>15
     DEF Step

LEMMA TypeStep == TypeOK /\ [Next]_vars => TypeOK'
<1> SUFFICES ASSUME TypeOK, [Next]_vars PROVE TypeOK'
  OBVIOUS
<1>1. CASE Next
  <2>1. StateTypeOK'
    BY <1>1, StepType DEF Next
  <2>2. Holders' \subseteq Members \X (0 .. MaxTerm)
    BY <2>1 DEF StateTypeOK, Holders, Certificate
  <2> QED
    BY <1>1, <2>1, <2>2 DEF Next, TypeOK
<1>2. CASE UNCHANGED vars
  BY <1>2 DEF vars, TypeOK, StateTypeOK
<1> QED
  BY <1>1, <1>2

LEMMA InitType == Init => TypeOK
<1> SUFFICES ASSUME Init PROVE TypeOK
  OBVIOUS
<1>1. started \in [campaigns : 0 .. MaxCampaigns, enrols : 0 .. MaxEnrols]
      /\ now \in 0 .. MaxTime /\ drift \in [Members -> 0 .. MaxDrift]
  BY ClockAssumption DEF Init
<1> QED
  BY <1>1, NoneTypes DEF Init, TypeOK, StateTypeOK
-----------------------------------------------------------------------------
(* The inductive invariant *)

\* A vote that the rules of `vote` allow leaves every exclusive vote alone.
LEMMA VoteKeepsBacking ==
    ASSUME TypeOK, NEW m \in Members, NEW c, NEW t, NEW R,
           CanVote(m, c, t, R), CastVote(m, c, t), now' = now,
           NEW v \in Members, NEW n, NEW k, NEW u \in Int, Backed(v, n, k, u)
    PROVE  Backed(v, n, k, u)'
<1>1. CASE v # m
  BY <1>1 DEF Backed, CastVote, TypeOK, StateTypeOK
<1>2. CASE v = m /\ now < u
  <2>1. voted[m].term = k /\ voted[m].cand = n
        /\ voted[m].expires - Base[m] - MaxDrift >= u /\ u <= now + Lease - MaxDrift
    BY <1>2 DEF Backed, Lasts
  <2>2. voted[m].expires \in Int /\ voted[m].term \in Nat /\ t \in Nat
    BY ClockAssumption DEF TypeOK, StateTypeOK, Vote, CanVote, Terms
  <2>3. ActiveVote(m)
    BY <1>2, <2>1, <2>2, ClockType, ClockAssumption DEF ActiveVote
  <2>4. t = k /\ c = n
    BY <2>1, <2>2, <2>3 DEF CanVote, VoteAllowed
  <2>5. voted'[m] = [term |-> t, cand |-> c, expires |-> Clock(m) + Lease]
    BY DEF CastVote, TypeOK, StateTypeOK
  <2>6. Lasts([term |-> t, cand |-> c, expires |-> Clock(m) + Lease], m, u)
    BY <2>1, ClockType, ClockAssumption DEF Lasts
  <2>7. voted'[v].term = k /\ voted'[v].cand = n /\ Lasts(voted'[v], v, u)
    BY <1>2, <2>4, <2>5, <2>6
  <2>8. u <= now' + Lease - MaxDrift
    BY <2>1
  <2> QED
    BY <2>7, <2>8, Zenon DEF Backed, Lasts
<1>3. CASE v = m /\ ~(now < u)
  BY <1>3 DEF Backed
<1> QED
  BY <1>1, <1>2, <1>3

\* The vote just cast is exclusive for the campaign it answers.
LEMMA VoteIsBacked ==
    ASSUME TypeOK, NEW m \in Members, NEW c \in Members, NEW t, NEW R,
           CanVote(m, c, t, R), CastVote(m, c, t), now' = now,
           NEW start \in Int, start - Base[c] - MaxDrift <= now
    PROVE  Backed(m, c, t, Secured(c, start))'
<1>1. voted'[m] = [term |-> t, cand |-> c, expires |-> Clock(m) + Lease]
  BY DEF CastVote, TypeOK, StateTypeOK
<1>2. Secured(c, start) \in Int /\ Secured(c, start) <= now + Lease - MaxDrift
  BY ClockType, ClockAssumption DEF Secured
<1>3. Lasts([term |-> t, cand |-> c, expires |-> Clock(m) + Lease], m, Secured(c, start))
  BY <1>2, ClockType, ClockAssumption DEF Lasts
<1>4. voted'[m].term = t /\ voted'[m].cand = c /\ Lasts(voted'[m], m, Secured(c, start))
  BY <1>1, <1>3
<1>5. Secured(c, start) <= now' + Lease - MaxDrift
  BY <1>2
<1> QED
  BY <1>4, <1>5, Zenon DEF Backed, Secured, Lasts

\* Exclusive votes stay so while time passes and no vote is touched.
LEMMA TimeKeepsBacking ==
    ASSUME TypeOK, now' = now \/ now' = now + 1, UNCHANGED voted,
           NEW v, NEW n, NEW k, NEW u \in Int, Backed(v, n, k, u)
    PROVE  Backed(v, n, k, u)'
<1>1. u <= now' + Lease - MaxDrift
  <2>1. now \in Nat /\ MaxDrift \in Nat /\ Lease \in Nat
    BY ClockAssumption DEF TypeOK, StateTypeOK
  <2>2. u <= now + Lease - MaxDrift
    BY DEF Backed
  <2> QED
    BY <2>1, <2>2
<1>2. now' < u => now < u
  BY ClockAssumption DEF TypeOK, StateTypeOK
<1>3. now' < u => /\ voted'[v].term = k /\ voted'[v].cand = n
                  /\ Lasts(voted'[v], v, u)
  BY <1>2 DEF Backed
<1> QED
  BY <1>1, <1>3, Zenon DEF Backed, Lasts

\* What is exclusive until u is exclusive until any earlier time.
LEMMA BackedEarlier ==
    ASSUME TypeOK, NEW v \in Members, NEW n, NEW k, NEW u \in Int, Backed(v, n, k, u),
           NEW w \in Int, w <= u
    PROVE  Backed(v, n, k, w)
<1>1. voted[v].expires \in Int
  BY DEF TypeOK, StateTypeOK, Vote
<1> QED
  BY <1>1, ClockAssumption DEF Backed, Lasts, TypeOK, StateTypeOK

LEMMA InitInv == Init => IInv
<1> SUFFICES ASSUME Init PROVE IInv
  OBVIOUS
<1>1. TypeOK
  BY InitType
<1> QED
  BY <1>1 DEF Init, IInv, CampaignInv, BallotInv, LeaseInv, EnrolInv, HeldInv, NoCampaign

\* The cases of a step: a vote, the deletion of a vote, or no change of votes.
LEMMA StepVotes ==
    ASSUME TypeOK, Step
    PROVE  \/ \E m \in Members, c \in Members, t \in Terms, R \in Rosters :
                  /\ CanVote(m, c, t, R) /\ CastVote(m, c, t)
                  /\ UNCHANGED <<now, drift, enrol, erased>>
           \/ \E m \in Members : ConfigureVotes(m)
           \/ /\ UNCHANGED <<voted, erased>>
              /\ now' = now \/ now' = now + 1
<1>1. ASSUME NEW b \in ballots, NEW arrives \in BOOLEAN, AnswerBallot(b, arrives)
      PROVE  \E m \in Members, c \in Members, t \in Terms, R \in Rosters :
                  /\ CanVote(m, c, t, R) /\ CastVote(m, c, t)
                  /\ UNCHANGED <<now, drift, enrol, erased>>
  <2>1. b.to \in Members /\ b.cand \in Members
    BY DEF TypeOK, StateTypeOK, Ballot
  <2>2. CanVote(b.to, b.cand, b.term, b.roster) /\ CastVote(b.to, b.cand, b.term)
        /\ UNCHANGED <<now, drift, enrol, erased>>
    BY <1>1 DEF AnswerBallot
  <2>3. b.term \in Terms /\ b.roster \in Rosters
    BY <2>1, <2>2, VoteType
  <2> QED
    BY <2>1, <2>2, <2>3
<1>2. ASSUME NEW m \in Members, NEW r, NEW t, CampaignStart(m, r, t)
      PROVE  \E n \in Members, c \in Members, k \in Terms, R \in Rosters :
                  /\ CanVote(n, c, k, R) /\ CastVote(n, c, k)
                  /\ UNCHANGED <<now, drift, enrol, erased>>
  <2>1. CanVote(m, m, t, roster[m]) /\ CastVote(m, m, t)
        /\ UNCHANGED <<now, drift, enrol, erased>>
    BY <1>2 DEF CampaignStart
  <2>2. t \in Terms /\ roster[m] \in Rosters
    BY <2>1, VoteType
  <2> QED
    BY <2>1, <2>2
<1> DEFINE Kept == UNCHANGED <<voted, erased>> /\ (now' = now \/ now' = now + 1)
<1>3. Tick => Kept
  BY DEF Tick
<1>4. \A m \in Members :
          (\E d \in 0 .. MaxDrift : AdjustClock(m, d)) \/ KillSwitch(m) \/ CampaignUnderKill(m)
          => Kept
  BY DEF AdjustClock, KillSwitch, CampaignUnderKill
<1>5. \A m \in Members :
          (\E R \in Rosters : ConfigureCheck(m, R)) \/ ConfigureRoster(m)
          \/ ConfigureLeases(m) \/ ConfigureCrash(m) => Kept
  BY DEF ConfigureCheck, ConfigureRoster, ConfigureLeases, ConfigureCrash
<1>6. \A m \in Members, r \in Runners :
          (\E x \in campaign[m][r].got : CampaignEnd(m, r, x)) \/ CampaignCrash(m, r) => Kept
  BY DEF CampaignEnd, CampaignCrash
<1> HIDE DEF Kept
<1>7. \A m \in Members : LeaseWorker(m) \/ (\E t \in 0 .. MaxTerm + 1 : ClusterElect(m, t)) =>
          \/ Kept
          \/ \E n \in Members, c \in Members, k \in Terms, R \in Rosters :
                  /\ CanVote(n, c, k, R) /\ CastVote(n, c, k)
                  /\ UNCHANGED <<now, drift, enrol, erased>>
  BY <1>2, <1>4 DEF LeaseWorker, ClusterElect
<1>8. Kept \/ (\E m \in Members : ConfigureVotes(m))
      \/ \E n \in Members, c \in Members, k \in Terms, R \in Rosters :
                  /\ CanVote(n, c, k, R) /\ CastVote(n, c, k)
                  /\ UNCHANGED <<now, drift, enrol, erased>>
  BY <1>1, <1>3, <1>4, <1>5, <1>6, <1>7 DEF Step
<1> QED
  BY <1>8 DEF Kept

\* No step takes an exclusive vote back.
LEMMA BackingStep ==
    ASSUME QuietEnrol, IInv, Step,
           NEW v \in Members, NEW n, NEW k, NEW u \in Int, Backed(v, n, k, u)
    PROVE  Backed(v, n, k, u)'
<1> USE DEF IInv
<1>1. ASSUME NEW m \in Members, NEW c \in Members, NEW t \in Terms, NEW R \in Rosters,
             CanVote(m, c, t, R), CastVote(m, c, t), now' = now
      PROVE  Backed(v, n, k, u)'
  BY <1>1, VoteKeepsBacking
<1>2. ASSUME NEW m \in Members, ConfigureVotes(m)
      PROVE  Backed(v, n, k, u)'
  <2>1. CASE v # m
    BY <1>2, <2>1 DEF ConfigureVotes, Backed, TypeOK, StateTypeOK, Lasts
  <2>2. CASE v = m
    <3>1. voted[m].expires - Base[m] - MaxDrift <= now
      BY <1>2 DEF EnrolInv, ConfigureVotes, NoEnrol
    <3>2. voted[m].expires \in Int /\ now \in Nat
      BY ClockType DEF TypeOK, StateTypeOK, Vote
    <3>3. ~(now < u)
      BY <2>2, <3>1, <3>2, ClockAssumption DEF Backed, Lasts
    <3>4. now' = now
      BY <1>2 DEF ConfigureVotes
    <3> QED
      BY <3>3, <3>4 DEF Backed
  <2> QED
    BY <2>1, <2>2
<1>3. CASE UNCHANGED voted /\ (now' = now \/ now' = now + 1)
  BY <1>3, TimeKeepsBacking
<1> QED
  BY <1>1, <1>2, <1>3, StepVotes

\* Without a deletion, a vote is only replaced by one for a later term or for
\* the same candidate.
LEMMA VotesGrow ==
    ASSUME TypeOK, Step, ~erased', NEW v \in Members
    PROVE  /\ ~erased
           /\ \/ voted'[v].term > voted[v].term
              \/ voted'[v].term = voted[v].term /\ voted'[v].cand = voted[v].cand
<1>1. voted[v].term \in Nat /\ \A m \in Members : voted[m].term \in Nat
  BY ClockAssumption DEF TypeOK, StateTypeOK, Vote
<1>2. ASSUME NEW m \in Members, NEW c \in Members, NEW t \in Terms, NEW R \in Rosters,
             CanVote(m, c, t, R), CastVote(m, c, t)
      PROVE  \/ voted'[v].term > voted[v].term
             \/ voted'[v].term = voted[v].term /\ voted'[v].cand = voted[v].cand
  <2>1. CASE v # m
    BY <1>1, <1>2, <2>1 DEF CastVote, TypeOK, StateTypeOK
  <2>2. CASE v = m
    <3>1. voted'[v].term = t /\ voted'[v].cand = c
      BY <1>2, <2>2 DEF CastVote, TypeOK, StateTypeOK
    <3>2. t > voted[v].term \/ (t = voted[v].term /\ c = voted[v].cand)
      BY <1>1, <1>2, <2>2, ClockAssumption DEF CanVote, VoteAllowed, Terms
    <3> QED
      BY <3>1, <3>2
  <2> QED
    BY <2>1, <2>2
<1>3. ASSUME NEW m \in Members, ConfigureVotes(m)
      PROVE  ~erased /\ UNCHANGED voted
  BY <1>3 DEF ConfigureVotes, TypeOK, StateTypeOK
<1> QED
  BY <1>1, <1>2, <1>3, StepVotes

LEMMA SecuredType ==
    ASSUME TypeOK, NEW m \in Members, NEW start \in Int
    PROVE  Secured(m, start) \in Int
BY ClockAssumption DEF Secured

\* What CampaignInv says of one campaign.
CampaignOK(m, c) ==
    /\ c.roster \in Rosters
    /\ \E x \in c.got : x.voter = m /\ x.expires = c.start + Lease
    /\ \A x \in c.got : Backed(x.voter, m, c.term, Secured(m, c.start))

\* A campaign that no step touches keeps its exclusive votes.
LEMMA CampaignKept ==
    ASSUME QuietEnrol, IInv, Step, NEW m \in Members, NEW r \in Runners,
           campaign[m][r].on, campaign'[m][r] = campaign[m][r]
    PROVE  CampaignOK(m, campaign[m][r])'
<1> DEFINE c == campaign[m][r]
<1>1. c \in Campaign
  BY DEF IInv, TypeOK, StateTypeOK
<1>2. c.start \in Int /\ \A x \in c.got : x.voter \in Members
  BY <1>1 DEF Campaign, Receipt
<1>3. CampaignOK(m, c)
  BY DEF IInv, CampaignInv, CampaignOK
<1>4. Secured(m, c.start) \in Int
  BY <1>2, SecuredType DEF IInv
<1>5. \A x \in c.got : Backed(x.voter, m, c.term, Secured(m, c.start))'
  <2> SUFFICES ASSUME NEW x \in c.got
               PROVE  Backed(x.voter, m, c.term, Secured(m, c.start))'
    OBVIOUS
  <2>1. Backed(x.voter, m, c.term, Secured(m, c.start)) /\ x.voter \in Members
    BY <1>2, <1>3 DEF CampaignOK
  <2> DEFINE v == x.voter
             k == c.term
             u == Secured(m, c.start)
  <2>2. v \in Members /\ u \in Int /\ Backed(v, m, k, u)
    BY <1>4, <2>1
  <2>3. v' = v /\ k' = k /\ u' = u
    OBVIOUS
  <2> QED
    BY <2>2, BackingStep
<1> QED
  BY <1>3, <1>5 DEF CampaignOK

LEMMA CampaignStarted ==
    ASSUME QuietEnrol, IInv, NEW m \in Members, NEW r \in Runners, NEW t,
           CampaignStart(m, r, t)
    PROVE  CampaignOK(m, campaign[m][r])'
<1> DEFINE x == ReceiptOf(m, m, t, Clock(m), roster[m])
           s == Clock(m)
<1>1. CanVote(m, m, t, roster[m]) /\ CastVote(m, m, t) /\ now' = now
  BY DEF CampaignStart
<1>2. TypeOK /\ roster[m] \in Rosters /\ s \in Int /\ s - Base[m] - MaxDrift <= now
  BY <1>1, VoteType, ClockType, ClockAssumption DEF IInv
<1>3. campaign'[m][r] = [on |-> TRUE, term |-> t, start |-> s, roster |-> roster[m],
                         got |-> {x}]
  BY DEF CampaignStart, IInv, TypeOK, StateTypeOK
<1>4. x.voter = m /\ x.expires = s + Lease
  BY DEF ReceiptOf
<1> HIDE DEF x, s
<1>5. ASSUME NEW st \in Int, st = s PROVE Backed(m, m, t, Secured(m, st))'
  BY <1>1, <1>2, <1>5, VoteIsBacked
<1>6. ASSUME NEW c, c = campaign'[m][r] PROVE CampaignOK(m, c)'
  <2>1. c.roster \in Rosters /\ c.got = {x} /\ c.term = t /\ c.start = s
    BY <1>2, <1>3, <1>6
  <2>2. \E y \in c.got : y.voter = m /\ y.expires = c.start + Lease
    BY <1>4, <2>1
  <2>3. \A y \in c.got : Backed(y.voter, m, c.term, Secured(m, c.start))'
    BY <1>2, <1>4, <1>5, <2>1
  <2> QED
    BY <2>1, <2>2, <2>3 DEF CampaignOK
<1> QED
  BY <1>6 DEF CampaignOK

LEMMA CampaignAnswered ==
    ASSUME QuietEnrol, IInv, Step, NEW b \in ballots, AnswerBallot(b, TRUE)
    PROVE  CampaignOK(b.cand, campaign[b.cand][b.by])'
<1> DEFINE x == ReceiptOf(b.to, b.cand, b.term, b.start, b.roster)
           old == campaign[b.cand][b.by]
<1>1. /\ b.to \in Members /\ b.cand \in Members /\ b.by \in Runners /\ b.start \in Int
      /\ b.start - Base[b.cand] - MaxDrift <= now
  BY DEF IInv, TypeOK, StateTypeOK, Ballot, BallotInv
<1>2. CanVote(b.to, b.cand, b.term, b.roster) /\ CastVote(b.to, b.cand, b.term)
      /\ now' = now /\ old.on /\ old.term = b.term /\ old.start = b.start
  BY DEF AnswerBallot
<1>3. TypeOK /\ old \in Campaign
  BY <1>1 DEF IInv, TypeOK, StateTypeOK
<1>4. campaign'[b.cand][b.by] = [old EXCEPT !.got = old.got \cup {x}]
  BY <1>1 DEF AnswerBallot, IInv, TypeOK, StateTypeOK
<1>5. x.voter = b.to
  BY DEF ReceiptOf
<1>6. CampaignOK(b.cand, old)
  BY <1>1, <1>2 DEF IInv, CampaignInv, CampaignOK
<1>7. Backed(b.to, b.cand, b.term, Secured(b.cand, b.start))'
  BY <1>1, <1>2, <1>3, VoteIsBacked
<1>8. Secured(b.cand, b.start) \in Int /\ \A y \in old.got : y.voter \in Members
  BY <1>1, <1>3, SecuredType DEF Campaign, Receipt
<1>9. ASSUME NEW y \in old.got, NEW v, v = y.voter
      PROVE  Backed(v, b.cand, b.term, Secured(b.cand, b.start))'
  <2>1. v \in Members /\ Backed(v, b.cand, b.term, Secured(b.cand, b.start))
    BY <1>2, <1>6, <1>8, <1>9 DEF CampaignOK
  <2>2. ASSUME NEW u \in Int, u = Secured(b.cand, b.start), Backed(v, b.cand, b.term, u)
        PROVE  Backed(v, b.cand, b.term, u)'
    BY <2>1, <2>2, BackingStep
  <2> QED
    BY <1>8, <2>1, <2>2 DEF Secured
<1> HIDE DEF x
<1>10. ASSUME NEW c, c = campaign'[b.cand][b.by] PROVE CampaignOK(b.cand, c)'
  <2>1. c.roster = old.roster /\ c.got = old.got \cup {x} /\ c.term = b.term /\ c.start = b.start
    BY <1>2, <1>3, <1>4, <1>10 DEF Campaign
  <2>2. c.roster \in Rosters /\ \E y \in c.got : y.voter = b.cand /\ y.expires = c.start + Lease
    BY <1>2, <1>6, <2>1 DEF CampaignOK
  <2>3. \A y \in c.got : Backed(y.voter, b.cand, c.term, Secured(b.cand, c.start))'
    BY <1>5, <1>7, <1>9, <2>1
  <2> QED
    BY <2>2, <2>3 DEF CampaignOK
<1> QED
  BY <1>10 DEF CampaignOK

\* A step leaves a campaign alone, ends it, starts it or brings it an answer.
LEMMA CampaignCases ==
    ASSUME TypeOK, Step, NEW m \in Members, NEW r \in Runners, campaign'[m][r].on
    PROVE  \/ campaign'[m][r] = campaign[m][r]
           \/ \E t : CampaignStart(m, r, t)
           \/ \E b \in ballots : b.cand = m /\ b.by = r /\ AnswerBallot(b, TRUE)
<1> DEFINE Goal == \/ campaign'[m][r] = campaign[m][r]
                   \/ \E t : CampaignStart(m, r, t)
                   \/ \E b \in ballots : b.cand = m /\ b.by = r /\ AnswerBallot(b, TRUE)
<1>1. UNCHANGED campaign => Goal
  OBVIOUS
<1>2. ASSUME NEW b \in ballots, NEW arrives \in BOOLEAN, AnswerBallot(b, arrives)
      PROVE  Goal
  <2>1. CASE b.cand = m /\ b.by = r /\ arrives
    BY <1>2, <2>1
  <2>2. CASE ~(b.cand = m /\ b.by = r) \/ ~arrives
    BY <1>2, <2>2 DEF AnswerBallot, TypeOK, StateTypeOK, Ballot
  <2> QED
    BY <2>1, <2>2
<1>3. ASSUME NEW n \in Members, NEW q \in Runners, NEW t, CampaignStart(n, q, t)
      PROVE  Goal
  <2>1. CASE n = m /\ q = r
    BY <1>3, <2>1
  <2>2. CASE ~(n = m /\ q = r)
    BY <1>3, <2>2 DEF CampaignStart, TypeOK, StateTypeOK
  <2> QED
    BY <2>1, <2>2
<1>4. ASSUME NEW n \in Members, NEW q \in Runners,
             (\E x \in campaign[n][q].got : CampaignEnd(n, q, x)) \/ CampaignCrash(n, q)
      PROVE  Goal
  <2>1. campaign' = [campaign EXCEPT ![n][q] = NoCampaign]
    BY <1>4 DEF CampaignEnd, CampaignCrash
  <2> QED
    BY <2>1 DEF NoCampaign, TypeOK, StateTypeOK
<1>5. Tick \/ (\E n \in Members : CampaignUnderKill(n)) => UNCHANGED campaign
  BY DEF Tick, CampaignUnderKill
<1>6. \A n \in Members : (\E d \in 0 .. MaxDrift : AdjustClock(n, d)) \/ KillSwitch(n)
          => UNCHANGED campaign
  BY DEF AdjustClock, KillSwitch
<1>7. \A n \in Members :
          (\E R \in Rosters : ConfigureCheck(n, R)) \/ ConfigureRoster(n) \/ ConfigureLeases(n)
          \/ ConfigureVotes(n) \/ ConfigureCrash(n) => UNCHANGED campaign
  BY DEF ConfigureCheck, ConfigureRoster, ConfigureLeases, ConfigureVotes, ConfigureCrash
<1>8. "worker" \in Runners /\ "operator" \in Runners
  BY DEF Runners
<1> HIDE DEF Goal
<1>9. \A n \in Members : LeaseWorker(n) \/ (\E t \in 0 .. MaxTerm + 1 : ClusterElect(n, t)) => Goal
  BY <1>1, <1>3, <1>5, <1>8, Zenon DEF LeaseWorker, ClusterElect
<1>10. Goal
  BY <1>1, <1>2, <1>4, <1>5, <1>6, <1>7, <1>9 DEF Step
<1> QED
  BY <1>10 DEF Goal

LEMMA CampaignStep ==
    ASSUME QuietEnrol, IInv, Step
    PROVE  CampaignInv'
<1> SUFFICES ASSUME NEW m \in Members, NEW r \in Runners, campaign'[m][r].on
             PROVE  CampaignOK(m, campaign[m][r])'
  BY DEF CampaignInv, CampaignOK
<1>1. CASE campaign'[m][r] = campaign[m][r]
  BY <1>1, CampaignKept
<1>2. ASSUME NEW t, CampaignStart(m, r, t)
      PROVE  CampaignOK(m, campaign[m][r])'
  BY <1>2, CampaignStarted
<1>3. ASSUME NEW b \in ballots, b.cand = m, b.by = r, AnswerBallot(b, TRUE)
      PROVE  CampaignOK(m, campaign[m][r])'
  BY <1>3, CampaignAnswered
<1> QED
  BY <1>1, <1>2, <1>3, CampaignCases DEF IInv

LEMMA BallotStep ==
    ASSUME IInv, Step
    PROVE  BallotInv'
<1> SUFFICES ASSUME NEW b \in ballots'
             PROVE  b.start - Base[b.cand] - MaxDrift <= now'
  BY DEF BallotInv
<1>1. TypeOK /\ now \in Nat
  BY ClockAssumption DEF IInv, TypeOK, StateTypeOK
<1>2. now' = now \/ now' = now + 1
  BY <1>1, StepVotes DEF ConfigureVotes
<1>3. b \in ballots => b.start \in Int /\ b.cand \in Members
                       /\ b.start - Base[b.cand] - MaxDrift <= now
  BY <1>1 DEF BallotInv, IInv, TypeOK, StateTypeOK, Ballot
<1>4. CASE b \in ballots
  BY <1>1, <1>2, <1>3, <1>4, ClockAssumption
<1>5. ASSUME NEW m \in Members, NEW r, NEW t, CampaignStart(m, r, t), b \notin ballots
      PROVE  b.start - Base[b.cand] - MaxDrift <= now'
  <2>1. b.cand = m /\ b.start = Clock(m) /\ now' = now
    BY <1>5 DEF CampaignStart
  <2> QED
    BY <1>1, <2>1, ClockType, ClockAssumption
<1>6. \/ ballots' \subseteq ballots
      \/ \E m \in Members, r \in Runners : \E t : CampaignStart(m, r, t)
  <2>1. \A m \in Members : LeaseWorker(m) \/ (\E t \in 0 .. MaxTerm + 1 : ClusterElect(m, t)) =>
            \/ UNCHANGED ballots
            \/ \E r \in Runners : \E t : CampaignStart(m, r, t)
    BY DEF LeaseWorker, ClusterElect, CampaignUnderKill, Runners
  <2>2. \A m \in Members : (\E R \in Rosters : ConfigureCheck(m, R)) \/ ConfigureRoster(m)
            \/ ConfigureLeases(m) \/ ConfigureVotes(m) \/ ConfigureCrash(m)
            => UNCHANGED ballots
    BY DEF ConfigureCheck, ConfigureRoster, ConfigureLeases, ConfigureVotes, ConfigureCrash
  <2>3. \A m \in Members, r \in Runners :
            (\E x \in campaign[m][r].got : CampaignEnd(m, r, x)) \/ CampaignCrash(m, r)
            => UNCHANGED ballots
    BY DEF CampaignEnd, CampaignCrash
  <2>4. \A m \in Members : (\E d \in 0 .. MaxDrift : AdjustClock(m, d)) \/ KillSwitch(m)
            => UNCHANGED ballots
    BY DEF AdjustClock, KillSwitch
  <2>5. Tick \/ (\E x \in ballots, arrives \in BOOLEAN : AnswerBallot(x, arrives))
            => ballots' \subseteq ballots
    BY DEF Tick, AnswerBallot
  <2> QED
    BY <2>1, <2>2, <2>3, <2>4, <2>5 DEF Step
<1> QED
  BY <1>4, <1>5, <1>6

\* A step leaves a lease alone, deletes it, or installs a won campaign's.
LEMMA LeaseCases ==
    ASSUME TypeOK, Step, NEW m \in Members
    PROVE  \/ lease'[m] = lease[m]
           \/ lease'[m] = NoLease
           \/ \E r \in Runners : \E x \in campaign[m][r].got :
                  /\ CampaignEnd(m, r, x)
                  /\ FreshQuorum(m, campaign[m][r], x) /\ OwnVoteBacks(m, campaign[m][r])
<1> DEFINE Goal == \/ lease'[m] = lease[m]
                   \/ lease'[m] = NoLease
                   \/ \E r \in Runners : \E x \in campaign[m][r].got :
                          /\ CampaignEnd(m, r, x)
                          /\ FreshQuorum(m, campaign[m][r], x)
                          /\ OwnVoteBacks(m, campaign[m][r])
<1>1. UNCHANGED lease => Goal
  OBVIOUS
<1>2. ASSUME NEW n \in Members, NEW r \in Runners, NEW x \in campaign[n][r].got,
             CampaignEnd(n, r, x)
      PROVE  Goal
  BY <1>2 DEF CampaignEnd, TypeOK, StateTypeOK
<1>3. \A n \in Members : CampaignUnderKill(n) \/ ConfigureLeases(n) => Goal
  BY DEF CampaignUnderKill, ConfigureLeases, TypeOK, StateTypeOK
<1>4. Tick \/ (\E b \in ballots, arrives \in BOOLEAN : AnswerBallot(b, arrives)) => UNCHANGED lease
  BY DEF Tick, AnswerBallot
<1>5. \A n \in Members : (\E d \in 0 .. MaxDrift : AdjustClock(n, d)) \/ KillSwitch(n)
          => UNCHANGED lease
  BY DEF AdjustClock, KillSwitch
<1>6. \A n \in Members : (\E R \in Rosters : ConfigureCheck(n, R)) \/ ConfigureRoster(n)
          \/ ConfigureVotes(n) \/ ConfigureCrash(n) => UNCHANGED lease
  BY DEF ConfigureCheck, ConfigureRoster, ConfigureVotes, ConfigureCrash
<1>7. \A n \in Members : \A r, t : CampaignStart(n, r, t) => UNCHANGED lease
  BY DEF CampaignStart
<1>8. \A n \in Members, r \in Runners : CampaignCrash(n, r) => UNCHANGED lease
  BY DEF CampaignCrash
<1> HIDE DEF Goal
<1>9. \A n \in Members : LeaseWorker(n) \/ (\E t \in 0 .. MaxTerm + 1 : ClusterElect(n, t)) => Goal
  BY <1>1, <1>3, <1>7, Zenon DEF LeaseWorker, ClusterElect
<1>10. Goal
  BY <1>1, <1>2, <1>3, <1>4, <1>5, <1>6, <1>8, <1>9 DEF Step
<1> QED
  BY <1>10 DEF Goal

\* What LeaseInv says of one lease.
LeaseOK(m, l) ==
    /\ m \in l.quorum
    /\ \E R \in Rosters : l.quorum \in Majorities(R)
    /\ \A v \in l.quorum : Backed(v, m, l.term, l.expires - Base[m])

LEMMA LeaseKept ==
    ASSUME QuietEnrol, IInv, Step, NEW m \in Members, NEW l, l = lease[m], l # NoLease
    PROVE  LeaseOK(m, l)'
<1>1. LeaseOK(m, l) /\ l \in Certificate
  BY DEF IInv, LeaseInv, LeaseOK, TypeOK, StateTypeOK
<1>2. l.quorum \subseteq Members /\ l.expires - Base[m] \in Int
  BY <1>1, ClockAssumption DEF Certificate
<1>3. ASSUME NEW v \in l.quorum
      PROVE  Backed(v, m, l.term, l.expires - Base[m])'
  <2>1. ASSUME NEW u \in Int, u = l.expires - Base[m] PROVE Backed(v, m, l.term, u)'
    <3>1. v \in Members /\ Backed(v, m, l.term, u)
      BY <1>1, <1>2, <2>1 DEF LeaseOK
    <3> QED
      BY <3>1, BackingStep
  <2> QED
    BY <1>2, <2>1
<1> QED
  BY <1>1, <1>3 DEF LeaseOK

LEMMA LeaseInstalled ==
    ASSUME QuietEnrol, IInv, NEW m \in Members, NEW r \in Runners, NEW x \in campaign[m][r].got,
           CampaignEnd(m, r, x), FreshQuorum(m, campaign[m][r], x),
           NEW l, l = lease'[m],
           OwnVoteBacks(m, campaign[m][r])
    PROVE  LeaseOK(m, l)'
<1> DEFINE c == campaign[m][r]
<1>1. TypeOK /\ c \in Campaign /\ CampaignOK(m, c)
  BY DEF IInv, CampaignInv, CampaignOK, TypeOK, StateTypeOK, CampaignEnd
<1>2. /\ l.term = c.term /\ l.expires = LeaseExpiry(x) /\ l.quorum = Voters(c)
      /\ \A y \in c.got : x.expires <= y.expires
      /\ UNCHANGED <<now, voted>>
  BY DEF CampaignEnd, IInv, TypeOK, StateTypeOK
<1>3. /\ c.start \in Int
      /\ \A y \in c.got : y.voter \in Members /\ y.expires \in Int
      /\ Secured(m, c.start) \in Int
  BY <1>1, ClockAssumption DEF Campaign, Receipt, Secured
<1>4. m \in Voters(c) /\ x.expires <= c.start + Lease
  BY <1>1, <1>2 DEF CampaignOK, Voters
<1>5. LeaseExpiry(x) - Base[m] \in Int /\ LeaseExpiry(x) - Base[m] <= Secured(m, c.start)
  BY <1>3, <1>4, ClockAssumption DEF LeaseExpiry, Secured
<1>6. ASSUME NEW v \in Voters(c), NEW w \in Int, w = LeaseExpiry(x) - Base[m]
      PROVE  Backed(v, m, c.term, w)
  <2>1. v \in Members /\ Backed(v, m, c.term, Secured(m, c.start))
    BY <1>1, <1>3 DEF CampaignOK, Voters
  <2> QED
    BY <1>1, <1>3, <1>5, <1>6, <2>1, BackedEarlier
<1>7. \A v \in l.quorum : Backed(v, m, l.term, l.expires - Base[m])
  BY <1>2, <1>5, <1>6
<1>8. \A v \in l.quorum : Backed(v, m, l.term, l.expires - Base[m])'
  BY <1>2, <1>7 DEF Backed
<1>9. l.quorum \in Majorities(c.roster) /\ c.roster \in Rosters
  BY <1>1, <1>2 DEF FreshQuorum, HasMajority, CampaignOK
<1> QED
  BY <1>2, <1>4, <1>8, <1>9 DEF LeaseOK

LEMMA LeaseStep ==
    ASSUME QuietEnrol, IInv, Step
    PROVE  LeaseInv'
<1> SUFFICES ASSUME NEW m \in Members, lease'[m] # NoLease
             PROVE  \A l : l = lease'[m] => LeaseOK(m, l)'
  BY DEF LeaseInv, LeaseOK, NoLease
<1>1. CASE lease'[m] = lease[m]
  BY <1>1, LeaseKept
<1>2. ASSUME NEW r \in Runners, NEW x \in campaign[m][r].got, CampaignEnd(m, r, x),
             FreshQuorum(m, campaign[m][r], x), OwnVoteBacks(m, campaign[m][r])
      PROVE  \A l : l = lease'[m] => LeaseOK(m, l)'
  BY <1>2, LeaseInstalled
<1> QED
  BY <1>1, <1>2, LeaseCases DEF IInv

LEMMA EnrolStep ==
    ASSUME QuietEnrol, IInv, Step
    PROVE  EnrolInv'
<1> SUFFICES ASSUME NEW n \in Members, enrol'[n] # NoEnrol
             PROVE  voted'[n].expires - Base[n] - MaxDrift <= now'
  BY DEF EnrolInv
<1>1. TypeOK /\ now \in Nat /\ voted[n].expires \in Int
  BY ClockAssumption DEF IInv, TypeOK, StateTypeOK, Vote
<1>2. enrol[n] # NoEnrol => voted[n].expires - Base[n] - MaxDrift <= now
  BY DEF IInv, EnrolInv
<1>3. ASSUME NEW m \in Members, NEW c \in Members, NEW t \in Terms, NEW R \in Rosters,
             CanVote(m, c, t, R), CastVote(m, c, t), UNCHANGED <<now, drift, enrol, erased>>
      PROVE  voted'[n].expires - Base[n] - MaxDrift <= now'
  <2>1. m # n /\ enrol[n] # NoEnrol
    BY <1>3 DEF CanVote
  <2>2. voted'[n] = voted[n]
    BY <1>3, <2>1 DEF CastVote, IInv, TypeOK, StateTypeOK
  <2> QED
    BY <1>2, <1>3, <2>1, <2>2
<1>4. ASSUME NEW m \in Members, ConfigureVotes(m)
      PROVE  voted'[n].expires - Base[n] - MaxDrift <= now'
  <2>1. m # n /\ enrol'[n] = enrol[n] /\ voted'[n] = voted[n] /\ now' = now
    BY <1>4 DEF ConfigureVotes, IInv, TypeOK, StateTypeOK
  <2> QED
    BY <1>2, <2>1
<1>5. CASE /\ UNCHANGED voted /\ (now' = now \/ now' = now + 1)
           /\ enrol[n] # NoEnrol
  BY <1>1, <1>2, <1>5, ClockAssumption
<1>6. CASE UNCHANGED voted /\ (now' = now \/ now' = now + 1) /\ enrol[n] = NoEnrol
  <2>1. \E R \in Rosters : ConfigureCheck(n, R)
    <3>1. \A m \in Members :
              ConfigureRoster(m) \/ ConfigureLeases(m) \/ ConfigureVotes(m) \/ ConfigureCrash(m)
              => enrol'[n] = enrol[n] \/ m = n
      BY DEF ConfigureRoster, ConfigureLeases, ConfigureVotes, ConfigureCrash,
             IInv, TypeOK, StateTypeOK
    <3>2. ConfigureRoster(n) \/ ConfigureLeases(n) \/ ConfigureVotes(n) \/ ConfigureCrash(n)
              => FALSE
      BY <1>6 DEF ConfigureRoster, ConfigureLeases, ConfigureVotes, ConfigureCrash, NoEnrol
    <3>3. \A m \in Members, R \in Rosters : ConfigureCheck(m, R) => enrol'[n] = enrol[n] \/ m = n
      BY DEF ConfigureCheck, IInv, TypeOK, StateTypeOK
    <3>4. Tick \/ (\E b \in ballots, arrives \in BOOLEAN : AnswerBallot(b, arrives))
              => UNCHANGED enrol
      BY DEF Tick, AnswerBallot
    <3>5. \A m \in Members : (\E d \in 0 .. MaxDrift : AdjustClock(m, d)) \/ KillSwitch(m)
              \/ CampaignUnderKill(m) => UNCHANGED enrol
      BY DEF AdjustClock, KillSwitch, CampaignUnderKill
    <3>6. \A m \in Members : \A r, t : CampaignStart(m, r, t) => UNCHANGED enrol
      BY DEF CampaignStart
    <3>7. \A m \in Members, r \in Runners :
              (\E x \in campaign[m][r].got : CampaignEnd(m, r, x)) \/ CampaignCrash(m, r)
              => UNCHANGED enrol
      BY DEF CampaignEnd, CampaignCrash
    <3>8. \A m \in Members : LeaseWorker(m) \/ (\E t \in 0 .. MaxTerm + 1 : ClusterElect(m, t))
              => UNCHANGED enrol
      BY <3>5, <3>6, Zenon DEF LeaseWorker, ClusterElect
    <3> QED
      BY <1>6, <3>1, <3>2, <3>3, <3>4, <3>5, <3>7, <3>8 DEF Step
  <2>2. ~ActiveVote(n) /\ now' = now
    BY <2>1 DEF ConfigureCheck
  <2> QED
    BY <1>1, <1>6, <2>2, ClockType, ClockAssumption DEF ActiveVote
<1> QED
  BY <1>1, <1>3, <1>4, <1>5, <1>6, StepVotes

\* The voters of a live lease have all voted for its holder in its term.
LEMMA LiveQuorum ==
    ASSUME TypeOK, LeaseInv, NEW m \in Members, MaySchedule(m)
    PROVE  /\ m \in lease[m].quorum
           /\ \E R \in Rosters : lease[m].quorum \in Majorities(R)
           /\ \A v \in lease[m].quorum :
                  v \in Members /\ voted[v].term = lease[m].term /\ voted[v].cand = m
<1>1. lease[m] # NoLease /\ lease[m].expires > Clock(m)
  BY DEF MaySchedule
<1>2. lease[m].expires \in Int /\ lease[m].quorum \subseteq Members
  BY DEF TypeOK, StateTypeOK, Certificate
<1>3. now < lease[m].expires - Base[m]
  BY <1>1, <1>2, ClockType, ClockAssumption
<1> QED
  BY <1>1, <1>2, <1>3 DEF LeaseInv, Backed

LEMMA LiveQuorumNext ==
    TypeOK' /\ LeaseInv' => \A m \in Members : MaySchedule(m)' =>
        /\ (m \in lease[m].quorum)'
        /\ (\E R \in Rosters : lease[m].quorum \in Majorities(R))'
        /\ (\A v \in lease[m].quorum : voted[v].term = lease[m].term /\ voted[v].cand = m)'
<1>1. TypeOK /\ LeaseInv => \A m \in Members : MaySchedule(m) =>
          /\ m \in lease[m].quorum
          /\ \E R \in Rosters : lease[m].quorum \in Majorities(R)
          /\ \A v \in lease[m].quorum : voted[v].term = lease[m].term /\ voted[v].cand = m
  BY LiveQuorum
<1>2. (TypeOK /\ LeaseInv => \A m \in Members : MaySchedule(m) =>
          /\ m \in lease[m].quorum
          /\ \E R \in Rosters : lease[m].quorum \in Majorities(R)
          /\ \A v \in lease[m].quorum : voted[v].term = lease[m].term /\ voted[v].cand = m)'
  BY <1>1, PTL
<1> QED
  BY <1>2

LEMMA HeldStep ==
    ASSUME QuietEnrol, IInv, Next, TypeOK', LeaseInv'
    PROVE  HeldInv'
<1> SUFFICES ASSUME ~erased', NEW h \in held'
             PROVE  \E R \in Rosters : \E Q \in Majorities(R) :
                        \A v \in Q : \/ voted'[v].term > h[2]
                                     \/ voted'[v].term = h[2] /\ voted'[v].cand = h[1]
  BY DEF HeldInv
<1>1. Step /\ TypeOK
  BY DEF Next, IInv
<1>2. CASE h \in held
  <2>1. ~erased
    BY <1>1, StepVotes DEF ConfigureVotes, TypeOK, StateTypeOK
  <2>0. PICK R \in Rosters : \E Q \in Majorities(R) :
            \A v \in Q : \/ voted[v].term > h[2]
                         \/ voted[v].term = h[2] /\ voted[v].cand = h[1]
    BY <1>2, <2>1 DEF IInv, HeldInv
  <2>2. PICK Q \in Majorities(R) :
            \A v \in Q : \/ voted[v].term > h[2]
                         \/ voted[v].term = h[2] /\ voted[v].cand = h[1]
    BY <2>0
  <2>3. h[2] \in Nat /\ Q \subseteq Members
    BY <1>1, <1>2, RosterAssumption, ClockAssumption DEF TypeOK, Majorities
  <2>4. ASSUME NEW v \in Q
        PROVE  \/ voted'[v].term > h[2]
               \/ voted'[v].term = h[2] /\ voted'[v].cand = h[1]
    <3>1. voted[v].term \in Nat /\ voted'[v].term \in Nat
      BY <1>1, <2>3, ClockAssumption DEF TypeOK, StateTypeOK, Vote
    <3>2. \/ voted'[v].term > voted[v].term
          \/ voted'[v].term = voted[v].term /\ voted'[v].cand = voted[v].cand
      BY <1>1, <2>3, VotesGrow
    <3>3. \A a, k, p \in Nat : (a > k /\ (k > p \/ k = p)) => a > p
      OBVIOUS
    <3> QED
      BY <2>2, <2>3, <3>1, <3>2, <3>3
  <2> QED
    BY <2>4
<1>3. CASE h \in Holders'
  <2>1. PICK m \in Members : MaySchedule(m)' /\ h = <<m, lease'[m].term>>
    BY <1>3 DEF Holders
  <2>2. (\E R \in Rosters : lease[m].quorum \in Majorities(R))'
        /\ (\A v \in lease[m].quorum : voted[v].term = lease[m].term /\ voted[v].cand = m)'
    BY <2>1, LiveQuorumNext
  <2> QED
    BY <2>1, <2>2
<1> QED
  BY <1>2, <1>3 DEF Next

LEMMA InvStep ==
    ASSUME QuietEnrol
    PROVE  IInv /\ [Next]_vars => IInv'
<1> SUFFICES ASSUME IInv, [Next]_vars PROVE IInv'
  OBVIOUS
<1>1. TypeOK'
  BY TypeStep DEF IInv
<1>2. CASE Next
  <2>1. Step
    BY <1>2 DEF Next
  <2>2. CampaignInv' /\ BallotInv' /\ LeaseInv' /\ EnrolInv'
    BY <2>1, CampaignStep, BallotStep, LeaseStep, EnrolStep
  <2>3. HeldInv'
    BY <1>1, <1>2, <2>2, HeldStep
  <2> QED
    BY <1>1, <2>2, <2>3 DEF IInv
<1>3. CASE UNCHANGED vars
  <2> USE <1>3 DEF vars
  <2>1. CampaignInv'
    BY DEF IInv, CampaignInv, Backed
  <2>2. BallotInv'
    BY DEF IInv, BallotInv
  <2>3. LeaseInv'
    BY DEF IInv, LeaseInv, Backed
  <2>4. EnrolInv' /\ HeldInv'
    BY DEF IInv, EnrolInv, HeldInv
  <2> QED
    BY <1>1, <2>1, <2>2, <2>3, <2>4 DEF IInv
<1> QED
  BY <1>2, <1>3

LEMMA IInvOneLeader == IInv => OneLeader
<1> SUFFICES ASSUME IInv, NEW m \in Members, NEW n \in Members, MaySchedule(m), MaySchedule(n)
             PROVE  m = n
  BY DEF OneLeader
<1>1. lease[m].quorum \cap lease[n].quorum # {}
  BY LiveQuorum, RosterAssumption DEF IInv
<1>2. PICK v : v \in lease[m].quorum /\ v \in lease[n].quorum
  BY <1>1
<1>3. voted[v].cand = m /\ voted[v].cand = n
  BY <1>2, LiveQuorum DEF IInv
<1> QED
  BY <1>3

LEMMA IInvEpochFenced == IInv => EpochFenced
<1> SUFFICES ASSUME IInv, ~erased, NEW m \in Members, MaySchedule(m), NEW h \in held
             PROVE  h[2] < lease[m].term \/ h = <<m, lease[m].term>>
  BY DEF EpochFenced
<1>0. PICK R \in Rosters : \E Q \in Majorities(R) :
          \A v \in Q : \/ voted[v].term > h[2]
                       \/ voted[v].term = h[2] /\ voted[v].cand = h[1]
  BY DEF IInv, HeldInv
<1>1. PICK Q \in Majorities(R) :
          \A v \in Q : \/ voted[v].term > h[2]
                       \/ voted[v].term = h[2] /\ voted[v].cand = h[1]
  BY <1>0
<1>2. lease[m].quorum \cap Q # {}
  BY LiveQuorum, RosterAssumption DEF IInv
<1>3. PICK v : v \in lease[m].quorum /\ v \in Q
  BY <1>2
<1>4. voted[v].term = lease[m].term /\ voted[v].cand = m
  BY <1>3, LiveQuorum DEF IInv
<1>5. h \in Members \X (0 .. MaxTerm) /\ lease[m].term \in 0 .. MaxTerm
  BY DEF IInv, TypeOK, StateTypeOK, Certificate
<1>6. h = <<h[1], h[2]>> /\ h[2] \in Nat /\ lease[m].term \in Nat
  BY <1>5, ClockAssumption
<1> QED
  BY <1>1, <1>3, <1>4, <1>6
-----------------------------------------------------------------------------
(* The election implements the lease *)

\* Time passes for every member; everything else happens to one of them.
LEMMA OneAtATime ==
    ASSUME TypeOK, Step
    PROVE  \/ now' = now + 1 /\ UNCHANGED <<drift, lease>>
           \/ /\ now' = now
              /\ \E a \in Members : \A k \in Members \ {a} :
                     drift'[k] = drift[k] /\ lease'[k] = lease[k]
<1> DEFINE One(a) == now' = now /\ \A k \in Members \ {a} :
                         drift'[k] = drift[k] /\ lease'[k] = lease[k]
<1>1. Tick => now' = now + 1 /\ UNCHANGED <<drift, lease>>
  BY DEF Tick
<1>2. ASSUME NEW b \in ballots, NEW arrives \in BOOLEAN, AnswerBallot(b, arrives)
      PROVE  \E a \in Members : One(a)
  BY <1>2 DEF AnswerBallot, TypeOK, StateTypeOK, Ballot
<1>3. \A m \in Members : (\E d \in 0 .. MaxDrift : AdjustClock(m, d)) \/ KillSwitch(m)
          \/ CampaignUnderKill(m) => One(m)
  BY DEF AdjustClock, KillSwitch, CampaignUnderKill, TypeOK, StateTypeOK
<1>4. \A m \in Members : (\E R \in Rosters : ConfigureCheck(m, R)) \/ ConfigureRoster(m)
          \/ ConfigureLeases(m) \/ ConfigureVotes(m) \/ ConfigureCrash(m) => One(m)
  BY DEF ConfigureCheck, ConfigureRoster, ConfigureLeases, ConfigureVotes, ConfigureCrash,
         TypeOK, StateTypeOK
<1>5. \A m \in Members : \A r, t : CampaignStart(m, r, t) => One(m)
  BY DEF CampaignStart
<1>6. \A m \in Members, r \in Runners :
          (\E x \in campaign[m][r].got : CampaignEnd(m, r, x)) \/ CampaignCrash(m, r) => One(m)
  BY DEF CampaignEnd, CampaignCrash, TypeOK, StateTypeOK
<1> HIDE DEF One
<1>7. \A m \in Members : LeaseWorker(m) \/ (\E t \in 0 .. MaxTerm + 1 : ClusterElect(m, t)) => One(m)
  BY <1>3, <1>5, Zenon DEF LeaseWorker, ClusterElect
<1>8. (now' = now + 1 /\ UNCHANGED <<drift, lease>>) \/ \E a \in Members : One(a)
  BY <1>1, <1>2, <1>3, <1>4, <1>6, <1>7 DEF Step
<1> QED
  BY <1>8 DEF One

\* Whoever could schedule before a step that leaves a leader is that leader.
LEMMA LeaderStays ==
    ASSUME IInv, OneLeader', TypeOK', Step, NEW m \in Members, MaySchedule(m)',
           NEW n \in Members, MaySchedule(n)
    PROVE  n = m /\ lease'[m].term = lease[m].term
<1>1. TypeOK /\ OneLeader /\ LeaseInv
  BY IInvOneLeader DEF IInv
<1>2. n = m
  <2>1. CASE now' = now + 1 /\ UNCHANGED <<drift, lease>>
    <3>1. lease[m] # NoLease /\ lease[m].expires > now + 1 + Base[m] + drift[m]
      BY <2>1 DEF MaySchedule, Clock
    <3>2. lease[m].expires \in Int /\ now \in Int /\ Base[m] \in Int /\ drift[m] \in Int
      BY <1>1, ClockAssumption DEF TypeOK, StateTypeOK, Certificate
    <3>3. lease[m].expires > Clock(m)
      BY <3>1, <3>2 DEF Clock
    <3> QED
      BY <1>1, <3>1, <3>3 DEF MaySchedule, OneLeader
  <2>2. ASSUME now' = now, NEW a \in Members,
               \A k \in Members \ {a} : drift'[k] = drift[k] /\ lease'[k] = lease[k]
        PROVE  n = m
    <3>1. CASE a # n
      <4>1. MaySchedule(n)'
        BY <2>2, <3>1 DEF MaySchedule, Clock
      <4> QED
        BY <4>1 DEF OneLeader
    <3>2. CASE a = n /\ m # n
      <4>1. MaySchedule(m)
        BY <2>2, <3>2 DEF MaySchedule, Clock
      <4> QED
        BY <1>1, <4>1 DEF OneLeader
    <3> QED
      BY <3>1, <3>2
  <2> QED
    BY <1>1, <2>1, <2>2, OneAtATime
<1>3. lease'[m].term = lease[m].term
  <2>1. lease'[m] # NoLease
    BY DEF MaySchedule
  <2>2. ASSUME NEW r \in Runners, NEW x \in campaign[m][r].got, CampaignEnd(m, r, x),
               FreshQuorum(m, campaign[m][r], x), OwnVoteBacks(m, campaign[m][r])
        PROVE  lease'[m].term = lease[m].term
    <3>1. lease'[m].term = campaign[m][r].term
      BY <1>1, <2>2 DEF CampaignEnd, TypeOK, StateTypeOK
    <3>2. voted[m].term = campaign[m][r].term
      BY <2>2 DEF OwnVoteBacks
    <3>3. voted[m].term = lease[m].term
      BY <1>1, <1>2, LiveQuorum
    <3> QED
      BY <3>1, <3>2, <3>3
  <2> QED
    BY <1>1, <2>1, <2>2, LeaseCases
<1> QED
  BY <1>2, <1>3

LEMMA RefinementStep ==
    IInv /\ OneLeader' /\ TypeOK' /\ [Next]_vars => [Abstract!Next]_Holders
<1> SUFFICES ASSUME IInv, OneLeader', TypeOK', [Next]_vars
             PROVE  Abstract!Next \/ Holders' = Holders
  OBVIOUS
<1>1. CASE UNCHANGED vars
  BY <1>1 DEF vars, Holders, MaySchedule, Clock
<1>2. CASE Next /\ Holders' = {}
  BY <1>2 DEF Abstract!Next, Abstract!Lapse
<1>3. CASE Next /\ Holders' # {}
  <2>1. PICK m \in Members : MaySchedule(m)'
    BY <1>3 DEF Holders
  <2>2. Holders' = {<<m, lease'[m].term>>}
    BY <2>1 DEF Holders, OneLeader
  <2>3. lease'[m].term \in 0 .. MaxTerm
    BY DEF TypeOK, StateTypeOK, Certificate
  <2>4. CASE Holders = {}
    BY <2>2, <2>3, <2>4 DEF Abstract!Next, Abstract!Grant
  <2>5. CASE Holders # {}
    <3>1. PICK n \in Members : MaySchedule(n)
      BY <2>5 DEF Holders
    <3>2. \A k \in Members : MaySchedule(k) => k = m /\ lease'[m].term = lease[m].term
      BY <1>3, <2>1, LeaderStays DEF Next
    <3> QED
      BY <2>2, <3>1, <3>2 DEF Holders
  <2> QED
    BY <2>4, <2>5
<1> QED
  BY <1>1, <1>2, <1>3

-----------------------------------------------------------------------------
(* Theorems *)

\* swarm_cluster.rs never stores a vote, a lease or a campaign outside its
\* types, whatever term an operator asks for.
THEOREM TypeCorrect == Spec => []TypeOK
<1>1. Init => TypeOK
  BY InitType
<1>2. TypeOK /\ [Next]_vars => TypeOK'
  BY TypeStep
<1> QED
  BY <1>1, <1>2, PTL DEF Spec

\* may_schedule is true at one member at most, for any rosters whose majorities
\* meet, any clocks and any lease, when no ballot lands inside an enrolment.
THEOREM AtMostOneLeader ==
    ASSUME QuietEnrol
    PROVE  Spec => []OneLeader
<1>1. Init => IInv
  BY InitInv
<1>2. IInv /\ [Next]_vars => IInv'
  BY InvStep
<1>3. IInv => OneLeader
  BY IInvOneLeader
<1> QED
  BY <1>1, <1>2, <1>3, PTL DEF Spec

\* A leader's term is above every earlier leader's until a vote is deleted.
THEOREM TermsFence ==
    ASSUME QuietEnrol
    PROVE  Spec => []EpochFenced
<1>1. Init => IInv
  BY InitInv
<1>2. IInv /\ [Next]_vars => IInv'
  BY InvStep
<1>3. IInv => EpochFenced
  BY IInvEpochFenced
<1> QED
  BY <1>1, <1>2, <1>3, PTL DEF Spec

\* Seen from the rest of the swarm the election is one lease: granted when
\* free, lapsing before it is granted again, one term for as long as it is held.
THEOREM ElectionImplementsLease ==
    ASSUME QuietEnrol
    PROVE  Spec => ImplementsLease
<1>1. Init => IInv
  BY InitInv
<1>2. IInv /\ [Next]_vars => IInv'
  BY InvStep
<1>3. IInv => OneLeader /\ TypeOK
  BY IInvOneLeader DEF IInv
<1>4. Init => Abstract!Init
  BY DEF Init, Abstract!Init, Holders, MaySchedule
<1>5. IInv /\ OneLeader' /\ TypeOK' /\ [Next]_vars => [Abstract!Next]_Holders
  BY RefinementStep
<1> QED
  BY <1>1, <1>2, <1>3, <1>4, <1>5, PTL DEF Spec, ImplementsLease, Abstract!Spec
=============================================================================

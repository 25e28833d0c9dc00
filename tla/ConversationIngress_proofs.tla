--------------------- MODULE ConversationIngress_proofs ---------------------
(***************************************************************************)
(* Proofs about ConversationIngress, for any number of messages, of inbound *)
(* tasks and of faults.                                                     *)
(***************************************************************************)
EXTENDS ConversationIngress, TLAPS

-----------------------------------------------------------------------------
(* The invariant *)

Busy(r) == r.step \notin {"idle", "next"}

\* What a pass r under way may rely on, of the events ev, the turns tu and the
\* contested messages co.
Good(r, ev, tu, co) ==
    /\ Busy(r) => r.ev \in Events
    /\ r.step = "commit" => r.want \in Decisions
    /\ r.step \in {"submit", "taken", "refused"} => tu[r.ev].state # "absent"
    /\ r.step = "submit" => r.want = tu[r.ev].frozen
    /\ r.kind = "recover" => \A e \in r.batch : tu[e].state # "absent"
    /\ r.step \in {"decide", "commit"} /\ r.ev \notin co => tu[r.ev].state = "absent"
    /\ r.kind = "poll" /\ Busy(r) /\ r.step \notin {"decide", "commit"} => ev[r.ev].disp # "absent"
    /\ \A e \in r.safe : ev[e].disp # "absent"
    /\ r.kind = "poll" /\ ~r.miss =>
        \A e \in 1 .. r.upto : ev[e].disp # "absent" \/ e \in r.batch \/ (Busy(r) /\ r.ev = e)

PassInv == \A p \in Passes : Good(pass[p], event, turn, contested)

StoreInv ==
    \A e \in Events :
        /\ Done(e) => event[e].disp # "absent"
        /\ turn[e].state # "absent" =>
            turn[e].frozen \in Recipes /\ event[e].linked /\ event[e].disp # "absent"
        /\ job[e] # NoRecipe => turn[e].state # "absent" /\ job[e] = turn[e].frozen
        /\ e \notin contested /\ event[e].disp \in {"ignored", "challenged"} => turn[e].state = "absent"

Inv == TypeOK /\ PassInv /\ StoreInv

\* Events stay recorded, and turns stay and keep what they froze.
Grows(ev, tu, ev2, tu2) ==
    \A e \in Events :
        /\ ev[e].disp # "absent" => ev2[e].disp # "absent"
        /\ tu[e].state # "absent" => tu2[e].state # "absent" /\ tu2[e].frozen = tu[e].frozen

LEMMA Numbers == /\ N \in Nat /\ MaxFaults \in Nat /\ 0 \in 0 .. N /\ 0 \in 0 .. MaxFaults
                 /\ \A k \in 0 .. N : k \in Nat /\ \A e \in 1 .. k : e \in Events
                 /\ Events \subseteq 0 .. N /\ 0 \notin Events
<1>1. N \in Nat /\ MaxFaults \in Nat BY IngressAssumption
<1> QED BY <1>1 DEF Events

LEMMA Recipe == /\ NoRecipe \notin Recipes /\ \A r \in Recipes : r \notin Settling
                /\ Verdicts \subseteq Settling /\ AtFirst \subseteq Decisions
BY IngressAssumption DEF Decisions

LEMMA NoPassGood ==
    ASSUME NEW ev, NEW tu, NEW co
    PROVE  NoPass \in PassRows /\ Good(NoPass, ev, tu, co)
<1>1. NoPass \in PassRows BY Numbers DEF NoPass, PassRows
<1>2. ~Busy(NoPass) /\ NoPass.kind = "none" /\ NoPass.safe = {} /\ NoPass.step = "idle"
      BY DEF NoPass, Busy
<1> QED BY <1>1, <1>2 DEF Good

\* A pass that did not move still has what it relies on.
LEMMA GoodKept ==
    ASSUME NEW r \in PassRows, NEW ev, NEW tu, NEW co, NEW ev2, NEW tu2, NEW co2,
           Grows(ev, tu, ev2, tu2), co \subseteq co2,
           r.step \in {"decide", "commit"} /\ r.ev \notin co2 => tu2[r.ev].state = tu[r.ev].state,
           Good(r, ev, tu, co)
    PROVE  Good(r, ev2, tu2, co2)
<1>1. r.batch \subseteq Events /\ r.safe \subseteq Events /\ r.upto \in 0 .. N BY DEF PassRows
<1>2. \A e \in 1 .. r.upto : e \in Events BY <1>1, Numbers
<1> QED BY <1>1, <1>2 DEF Good, Grows, Busy

\* The step of one pass.
LEMMA OneStep ==
    ASSUME Inv, NEW p \in Passes, NEW r \in PassRows, pass' = [pass EXCEPT ![p] = r],
           Grows(event, turn, event', turn'), contested \subseteq contested',
           \A q \in Passes \ {p} : pass[q].step \in {"decide", "commit"} /\ pass[q].ev \notin contested'
                                   => turn'[pass[q].ev].state = turn[pass[q].ev].state,
           Good(r, event', turn', contested')
    PROVE  PassInv' /\ pass' \in [Passes -> PassRows]
<1>1. pass \in [Passes -> PassRows] BY DEF Inv, TypeOK
<1>2. ASSUME NEW q \in Passes PROVE Good(pass'[q], event', turn', contested')
  <2>1. CASE q = p BY <1>1, <2>1
  <2>2. CASE q # p
    <3>1. pass'[q] = pass[q] /\ pass[q] \in PassRows BY <1>1, <2>2
    <3>2. Good(pass[q], event, turn, contested) BY DEF Inv, PassInv
    <3> QED BY <2>2, <3>1, <3>2, GoodKept
  <2> QED BY <2>1, <2>2
<1> QED BY <1>1, <1>2 DEF PassInv

\* A step that changes neither the events nor the turns.
LEMMA QuietStep ==
    ASSUME Inv, NEW p \in Passes, NEW r \in PassRows, pass' = [pass EXCEPT ![p] = r],
           UNCHANGED <<event, turn, contested>>, Good(r, event, turn, contested)
    PROVE  PassInv' /\ pass' \in [Passes -> PassRows]
<1>1. Grows(event, turn, event', turn') BY DEF Grows
<1> QED BY <1>1, OneStep

LEMMA SameStore ==
    ASSUME StoreInv, UNCHANGED <<sourceVars, storeVars, contested>>
    PROVE  StoreInv'
BY DEF StoreInv, sourceVars, storeVars, Done

LEMMA SameFaults ==
    ASSUME TypeOK, Fault \/ UNCHANGED faults
    PROVE  faults' \in 0 .. MaxFaults
BY Numbers DEF TypeOK, Fault
-----------------------------------------------------------------------------
(* The world *)

LEMMA InitInv == Init => Inv
<1> SUFFICES ASSUME Init PROVE Inv OBVIOUS
<1>1. [disp |-> "absent", linked |-> FALSE, job |-> FALSE] \in EventRows BY DEF EventRows
<1>2. [state |-> "absent", frozen |-> NoRecipe, attempts |-> 0] \in TurnRows BY DEF TurnRows
<1>3. live \in Pollers BY IngressAssumption DEF Init
<1>4. NoPass \in PassRows /\ Good(NoPass, event, turn, contested) BY NoPassGood
<1>5. TypeOK BY <1>1, <1>2, <1>3, <1>4, Numbers, Recipe DEF Init, TypeOK
<1>6. PassInv BY <1>4 DEF Init, PassInv
<1>7. StoreInv
  <2>1. \A e \in Events : ~(e <= 0) BY Numbers DEF Events
  <2> QED BY <2>1 DEF Init, StoreInv, Done
<1> QED BY <1>5, <1>6, <1>7 DEF Inv

\* Steps of the world that leave the rows and the passes alone.
LEMMA WorldStep ==
    ASSUME Inv, Arrive \/ Edit \/ \E p \in Pollers : Reload(p)
    PROVE  Inv'
<1>1. UNCHANGED <<event, turn, job, pass, contested, cursor, acked, transport>>
      BY DEF Arrive, Edit, Reload, storeVars, sourceVars
<1>2. TypeOK'
  <2>1. CASE Arrive
    <3>1. arrived' \in 0 .. N BY <2>1, Numbers DEF Arrive, Inv, TypeOK
    <3> QED BY <1>1, <2>1, <3>1 DEF Arrive, Inv, TypeOK, worldVars
  <2>2. CASE Edit BY <1>1, <2>2, SameFaults DEF Edit, Inv, TypeOK, sourceVars
  <2>3. CASE \E p \in Pollers : Reload(p) BY <1>1, <2>3, SameFaults DEF Reload, Inv, TypeOK, sourceVars
  <2> QED BY <2>1, <2>2, <2>3
<1>3. PassInv' BY <1>1 DEF Inv, PassInv
<1>4. StoreInv' BY <1>1 DEF Inv, StoreInv, Done
<1> QED BY <1>2, <1>3, <1>4 DEF Inv

LEMMA CrashStep ==
    ASSUME Inv, Crash
    PROVE  Inv'
<1>1. NoPass \in PassRows /\ Good(NoPass, event', turn', contested') BY NoPassGood
<1>2. faults' \in 0 .. MaxFaults BY SameFaults DEF Inv, Crash
<1>3. TypeOK' BY <1>1, <1>2 DEF Crash, Inv, TypeOK, sourceVars, storeVars, worldVars
<1>4. PassInv' BY <1>1 DEF Crash, PassInv
<1>5. StoreInv' BY SameStore DEF Crash, Inv
<1> QED BY <1>3, <1>4, <1>5 DEF Inv

\* One event is written, and stays recorded.
LEMMA EventSet ==
    ASSUME TypeOK, NEW e \in Events, NEW x \in EventRows, event' = [event EXCEPT ![e] = x],
           UNCHANGED turn, x.disp # "absent"
    PROVE  event' \in [Events -> EventRows] /\ Grows(event, turn, event', turn')
BY DEF TypeOK, Grows

LEMMA DeliverStep ==
    ASSUME Inv, NEW e \in Events, NEW ok \in BOOLEAN, Deliver(e, ok)
    PROVE  Inv'
<1> USE DEF Inv
<1>0. event \in [Events -> EventRows] /\ event[e] \in EventRows BY DEF TypeOK
<1>1. PICK x \in EventRows : /\ event' = [event EXCEPT ![e] = x] /\ x.disp # "absent"
                             /\ x.linked = event[e].linked
                             /\ x.disp \in {"ignored", "challenged"} => x.disp = event[e].disp
  <2>1. CASE event[e].disp = "absent"
    <3>1. [event[e] EXCEPT !.disp = "accepted"] \in EventRows BY <1>0 DEF EventRows
    <3>2. event' = [event EXCEPT ![e] = [event[e] EXCEPT !.disp = "accepted"]]
          BY <2>1, <1>0 DEF Deliver
    <3> QED BY <1>0, <3>1, <3>2 DEF EventRows
  <2>2. CASE event[e].disp # "absent" BY <2>2, <1>0 DEF Deliver
  <2> QED BY <2>1, <2>2
<1>2. UNCHANGED <<turn, job, pass, contested, cursor, transport, arrived, config, live>> BY DEF Deliver, worldVars
<1>3. event' \in [Events -> EventRows] /\ Grows(event, turn, event', turn') BY <1>1, <1>2, EventSet
<1>4. faults' \in 0 .. MaxFaults BY SameFaults DEF Deliver
<1>5. acked' \subseteq acked \cup {e} BY DEF Deliver
<1>6. TypeOK' BY <1>2, <1>3, <1>4, <1>5 DEF TypeOK
<1>7. PassInv'
  <2>1. ASSUME NEW q \in Passes PROVE Good(pass'[q], event', turn', contested')
    <3>1. pass[q] \in PassRows /\ Good(pass[q], event, turn, contested) BY DEF TypeOK, PassInv
    <3> QED BY <1>2, <1>3, <3>1, GoodKept
  <2> QED BY <2>1 DEF PassInv
<1>8. StoreInv'
  <2>1. \A y \in Events : event'[y] = IF y = e THEN x ELSE event[y] BY <1>0, <1>1
  <2> QED BY <1>0, <1>1, <1>2, <1>5, <2>1 DEF StoreInv, Done
<1> QED BY <1>6, <1>7, <1>8
-----------------------------------------------------------------------------
(* Steps of a pass that only read the rows *)

LEMMA ReadOnly ==
    ASSUME Inv, NEW p \in Passes, NEW r \in PassRows, pass' = [pass EXCEPT ![p] = r],
           UNCHANGED <<sourceVars, storeVars, worldVars, faults, contested>>,
           Good(r, event, turn, contested)
    PROVE  Inv'
<1>1. PassInv' /\ pass' \in [Passes -> PassRows] BY QuietStep DEF storeVars
<1>2. StoreInv' BY SameStore DEF Inv
<1>3. TypeOK' BY <1>1 DEF Inv, TypeOK, sourceVars, storeVars, worldVars
<1> QED BY <1>1, <1>2, <1>3 DEF Inv

LEMMA BeginPass ==
    ASSUME NEW kind \in {"poll", "pending", "recover"}, NEW S \in SUBSET Events,
           NEW att \in [Events -> Nat], NEW upto \in 0 .. N
    PROVE  /\ NewPass(kind, S, att, upto) \in PassRows
           /\ NewPass(kind, S, att, upto).kind = kind /\ NewPass(kind, S, att, upto).step = "next"
           /\ NewPass(kind, S, att, upto).batch = S /\ NewPass(kind, S, att, upto).upto = upto
           /\ NewPass(kind, S, att, upto).safe = {} /\ ~NewPass(kind, S, att, upto).miss
BY Numbers DEF NewPass, NoPass, PassRows

LEMMA PollStep ==
    ASSUME Inv, NEW p \in Pollers, Poll(p)
    PROVE  Inv'
<1> DEFINE S == {e \in 1 .. arrived : ~Done(e)}
           r == NewPass("poll", S, NoAtt, arrived)
<1>1. p \in Passes /\ arrived \in 0 .. N /\ \A e \in 1 .. arrived : e \in Events
      BY Numbers DEF Passes, Inv, TypeOK
<1>2. NoAtt \in [Events -> Nat] BY DEF NoAtt
<1>3. /\ r \in PassRows /\ r.kind = "poll" /\ r.step = "next" /\ r.batch = S
      /\ r.upto = arrived /\ r.safe = {} /\ ~r.miss
  <2>1. "poll" \in {"poll", "pending", "recover"} /\ S \in SUBSET Events BY <1>1
  <2> HIDE DEF S
  <2> QED BY <1>1, <1>2, <2>1, BeginPass
<1>4. \A e \in 1 .. arrived : e \notin S => event[e].disp # "absent" BY <1>1 DEF Inv, StoreInv
<1>5. pass' = [pass EXCEPT ![p] = r] BY DEF Poll, Begin
<1> HIDE DEF r, S
<1>6. Good(r, event, turn, contested) BY <1>3, <1>4 DEF Good, Busy
<1> QED BY <1>1, <1>3, <1>5, <1>6, ReadOnly DEF Poll

LEMMA SupervisorStep ==
    ASSUME Inv, Pending \/ Recover
    PROVE  Inv'
<1>1. CASE Pending
  <2> DEFINE S == Oldest(Awaiting)
             r == NewPass("pending", S, NoAtt, 0)
  <2>1. S \in SUBSET Events /\ Sup \in Passes BY DEF Oldest, Awaiting, Passes
  <2>2. NoAtt \in [Events -> Nat] /\ 0 \in 0 .. N BY Numbers DEF NoAtt
  <2>3. /\ r \in PassRows /\ r.kind = "pending" /\ r.step = "next" /\ r.safe = {}
    <3>1. "pending" \in {"poll", "pending", "recover"} OBVIOUS
    <3> HIDE DEF S
    <3> QED BY <2>1, <2>2, <3>1, BeginPass
  <2>4. pass' = [pass EXCEPT ![Sup] = r] BY <1>1 DEF Pending, Begin
  <2> HIDE DEF r
  <2>5. Good(r, event, turn, contested) BY <2>3 DEF Good, Busy
  <2> QED BY <1>1, <2>1, <2>3, <2>4, <2>5, ReadOnly DEF Pending
<1>2. CASE Recover
  <2> DEFINE S == Oldest(PendingTurns)
             a == [e \in Events |-> IF e \in Oldest(PendingTurns) THEN turn[e].attempts ELSE 0]
             r == NewPass("recover", S, a, 0)
  <2>1. S \in SUBSET Events /\ Sup \in Passes /\ \A e \in S : turn[e].state # "absent"
        BY DEF Oldest, PendingTurns, Passes
  <2>2. a \in [Events -> Nat] /\ 0 \in 0 .. N BY Numbers DEF Inv, TypeOK, TurnRows
  <2>3. /\ r \in PassRows /\ r.kind = "recover" /\ r.step = "next" /\ r.safe = {} /\ r.batch = S
    <3>1. "recover" \in {"poll", "pending", "recover"} OBVIOUS
    <3> HIDE DEF S, a
    <3> QED BY <2>1, <2>2, <3>1, BeginPass
  <2>4. pass' = [pass EXCEPT ![Sup] = r] BY <1>2 DEF Recover, Begin
  <2> HIDE DEF r
  <2>5. Good(r, event, turn, contested) BY <2>1, <2>3 DEF Good, Busy
  <2> QED BY <1>2, <2>1, <2>3, <2>4, <2>5, ReadOnly DEF Recover
<1> QED BY <1>1, <1>2

\* What leaving the message at hand makes of a pass.
LEMMA Left ==
    ASSUME NEW r \in PassRows, r.ev \in Events
    PROVE  /\ Recorded(r) \in PassRows /\ Recorded(r).step = "next" /\ Recorded(r).kind = r.kind
           /\ Recorded(r).batch = r.batch /\ Recorded(r).upto = r.upto /\ Recorded(r).miss = r.miss
           /\ Recorded(r).safe = IF r.kind = "poll" THEN r.safe \cup {r.ev} ELSE {}
           /\ Missed(r) \in PassRows /\ Missed(r).step = "next" /\ Missed(r).kind = r.kind
           /\ Missed(r).batch = r.batch /\ Missed(r).miss /\ Missed(r).safe = r.safe
BY Numbers DEF PassRows, Recorded, Missed

LEMMA GoodRecorded ==
    ASSUME NEW r \in PassRows, NEW ev, NEW tu, NEW co, r.ev \in Events,
           r.kind = "poll" => ev[r.ev].disp # "absent",
           r.kind = "recover" => \A e \in r.batch : tu[e].state # "absent",
           \A e \in r.safe : ev[e].disp # "absent",
           r.kind = "poll" /\ ~r.miss =>
               \A e \in 1 .. r.upto : ev[e].disp # "absent" \/ e \in r.batch \/ r.ev = e
    PROVE  Recorded(r) \in PassRows /\ Good(Recorded(r), ev, tu, co)
BY Left DEF Good, Busy

LEMMA GoodMissed ==
    ASSUME NEW r \in PassRows, NEW ev, NEW tu, NEW co, r.ev \in Events, Good(r, ev, tu, co)
    PROVE  Missed(r) \in PassRows /\ Good(Missed(r), ev, tu, co)
BY Left DEF Good, Busy

LEMMA PassOf ==
    ASSUME Inv, NEW p \in Passes
    PROVE  pass[p] \in PassRows /\ Good(pass[p], event, turn, contested)
BY DEF Inv, TypeOK, PassInv

LEMMA NextEventStep ==
    ASSUME Inv, NEW p \in Passes, NEW e \in Events, NextEvent(p, e)
    PROVE  Inv'
<1> DEFINE w == IF pass[p].kind = "recover" THEN turn[e].frozen ELSE NoRecipe
           s == FirstStep(pass[p].kind, e)
           a == [pass[p] EXCEPT !.ev = e, !.batch = @ \ {e}, !.step = s, !.want = w]
<1>1. pass[p] \in PassRows /\ Good(pass[p], event, turn, contested) BY PassOf
<1>2. e \in pass[p].batch /\ pass[p].step = "next" BY DEF NextEvent, IsNext, At
<1>3. w \in Decisions \cup {NoRecipe} BY DEF Inv, TypeOK, TurnRows, Decisions
<1>4. s \in {"next", "submit", "read", "decide"} BY DEF FirstStep
<1>5. /\ a \in PassRows /\ a.ev = e /\ a.batch = pass[p].batch \ {e} /\ a.step = s /\ a.want = w
      /\ a.kind = pass[p].kind /\ a.upto = pass[p].upto /\ a.miss = pass[p].miss /\ a.safe = pass[p].safe
  <2>1. e \in 0 .. N BY Numbers
  <2> HIDE DEF w, s
  <2> QED BY <1>1, <1>3, <1>4, <2>1 DEF PassRows
<1>6. /\ s = "next" => event[e].disp \in Settling /\ a.kind # "recover"
      /\ s = "submit" => a.kind = "recover"
      /\ s = "read" => event[e].disp # "absent" /\ a.kind # "recover"
      /\ s = "decide" => turn[e].state = "absent" /\ a.kind # "recover"
  <2>1. turn[e].state # "absent" => event[e].linked /\ event[e].disp # "absent" BY DEF Inv, StoreInv
  <2>2. event[e].disp \in {"absent", "accepted"} \cup Settling BY DEF Inv, TypeOK, EventRows
  <2>3. a.kind = pass[p].kind BY <1>5
  <2> HIDE DEF a
  <2>4. pass[p].kind # "recover" =>
          /\ event[e].disp \in Settling => s = "next"
          /\ event[e].disp = "accepted" /\ event[e].linked => s = "read"
          /\ event[e].disp = "accepted" /\ ~event[e].linked => s = "decide"
          /\ event[e].disp = "absent" => s = "decide"
        BY DEF FirstStep, Settling
  <2>5. pass[p].kind = "recover" => s = "submit" BY DEF FirstStep
  <2> HIDE DEF s
  <2> QED BY <2>1, <2>2, <2>3, <2>4, <2>5
<1>7. pass' = [pass EXCEPT ![p] = IF s = "next" THEN Recorded(a) ELSE a] BY DEF NextEvent
<1>8. a.kind = "recover" => w = turn[e].frozen /\ \A x \in a.batch \cup {e} : turn[x].state # "absent"
      BY <1>1, <1>2, <1>5 DEF Good
<1>9. \A x \in a.safe : event[x].disp # "absent" BY <1>1, <1>5 DEF Good
<1>10. a.kind = "poll" /\ ~a.miss =>
         \A x \in 1 .. a.upto : event[x].disp # "absent" \/ x \in a.batch \/ a.ev = x
       BY <1>1, <1>2, <1>5 DEF Good, Busy
<1> HIDE DEF a, s, w
<1>11. CASE s = "next"
  <2>1. event[a.ev].disp # "absent" BY <1>5, <1>6, <1>11 DEF Settling
  <2>2. Recorded(a) \in PassRows /\ Good(Recorded(a), event, turn, contested)
        BY <1>5, <1>6, <1>9, <1>10, <1>11, <2>1, GoodRecorded
  <2> QED BY <1>7, <1>11, <2>2, ReadOnly DEF NextEvent
<1>12. CASE s # "next"
  <2>1. Good(a, event, turn, contested)
        BY <1>4, <1>5, <1>6, <1>8, <1>9, <1>10, <1>12 DEF Good, Busy
  <2> QED BY <1>5, <1>7, <1>12, <2>1, ReadOnly DEF NextEvent
<1> QED BY <1>11, <1>12

LEMMA DecideStep ==
    ASSUME Inv, NEW p \in Passes, Decide(p)
    PROVE  Inv'
<1> DEFINE a == [pass[p] EXCEPT !.want = config, !.step = "commit"]
<1>1. pass[p] \in PassRows /\ Good(pass[p], event, turn, contested) BY PassOf
<1>2. config \in Decisions BY DEF Inv, TypeOK
<1>3. pass[p].step = "decide" BY DEF Decide, At
<1>4. /\ a \in PassRows /\ a.step = "commit" /\ a.want = config /\ a.ev = pass[p].ev
      /\ a.batch = pass[p].batch /\ a.kind = pass[p].kind /\ a.upto = pass[p].upto
      /\ a.miss = pass[p].miss /\ a.safe = pass[p].safe
      BY <1>1, <1>2 DEF PassRows
<1>5. pass' = [pass EXCEPT ![p] = a] BY <1>1 DEF Decide, Inv, TypeOK
<1> HIDE DEF a
<1>6. Good(a, event, turn, contested) BY <1>1, <1>2, <1>3, <1>4 DEF Good, Busy
<1> QED BY <1>4, <1>5, <1>6, ReadOnly DEF Decide

LEMMA ReadStep ==
    ASSUME Inv, NEW p \in Passes, ReadTurn(p)
    PROVE  Inv'
<1> DEFINE e == pass[p].ev
           t == [pass[p].att EXCEPT ![e] = turn[e].attempts]
           a == [pass[p] EXCEPT !.step = "submit", !.want = turn[e].frozen, !.att = t]
<1>1. pass[p] \in PassRows /\ Good(pass[p], event, turn, contested) BY PassOf
<1>2. pass[p].step = "read" /\ e \in Events BY <1>1 DEF ReadTurn, At, Good, Busy
<1>3. turn[e] \in TurnRows BY <1>2 DEF Inv, TypeOK
<1>4. turn[e].frozen \in Decisions \cup {NoRecipe} /\ turn[e].attempts \in Nat BY <1>3 DEF TurnRows, Decisions
<1>5. t \in [Events -> Nat] BY <1>1, <1>4 DEF PassRows
<1>6. CASE turn[e].state = "accepted"
  <2>1. pass' = [pass EXCEPT ![p] = a] BY <1>6 DEF ReadTurn, Frozen
  <2> HIDE DEF t, e
  <2>2. /\ a \in PassRows /\ a.step = "submit" /\ a.want = turn[e].frozen /\ a.ev = pass[p].ev
        /\ a.batch = pass[p].batch /\ a.kind = pass[p].kind /\ a.upto = pass[p].upto
        /\ a.miss = pass[p].miss /\ a.safe = pass[p].safe
        BY <1>1, <1>4, <1>5 DEF PassRows
  <2> HIDE DEF a
  <2>3. Good(a, event, turn, contested) BY <1>1, <1>2, <1>6, <2>2 DEF Good, Busy, e
  <2> QED BY <2>1, <2>2, <2>3, ReadOnly DEF ReadTurn
<1>7. CASE turn[e].state # "accepted"
  <2>1. pass' = [pass EXCEPT ![p] = Recorded(pass[p])] BY <1>7 DEF ReadTurn
  <2>2. Recorded(pass[p]) \in PassRows /\ Good(Recorded(pass[p]), event, turn, contested)
    <3>1. /\ pass[p].kind = "poll" => event[pass[p].ev].disp # "absent"
          /\ pass[p].kind = "recover" => \A x \in pass[p].batch : turn[x].state # "absent"
          /\ \A x \in pass[p].safe : event[x].disp # "absent"
          /\ pass[p].kind = "poll" /\ ~pass[p].miss =>
               \A x \in 1 .. pass[p].upto : event[x].disp # "absent" \/ x \in pass[p].batch \/ pass[p].ev = x
          BY <1>1, <1>2 DEF Good, Busy
    <3> QED BY <1>1, <1>2, <3>1, GoodRecorded
  <2> QED BY <2>1, <2>2, ReadOnly DEF ReadTurn
<1> QED BY <1>6, <1>7
-----------------------------------------------------------------------------
(* Steps of a pass that write *)

\* A message that is recorded by now is left behind.
LEMMA GoodLeaves ==
    ASSUME NEW r \in PassRows, NEW ev, NEW tu, NEW co, NEW ev2, NEW tu2, NEW co2,
           Good(r, ev, tu, co), Busy(r), Grows(ev, tu, ev2, tu2),
           r.kind = "poll" => ev2[r.ev].disp # "absent"
    PROVE  Recorded(r) \in PassRows /\ Good(Recorded(r), ev2, tu2, co2)
<1>1. r.batch \subseteq Events /\ r.safe \subseteq Events /\ r.upto \in 0 .. N BY DEF PassRows
<1>2. \A e \in 1 .. r.upto : e \in Events BY <1>1, Numbers
<1>3. /\ r.ev \in Events
      /\ r.kind = "recover" => \A x \in r.batch : tu2[x].state # "absent"
      /\ \A x \in r.safe : ev2[x].disp # "absent"
      /\ r.kind = "poll" /\ ~r.miss =>
           \A x \in 1 .. r.upto : ev2[x].disp # "absent" \/ x \in r.batch \/ r.ev = x
      BY <1>1, <1>2 DEF Good, Grows
<1> QED BY <1>3, GoodRecorded

LEMMA CommitStep ==
    ASSUME Inv, NEW p \in Passes, Commit(p)
    PROVE  Inv'
<1> USE DEF Inv
<1>1. pass[p] \in PassRows /\ Good(pass[p], event, turn, contested) BY PassOf
<1>2. PICK r \in PassRows : r = pass[p] BY <1>1
<1>3. PICK e \in Events : e = r.ev BY <1>1, <1>2 DEF Commit, At, Good, Busy
<1>4. r.step = "commit" /\ r.want \in Decisions /\ Busy(r) /\ Good(r, event, turn, contested)
      BY <1>1, <1>2 DEF Commit, At, Good, Busy
<1>5. event \in [Events -> EventRows] /\ turn \in [Events -> TurnRows] /\ event[e] \in EventRows
      BY DEF TypeOK
<1> DEFINE run == r.want \in Recipes
<1>6. run <=> r.want \in Recipes OBVIOUS
<1> HIDE DEF run
<1>7. PICK x \in EventRows :
        /\ event' = [event EXCEPT ![e] = x]
        /\ x.disp = IF run THEN "accepted" ELSE r.want
        /\ x.linked = (event[e].linked \/ run)
  <2>1. (IF run THEN "accepted" ELSE r.want) \in {"accepted"} \cup Settling
        BY <1>4, <1>6, Recipe DEF Decisions
  <2> DEFINE d == IF run THEN "accepted" ELSE r.want
             l == event[e].linked \/ run
  <2>2. d \in {"absent", "accepted"} \cup Settling /\ l \in BOOLEAN BY <2>1
  <2>3. event' = [event EXCEPT ![e] = [event[e] EXCEPT !.disp = d, !.linked = l]]
        BY <1>2, <1>3, <1>5, <1>6 DEF Commit
  <2> HIDE DEF d, l
  <2>4. [event[e] EXCEPT !.disp = d, !.linked = l] \in EventRows
        BY <1>5, <2>2 DEF EventRows
  <2>5. [event[e] EXCEPT !.disp = d, !.linked = l].disp = d /\ [event[e] EXCEPT !.disp = d, !.linked = l].linked = l
        BY <1>5 DEF EventRows
  <2>6. d = (IF run THEN "accepted" ELSE r.want) /\ l = (event[e].linked \/ run) BY DEF d, l
  <2>7. PICK z \in EventRows : z = [event[e] EXCEPT !.disp = d, !.linked = l] BY <2>4
  <2> QED BY <2>3, <2>5, <2>6, <2>7
<1>8. x.disp # "absent" /\ (~run => x.disp \in Settling)
      BY <1>4, <1>6, <1>7, Recipe DEF Decisions, Settling
<1>9. \A y \in Events : event'[y] = IF y = e THEN x ELSE event[y] BY <1>5, <1>7
<1>10. event' \in [Events -> EventRows] BY <1>5, <1>7
<1>11. UNCHANGED <<job, cursor, acked, transport, arrived, config, live, faults>>
       BY DEF Commit, sourceVars, worldVars
<1>12. contested' = (IF Contended(p) THEN contested \cup {e} ELSE contested) BY <1>2, <1>3 DEF Commit
<1>13. contested \subseteq contested' /\ contested' \subseteq Events BY <1>12 DEF TypeOK
<1>14. CASE run /\ turn[e].state = "absent"
  <2> DEFINE n == [state |-> "accepted", frozen |-> r.want, attempts |-> 0]
             a == [r EXCEPT !.step = "submit"]
  <2>1. turn' = [turn EXCEPT ![e] = n] BY <1>2, <1>3, <1>6, <1>14 DEF Commit
  <2>2. pass' = [pass EXCEPT ![p] = a] BY <1>2, <1>3, <1>6, <1>14 DEF Commit
  <2>3. n \in TurnRows /\ n.state = "accepted" /\ n.frozen = r.want BY <1>6, <1>14 DEF TurnRows
  <2>4. /\ a \in PassRows /\ a.step = "submit" /\ a.want = r.want /\ a.ev = e
        /\ a.batch = r.batch /\ a.kind = r.kind /\ a.upto = r.upto
        /\ a.miss = r.miss /\ a.safe = r.safe
        BY <1>3 DEF PassRows
  <2> HIDE DEF a, n
  <2>5. turn' \in [Events -> TurnRows] /\ \A y \in Events : turn'[y] = IF y = e THEN n ELSE turn[y]
        BY <1>5, <2>1, <2>3
  <2>6. Grows(event, turn, event', turn') BY <1>8, <1>9, <1>14, <2>3, <2>5 DEF Grows
  <2>7. Good(a, event', turn', contested')
    <3>1. a.batch \subseteq Events /\ a.safe \subseteq Events /\ a.upto \in 0 .. N BY <2>4 DEF PassRows
    <3>2. \A y \in 1 .. a.upto : y \in Events BY <3>1, Numbers
    <3>3. /\ a.kind = "recover" => \A y \in a.batch : turn'[y].state # "absent"
          /\ \A y \in a.safe : event'[y].disp # "absent"
          /\ a.kind = "poll" /\ ~a.miss =>
               \A y \in 1 .. a.upto : event'[y].disp # "absent" \/ y \in a.batch \/ a.ev = y
          BY <1>3, <1>4, <2>4, <2>6, <3>1, <3>2 DEF Good, Grows
    <3>4. turn'[e] = n /\ event'[e] = x BY <1>9, <2>5
    <3> QED BY <1>8, <2>3, <2>4, <3>3, <3>4 DEF Good, Busy
  <2>8. \A q \in Passes \ {p} : pass[q].step \in {"decide", "commit"} /\ pass[q].ev \notin contested'
                                => turn'[pass[q].ev].state = turn[pass[q].ev].state
    <3>1. TAKE q \in Passes \ {p}
    <3>2. HAVE pass[q].step \in {"decide", "commit"} /\ pass[q].ev \notin contested'
    <3>3. pass[q].ev # e BY <1>2, <1>3, <1>12, <3>2 DEF Contended
    <3>4. pass[q].ev \in Events BY <3>2, PassOf DEF Good, Busy
    <3> QED BY <2>5, <3>3, <3>4
  <2>9. PassInv' /\ pass' \in [Passes -> PassRows] BY <1>13, <2>2, <2>4, <2>6, <2>7, <2>8, OneStep
  <2>10. TypeOK' BY <1>10, <1>11, <1>13, <2>5, <2>9 DEF TypeOK
  <2>11. StoreInv'
    <3>1. job[e] = NoRecipe BY <1>14 DEF StoreInv
    <3>2. r.want \in Recipes /\ x.linked /\ x.disp = "accepted" BY <1>6, <1>7, <1>14
    <3>3. turn'[e] = n /\ event'[e] = x BY <1>9, <2>5
    <3>4. \A y \in Events \ {e} : turn'[y] = turn[y] /\ event'[y] = event[y] BY <1>9, <2>5
    <3>5. \A y \in Events : y \notin contested' => y \notin contested BY <1>13
    <3>6. ASSUME NEW y \in Events, y # e
          PROVE  /\ Done(y)' => event'[y].disp # "absent"
                 /\ turn'[y].state # "absent" =>
                     turn'[y].frozen \in Recipes /\ event'[y].linked /\ event'[y].disp # "absent"
                 /\ job'[y] # NoRecipe => turn'[y].state # "absent" /\ job'[y] = turn'[y].frozen
                 /\ y \notin contested' /\ event'[y].disp \in {"ignored", "challenged"} => turn'[y].state = "absent"
          BY <1>11, <3>4, <3>5, <3>6 DEF StoreInv, Done
    <3>7. /\ event'[e].disp # "absent" /\ turn'[e].frozen \in Recipes /\ event'[e].linked
          /\ event'[e].disp \notin {"ignored", "challenged"} /\ job'[e] = NoRecipe
          BY <1>11, <2>3, <3>1, <3>2, <3>3
    <3> QED BY <3>6, <3>7 DEF StoreInv
  <2> QED BY <2>9, <2>10, <2>11
<1>15. CASE ~(run /\ turn[e].state = "absent")
  <2>1. turn' = turn BY <1>2, <1>3, <1>6, <1>15 DEF Commit
  <2>2. event' \in [Events -> EventRows] /\ Grows(event, turn, event', turn') BY <1>7, <1>8, <2>1, EventSet
  <2>3. PICK a \in PassRows : pass' = [pass EXCEPT ![p] = a] /\ Good(a, event', turn', contested')
    <3>1. CASE run /\ turn[e].state = "accepted"
      <4> DEFINE b == [r EXCEPT !.step = "read"]
      <4>1. pass' = [pass EXCEPT ![p] = b] BY <1>2, <1>3, <1>6, <3>1 DEF Commit
      <4>2. /\ b \in PassRows /\ b.step = "read" /\ b.ev = e
            /\ b.batch = r.batch /\ b.kind = r.kind /\ b.upto = r.upto
            /\ b.miss = r.miss /\ b.safe = r.safe
            BY <1>3 DEF PassRows
      <4> HIDE DEF b
      <4>3. b.batch \subseteq Events /\ b.safe \subseteq Events /\ b.upto \in 0 .. N BY <4>2 DEF PassRows
      <4>4. \A y \in 1 .. b.upto : y \in Events BY <4>3, Numbers
      <4>5. /\ b.kind = "recover" => \A y \in b.batch : turn'[y].state # "absent"
            /\ \A y \in b.safe : event'[y].disp # "absent"
            /\ b.kind = "poll" /\ ~b.miss =>
                 \A y \in 1 .. b.upto : event'[y].disp # "absent" \/ y \in b.batch \/ b.ev = y
            BY <1>3, <1>4, <2>2, <4>2, <4>3, <4>4 DEF Good, Grows
      <4>6. event'[e] = x BY <1>9
      <4>7. Good(b, event', turn', contested') BY <1>8, <4>2, <4>5, <4>6 DEF Good, Busy
      <4> QED BY <4>1, <4>2, <4>7
    <3>2. CASE ~(run /\ turn[e].state = "accepted")
      <4>1. pass' = [pass EXCEPT ![p] = Recorded(r)] BY <1>2, <1>3, <1>6, <1>15, <3>2 DEF Commit
      <4>2. event'[r.ev].disp # "absent" BY <1>3, <1>8, <1>9
      <4>3. Recorded(r) \in PassRows /\ Good(Recorded(r), event', turn', contested')
            BY <1>4, <2>2, <4>2, GoodLeaves
      <4> QED BY <4>1, <4>3
    <3> QED BY <3>1, <3>2
  <2>4. PassInv' /\ pass' \in [Passes -> PassRows] BY <1>13, <2>1, <2>2, <2>3, OneStep
  <2>5. TypeOK' BY <1>11, <1>13, <2>1, <2>2, <2>4 DEF TypeOK
  <2>6. e \notin contested' /\ ~run => turn[e].state = "absent"
    <3>1. r.step \in {"decide", "commit"} /\ r.ev \notin contested => turn[r.ev].state = "absent" BY <1>4 DEF Good
    <3> QED BY <1>3, <1>4, <1>13, <3>1
  <2>7. StoreInv'
        BY <1>7, <1>8, <1>9, <1>11, <1>13, <2>1, <2>6 DEF StoreInv, Done
  <2> QED BY <2>4, <2>5, <2>7
<1> QED BY <1>14, <1>15

\* A step that writes one event that stays accepted or fails, or none.
LEMMA EventWrite ==
    ASSUME Inv, NEW p \in Passes, NEW r \in PassRows, pass' = [pass EXCEPT ![p] = r],
           NEW e \in Events, NEW x \in EventRows, event' = [event EXCEPT ![e] = x],
           UNCHANGED <<sourceVars, turn, job, worldVars, contested>>, Fault \/ UNCHANGED faults,
           x = event[e] \/ x.disp \in {"accepted", "failed"}, x.linked = event[e].linked,
           event[e].disp # "absent" => x.disp # "absent",
           Good(r, event', turn, contested)
    PROVE  Inv'
<1> USE DEF Inv
<1>1. event \in [Events -> EventRows] BY DEF TypeOK
<1>2. event' \in [Events -> EventRows] /\ \A y \in Events : event'[y] = IF y = e THEN x ELSE event[y]
      BY <1>1
<1>3. Grows(event, turn, event', turn') BY <1>2 DEF Grows
<1>4. PassInv' /\ pass' \in [Passes -> PassRows] BY <1>3, OneStep
<1>5. TypeOK' BY <1>2, <1>4, SameFaults DEF TypeOK, sourceVars, worldVars
<1>6. StoreInv'
  <2>1. ASSUME NEW y \in Events
        PROVE  /\ Done(y)' => event'[y].disp # "absent"
               /\ turn'[y].state # "absent" =>
                   turn'[y].frozen \in Recipes /\ event'[y].linked /\ event'[y].disp # "absent"
               /\ job'[y] # NoRecipe => turn'[y].state # "absent" /\ job'[y] = turn'[y].frozen
               /\ y \notin contested' /\ event'[y].disp \in {"ignored", "challenged"} => turn'[y].state = "absent"
    <3>1. CASE y = e BY <1>2, <3>1 DEF StoreInv, Done, sourceVars
    <3>2. CASE y # e BY <1>2, <3>2 DEF StoreInv, Done, sourceVars
    <3> QED BY <3>1, <3>2
  <2> QED BY <2>1 DEF StoreInv
<1> QED BY <1>4, <1>5, <1>6

\* A step that writes a turn that is there.
LEMMA TurnWrite ==
    ASSUME Inv, NEW p \in Passes, NEW r \in PassRows, pass' = [pass EXCEPT ![p] = r],
           NEW e \in Events, NEW t \in TurnRows, turn' = [turn EXCEPT ![e] = t],
           UNCHANGED <<sourceVars, event, job, worldVars, contested>>, Fault \/ UNCHANGED faults,
           turn[e].state # "absent", t.state # "absent", t.frozen = turn[e].frozen,
           Good(r, event, turn', contested)
    PROVE  Inv'
<1> USE DEF Inv
<1>1. turn \in [Events -> TurnRows] BY DEF TypeOK
<1>2. turn' \in [Events -> TurnRows] /\ \A y \in Events : turn'[y] = IF y = e THEN t ELSE turn[y]
      BY <1>1
<1>3. Grows(event, turn, event', turn') BY <1>2 DEF Grows
<1>4. \A q \in Passes \ {p} : pass[q].step \in {"decide", "commit"} /\ pass[q].ev \notin contested'
                              => turn'[pass[q].ev].state = turn[pass[q].ev].state
  <2>1. TAKE q \in Passes \ {p}
  <2>2. HAVE pass[q].step \in {"decide", "commit"} /\ pass[q].ev \notin contested'
  <2>3. pass[q].ev \in Events /\ turn[pass[q].ev].state = "absent" BY <2>2, PassOf DEF Good, Busy
  <2> QED BY <1>2, <2>3
<1>5. PassInv' /\ pass' \in [Passes -> PassRows] BY <1>3, <1>4, OneStep
<1>6. TypeOK' BY <1>2, <1>5, SameFaults DEF TypeOK, sourceVars, worldVars
<1>7. StoreInv' BY <1>2 DEF StoreInv, Done, sourceVars
<1> QED BY <1>5, <1>6, <1>7

LEMMA AcceptFailsStep ==
    ASSUME Inv, NEW p \in Passes, AcceptFails(p)
    PROVE  Inv'
<1>1. pass[p] \in PassRows /\ Good(pass[p], event, turn, contested) BY PassOf
<1>2. PICK r \in PassRows : r = pass[p] BY <1>1
<1>3. Busy(r) /\ r.ev \in Events BY <1>1, <1>2 DEF AcceptFails, Good, Busy
<1>4. PICK e \in Events : e = r.ev BY <1>3
<1>5. event \in [Events -> EventRows] /\ event[e] \in EventRows BY DEF Inv, TypeOK
<1>6. PICK x \in EventRows : /\ event' = [event EXCEPT ![e] = x] /\ x.linked = event[e].linked
                             /\ x = event[e] \/ x.disp = "accepted"
                             /\ event[e].disp # "absent" => x.disp # "absent"
  <2>1. CASE r.kind = "pending"
    <3>1. event' = [event EXCEPT ![e] = [event[e] EXCEPT !.disp = "accepted", !.job = FALSE]]
          BY <1>2, <1>4, <1>5, <2>1 DEF AcceptFails
    <3>2. PICK z \in EventRows : z = [event[e] EXCEPT !.disp = "accepted", !.job = FALSE]
          BY <1>5 DEF EventRows
    <3>3. z.disp = "accepted" /\ z.linked = event[e].linked BY <1>5, <3>2 DEF EventRows
    <3> QED BY <3>1, <3>2, <3>3
  <2>2. CASE r.kind # "pending" BY <1>2, <1>5, <2>2 DEF AcceptFails
  <2> QED BY <2>1, <2>2
<1>7. pass' = [pass EXCEPT ![p] = Missed(r)] BY <1>2 DEF AcceptFails
<1>8. Missed(r) \in PassRows /\ Good(Missed(r), event, turn, contested) BY <1>1, <1>2, <1>3, GoodMissed
<1>9. Grows(event, turn, event', turn) BY <1>5, <1>6 DEF Grows
<1>10. Missed(r).step = "next" BY <1>3, Left
<1>11. Good(Missed(r), event', turn, contested) BY <1>8, <1>9, <1>10, GoodKept
<1> QED BY <1>6, <1>7, <1>8, <1>11, EventWrite DEF AcceptFails

LEMMA UnreadableStep ==
    ASSUME Inv, NEW e \in Events, Unreadable(e)
    PROVE  Inv'
<1>0. Sup \in Passes BY DEF Passes
<1>1. pass[Sup] \in PassRows /\ Good(pass[Sup], event, turn, contested) BY <1>0, PassOf
<1> DEFINE a == [pass[Sup] EXCEPT !.batch = @ \ {e}]
<1>2. /\ a \in PassRows /\ a.kind = "pending" /\ a.step = "next" /\ a.safe = pass[Sup].safe
      BY <1>1 DEF PassRows, Unreadable, IsNext, At
<1>3. pass' = [pass EXCEPT ![Sup] = a] BY <1>1 DEF Unreadable
<1> HIDE DEF a
<1>4. event \in [Events -> EventRows] /\ event[e] \in EventRows BY DEF Inv, TypeOK
<1>5. PICK x \in EventRows : x = [event[e] EXCEPT !.disp = "failed", !.job = FALSE]
      BY <1>4 DEF EventRows, Settling
<1>6. x.disp = "failed" /\ x.linked = event[e].linked BY <1>4, <1>5 DEF EventRows
<1>7. event' = [event EXCEPT ![e] = x] BY <1>4, <1>5 DEF Unreadable
<1>8. pass[Sup].safe \subseteq Events /\ \A y \in pass[Sup].safe : event[y].disp # "absent"
      BY <1>1 DEF Good, PassRows
<1>9. \A y \in pass[Sup].safe : event'[y].disp # "absent" BY <1>4, <1>6, <1>7, <1>8
<1>10. Good(a, event', turn, contested) BY <1>2, <1>9 DEF Good, Busy
<1> QED BY <1>0, <1>2, <1>3, <1>6, <1>7, <1>10, EventWrite DEF Unreadable

LEMMA NoteStep ==
    ASSUME Inv, NEW p \in Passes, NEW ok \in BOOLEAN, Note(p, ok)
    PROVE  Inv'
<1>1. pass[p] \in PassRows /\ Good(pass[p], event, turn, contested) BY PassOf
<1>2. PICK r \in PassRows : r = pass[p] BY <1>1
<1>3. Busy(r) /\ r.ev \in Events /\ (r.kind = "poll" => event[r.ev].disp # "absent")
      BY <1>1, <1>2 DEF Note, Good, Busy
<1>4. PICK e \in Events : e = r.ev BY <1>3
<1>5. event \in [Events -> EventRows] /\ event[e] \in EventRows BY DEF Inv, TypeOK
<1>6. PICK x \in EventRows : /\ event' = [event EXCEPT ![e] = x] /\ x.linked = event[e].linked
                             /\ x = event[e] \/ x.disp \in {"accepted", "failed"}
                             /\ event[e].disp # "absent" => x.disp # "absent"
  <2>1. CASE ok
    <3> DEFINE d == Disposition(r.step)
               j == r.step = "queued"
    <3>1. d \in {"accepted", "failed"} /\ j \in BOOLEAN BY DEF Disposition
    <3>2. event' = [event EXCEPT ![e] = [event[e] EXCEPT !.disp = d, !.job = j]]
          BY <1>2, <1>4, <1>5, <2>1 DEF Note
    <3> HIDE DEF d, j
    <3>3. PICK z \in EventRows : z = [event[e] EXCEPT !.disp = d, !.job = j]
          BY <1>5, <3>1 DEF EventRows, Settling
    <3>4. z.disp = d /\ z.linked = event[e].linked BY <1>5, <3>3 DEF EventRows
    <3> QED BY <3>1, <3>2, <3>3, <3>4
  <2>2. CASE ~ok BY <1>2, <1>5, <2>2 DEF Note
  <2> QED BY <2>1, <2>2
<1>7. pass' = [pass EXCEPT ![p] = Recorded(r)] BY <1>2 DEF Note
<1>8. Grows(event, turn, event', turn) BY <1>5, <1>6 DEF Grows
<1>9. Recorded(r) \in PassRows /\ Good(Recorded(r), event', turn, contested)
  <2>1. r.kind = "poll" => event'[r.ev].disp # "absent" BY <1>3, <1>8 DEF Grows
  <2> QED BY <1>1, <1>2, <1>3, <1>8, <2>1, GoodLeaves
<1> QED BY <1>6, <1>7, <1>9, EventWrite DEF Note

\* The step of a pass that has its turn.
LEMMA GoodMoved ==
    ASSUME NEW r \in PassRows, NEW ev, NEW tu, NEW co, Good(r, ev, tu, co), Busy(r),
           r.step \notin {"decide", "commit"},
           NEW s \in {"taken", "refused", "queued", "deferred", "parked"},
           s \in {"taken", "refused"} => tu[r.ev].state # "absent"
    PROVE  [r EXCEPT !.step = s] \in PassRows /\ Good([r EXCEPT !.step = s], ev, tu, co)
<1> DEFINE a == [r EXCEPT !.step = s]
<1>1. /\ a \in PassRows /\ a.step = s /\ a.want = r.want /\ a.ev = r.ev /\ a.batch = r.batch
      /\ a.kind = r.kind /\ a.upto = r.upto /\ a.miss = r.miss /\ a.safe = r.safe
      BY DEF PassRows
<1> HIDE DEF a
<1>2. Good(a, ev, tu, co) BY <1>1 DEF Good, Busy
<1> QED BY <1>1, <1>2 DEF a

LEMMA SubmitStep ==
    ASSUME Inv, NEW p \in Passes, NEW refused \in BOOLEAN, Submit(p, refused)
    PROVE  Inv'
<1> USE DEF Inv
<1>1. pass[p] \in PassRows /\ Good(pass[p], event, turn, contested) BY PassOf
<1>2. PICK r \in PassRows : r = pass[p] BY <1>1
<1>3. Busy(r) /\ r.step = "submit" /\ r.ev \in Events BY <1>1, <1>2 DEF Submit, At, Good, Busy
<1>4. PICK e \in Events : e = r.ev BY <1>3
<1>5. turn[e].state # "absent" /\ r.want = turn[e].frozen BY <1>1, <1>2, <1>3, <1>4 DEF Good
<1>6. r.want \in Recipes BY <1>5 DEF StoreInv
<1>7. PICK s \in {"taken", "refused"} : pass' = [pass EXCEPT ![p] = [r EXCEPT !.step = s]]
      BY <1>1, <1>2 DEF Submit
<1>8. [r EXCEPT !.step = s] \in PassRows /\ Good([r EXCEPT !.step = s], event, turn, contested)
  <2>1. s \in {"taken", "refused", "queued", "deferred", "parked"} /\ r.step \notin {"decide", "commit"} BY <1>3
  <2> QED BY <1>1, <1>2, <1>3, <1>4, <1>5, <2>1, GoodMoved
<1>9. UNCHANGED <<sourceVars, event, turn, worldVars, contested>> /\ (Fault \/ UNCHANGED faults)
      BY DEF Submit
<1>10. PassInv' /\ pass' \in [Passes -> PassRows] BY <1>7, <1>8, <1>9, QuietStep
<1>11. job \in [Events -> Recipes \cup {NoRecipe}] BY DEF TypeOK
<1>12. job' = job \/ job' = [job EXCEPT ![e] = r.want] BY <1>2, <1>4 DEF Submit
<1>13. job' \in [Events -> Recipes \cup {NoRecipe}] BY <1>6, <1>11, <1>12
<1>14. TypeOK' BY <1>9, <1>10, <1>13, SameFaults DEF TypeOK, sourceVars, worldVars
<1>15. \A y \in Events : job'[y] = job[y] \/ (y = e /\ job'[y] = r.want) BY <1>11, <1>12
<1>16. StoreInv' BY <1>5, <1>9, <1>15 DEF StoreInv, Done, sourceVars
<1> QED BY <1>10, <1>14, <1>16

\* What a turn becomes when its submission is answered.
LEMMA TurnEdit ==
    ASSUME NEW t \in TurnRows, NEW s \in {"accepted", "queued", "failed"}
    PROVE  /\ [t EXCEPT !.state = s, !.attempts = @ + 1] \in TurnRows
           /\ [t EXCEPT !.state = s, !.attempts = @ + 1].state = s
           /\ [t EXCEPT !.state = s, !.attempts = @ + 1].frozen = t.frozen
<1>1. t.attempts + 1 \in Nat BY DEF TurnRows
<1> DEFINE k == t.attempts + 1
<1>2. k \in Nat BY <1>1
<1> HIDE DEF k
<1>3. [t EXCEPT !.state = s, !.attempts = k] \in TurnRows BY <1>2 DEF TurnRows
<1>4. [t EXCEPT !.state = s, !.attempts = k].state = s /\ [t EXCEPT !.state = s, !.attempts = k].frozen = t.frozen
      BY DEF TurnRows
<1> QED BY <1>3, <1>4 DEF k

\* Steps that answer a submission.
LEMMA AnswerStep ==
    ASSUME Inv, NEW p \in Passes, NEW ok \in BOOLEAN, MarkQueued(p, ok) \/ MarkRefused(p, ok)
    PROVE  Inv'
<1>1. pass[p] \in PassRows /\ Good(pass[p], event, turn, contested) BY PassOf
<1>2. PICK r \in PassRows : r = pass[p] BY <1>1
<1>3. Busy(r) /\ r.step \in {"taken", "refused"} /\ r.ev \in Events
      BY <1>1, <1>2 DEF MarkQueued, MarkRefused, At, Good, Busy
<1>4. PICK e \in Events : e = r.ev BY <1>3
<1>5. turn[e].state # "absent" /\ (r.kind = "poll" => event[r.ev].disp # "absent")
      BY <1>1, <1>2, <1>3, <1>4 DEF Good
<1>6. PICK s \in {"queued", "deferred", "parked"} :
        pass' = [pass EXCEPT ![p] = IF r.kind = "recover" THEN Recorded(r) ELSE [r EXCEPT !.step = s]]
      BY <1>2 DEF MarkQueued, MarkRefused, Then
<1>7. turn \in [Events -> TurnRows] /\ turn[e] \in TurnRows BY DEF Inv, TypeOK
<1>8. PICK t \in TurnRows : /\ turn' = [turn EXCEPT ![e] = t] /\ t.state # "absent"
                            /\ t.frozen = turn[e].frozen
  <2>1. CASE turn' = turn BY <1>5, <1>7, <2>1
  <2>2. CASE turn' # turn
    <3>1. PICK z \in {"accepted", "queued", "failed"} :
            turn' = [turn EXCEPT ![e].state = z, ![e].attempts = @ + 1]
          BY <1>2, <1>4, <2>2 DEF MarkQueued, MarkRefused
    <3>2. turn' = [turn EXCEPT ![e] = [turn[e] EXCEPT !.state = z, !.attempts = @ + 1]] BY <1>7, <3>1
    <3>3. /\ [turn[e] EXCEPT !.state = z, !.attempts = @ + 1] \in TurnRows
          /\ [turn[e] EXCEPT !.state = z, !.attempts = @ + 1].state = z
          /\ [turn[e] EXCEPT !.state = z, !.attempts = @ + 1].frozen = turn[e].frozen
          BY <1>7, TurnEdit
    <3> QED BY <3>2, <3>3
  <2> QED BY <2>1, <2>2
<1>9. /\ UNCHANGED <<sourceVars, event, job, worldVars, contested>>
      /\ Fault \/ UNCHANGED faults
      BY DEF MarkQueued, MarkRefused
<1>10. Grows(event, turn, event, turn') BY <1>5, <1>7, <1>8 DEF Grows
<1>11. CASE r.kind = "recover"
  <2>1. Recorded(r) \in PassRows /\ Good(Recorded(r), event, turn', contested)
        BY <1>1, <1>2, <1>3, <1>5, <1>10, GoodLeaves
  <2>2. pass' = [pass EXCEPT ![p] = Recorded(r)] BY <1>6, <1>11
  <2> QED BY <1>5, <1>8, <1>9, <2>1, <2>2, TurnWrite
<1>12. CASE r.kind # "recover"
  <2>1. pass' = [pass EXCEPT ![p] = [r EXCEPT !.step = s]] BY <1>6, <1>12
  <2>2. Good(r, event, turn', contested) BY <1>1, <1>2, <1>3, <1>10, GoodKept
  <2>3. /\ s \in {"taken", "refused", "queued", "deferred", "parked"} /\ r.step \notin {"decide", "commit"}
        /\ s \notin {"taken", "refused"}
        BY <1>3
  <2>4. [r EXCEPT !.step = s] \in PassRows /\ Good([r EXCEPT !.step = s], event, turn', contested)
        BY <1>3, <2>2, <2>3, GoodMoved
  <2> QED BY <1>5, <1>8, <1>9, <2>1, <2>4, TurnWrite
<1> QED BY <1>11, <1>12

LEMMA EndPassStep ==
    ASSUME Inv, NEW p \in Passes, NEW ok \in BOOLEAN, NEW moved \in BOOLEAN, EndPass(p, ok, moved)
    PROVE  Inv'
<1> USE DEF Inv
<1>1. pass[p] \in PassRows /\ Good(pass[p], event, turn, contested) BY PassOf
<1>2. /\ pass[p].step = "next" /\ pass[p].batch = {} /\ pass' = [pass EXCEPT ![p] = NoPass]
      /\ UNCHANGED <<transport, arrived, event, turn, job, config, live, contested>>
      /\ Fault \/ UNCHANGED faults
      BY DEF EndPass, At, storeVars, worldVars
<1>3. NoPass \in PassRows /\ Good(NoPass, event, turn, contested) BY NoPassGood
<1>4. PassInv' /\ pass' \in [Passes -> PassRows] BY <1>2, <1>3, QuietStep
<1>5. pass[p].safe \subseteq Events /\ pass[p].upto \in 0 .. N BY <1>1 DEF PassRows
<1>6. acked' \subseteq acked \cup pass[p].safe BY DEF EndPass
<1>7. cursor' = cursor \/ (cursor' = pass[p].upto /\ pass[p].kind = "poll" /\ ~pass[p].miss)
      BY DEF EndPass, MayAdvance
<1>8. TypeOK' BY <1>2, <1>4, <1>5, <1>6, <1>7, SameFaults DEF TypeOK
<1>9. ASSUME NEW e \in Events, Done(e)' PROVE event[e].disp # "absent"
  <2>1. CASE e \in acked' BY <1>1, <1>6, <2>1 DEF Good, StoreInv, Done
  <2>2. CASE e <= cursor'
    <3>1. CASE cursor' = cursor BY <2>2, <3>1 DEF StoreInv, Done
    <3>2. CASE cursor' = pass[p].upto /\ pass[p].kind = "poll" /\ ~pass[p].miss
      <4>1. e \in 1 .. pass[p].upto BY <1>5, <2>2, <3>2, Numbers DEF Events
      <4> QED BY <1>1, <1>2, <3>2, <4>1 DEF Good, Busy
    <3> QED BY <1>7, <3>1, <3>2
  <2> QED BY <1>9, <2>1, <2>2 DEF Done
<1>10. StoreInv' BY <1>2, <1>9 DEF StoreInv
<1> QED BY <1>4, <1>8, <1>10

LEMMA NextInv == Inv /\ [Next]_vars => Inv'
<1> SUFFICES ASSUME Inv, [Next]_vars PROVE Inv' OBVIOUS
<1>1. CASE Arrive \/ Edit \/ \E p \in Pollers : Reload(p) BY <1>1, WorldStep
<1>2. CASE Crash BY <1>2, CrashStep
<1>3. CASE \E e \in Events, ok \in BOOLEAN : Deliver(e, ok) BY <1>3, DeliverStep
<1>4. CASE \E p \in Pollers : Poll(p) BY <1>4, PollStep
<1>5. CASE Pending \/ Recover BY <1>5, SupervisorStep
<1>6. CASE \E e \in Events : Unreadable(e) BY <1>6, UnreadableStep
<1>7. ASSUME NEW p \in Passes, Step(p) PROVE Inv'
  <2>1. CASE \E e \in Events : NextEvent(p, e) BY <2>1, NextEventStep
  <2>2. CASE Decide(p) BY <2>2, DecideStep
  <2>3. CASE Commit(p) BY <2>3, CommitStep
  <2>4. CASE ReadTurn(p) BY <2>4, ReadStep
  <2>5. CASE AcceptFails(p) BY <2>5, AcceptFailsStep
  <2>6. CASE \E b \in BOOLEAN : Submit(p, b) BY <2>6, SubmitStep
  <2>7. CASE \E b \in BOOLEAN : MarkQueued(p, b) \/ MarkRefused(p, b) BY <2>7, AnswerStep
  <2>8. CASE \E b \in BOOLEAN : Note(p, b) BY <2>8, NoteStep
  <2>9. CASE \E ok, moved \in BOOLEAN : EndPass(p, ok, moved) BY <2>9, EndPassStep
  <2> QED BY <1>7, <2>1, <2>2, <2>3, <2>4, <2>5, <2>6, <2>7, <2>8, <2>9 DEF Step
<1>8. CASE UNCHANGED vars
  <2>1. UNCHANGED <<transport, arrived, cursor, acked, event, turn, job, config, live, pass, faults, contested>>
        BY <1>8 DEF vars, sourceVars, storeVars, worldVars
  <2> QED BY <2>1 DEF Inv, TypeOK, PassInv, StoreInv, Done
<1> QED BY <1>1, <1>2, <1>3, <1>4, <1>5, <1>6, <1>7, <1>8 DEF Next

LEMMA AlwaysInv == Spec => []Inv
BY InitInv, NextInv, PTL DEF Spec
-----------------------------------------------------------------------------
(* Theorems *)

\* Every variable of the channel's ingress keeps to the values its table or task
\* can hold, for any number of messages and tasks.
THEOREM TypeCorrect == Spec => []TypeOK
<1>1. Inv => TypeOK BY DEF Inv
<1> QED BY <1>1, AlwaysInv, PTL

\* poll_account_once and accept_webhook_delivery tell the provider to forget only
\* what the event log holds, for any batch, any failure in it, any crash and any
\* overlap of two inbound tasks.
THEOREM NothingLost == Spec => []NothingSkipped
<1>1. Inv => NothingSkipped BY DEF Inv, StoreInv, NothingSkipped
<1> QED BY <1>1, AlwaysInv, PTL

\* What runs is the execution frozen in the transaction that accepted the message,
\* whatever was decided for it by later deliveries.
THEOREM FrozenRuns == Spec => []RunsWhatWasAccepted
<1>1. Inv => RunsWhatWasAccepted BY DEF Inv, StoreInv, RunsWhatWasAccepted
<1> QED BY <1>1, AlwaysInv, PTL

\* A message that was refused a run has none, and one that has a turn is never
\* turned away, unless two passes were deciding it at once.
THEOREM DecisionStands == Spec => []IgnoredNeverRuns
<1>1. Inv => IgnoredNeverRuns BY DEF Inv, StoreInv, IgnoredNeverRuns
<1> QED BY <1>1, AlwaysInv, PTL
=============================================================================

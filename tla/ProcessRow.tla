----------------------------- MODULE ProcessRow -----------------------------
(***************************************************************************)
(* One row of the unified process table (process_table.rs): its lifecycle  *)
(* state and the durable signal latches an operator sets on it.  `Kill` is  *)
(* a `Stop` with an immediate delivery; the two differ only in how long the *)
(* child may still write, so one latch stands for both.                    *)
(***************************************************************************)

RowLive   == {"admitted", "running", "suspended"}
RowStates == {"none", "exited"} \cup RowLive
Row       == [state : RowStates, stop : BOOLEAN, suspend : BOOLEAN]

NoRow    == [state |-> "none",     stop |-> FALSE, suspend |-> FALSE]
AdmitRow == [state |-> "admitted", stop |-> FALSE, suspend |-> FALSE]

\* ProcessState::can_transition_to
RowCanMove(s, t) ==
    \/ s = t
    \/ s = "admitted"  /\ t \in {"running", "exited"}
    \/ s = "running"   /\ t \in {"suspended", "exited"}
    \/ s = "suspended" /\ t \in {"running", "exited"}

\* ProcessTable::signal: the latches are independent, and `Resume` clears the
\* suspend latch only.
Signals == {"stop", "suspend", "resume"}
Signalled(r, sig) ==
    [r EXCEPT !.stop    = @ \/ sig = "stop",
              !.suspend = IF sig = "stop" THEN @ ELSE sig = "suspend"]

\* ProcessTable::reconcile towards state t: admit a missing row, leave an exited
\* one alone, and otherwise take the transition.  The admission is committed
\* even when the transition that follows it is refused.
Admitted(r)   == IF r.state = "none" THEN AdmitRow ELSE r
RowRefuses(r, t) ==
    Admitted(r).state # "exited" /\ ~RowCanMove(Admitted(r).state, t)
Reconcile(r, t) ==
    IF Admitted(r).state = "exited" \/ RowRefuses(r, t)
    THEN Admitted(r)
    ELSE [Admitted(r) EXCEPT !.state = t]
=============================================================================

--------------------------- MODULE MCSwarmRecovery ---------------------------
EXTENDS SwarmRecovery, TLC
CONSTANTS a, b, c, n1, p1, p2

MCDeps == [n \in Nodes |-> {}]
\* The third member votes and stores checkpoints; the other two may lead.
MCLead == {<<"lead", a>>, <<"lead", b>>}
MCDispatch == MCLead \cup {<<"arm", b>>, <<"crash", a>>, <<"cancel", a>>, <<"refuse", a>>,
                           <<"refuse", b>>, <<"kill", c>>}
MCRace == MCLead \cup {<<"arm", b>>, <<"publish", a>>}
\* The kill switch of the third member is on only while the graph runs.
KillBound == kill # {} => graph.state \in {"none", "running"}
Perms == Permutations({p1, p2})
=============================================================================

--------------------------- MODULE MCSwarmCluster ---------------------------
EXTENDS SwarmCluster
CONSTANTS m1, m2, m3
\* The clocks of the members disagree by more than the election window.
MCBase == [m \in Members |-> IF m = m1 THEN 1 ELSE IF m = m2 THEN 2 ELSE 4]
MCRank == [m \in Members |-> IF m = m1 THEN 0 ELSE IF m = m2 THEN 1 ELSE 2]
MCInputs == {<<"drift", m1>>, <<"elect", m2>>, <<"enrol", m2>>,
             <<"kill", m3>>, <<"crash", m2>>}
=============================================================================

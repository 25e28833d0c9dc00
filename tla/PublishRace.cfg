SPECIFICATION Spec
CONSTANTS
    a = a  b = b  c = c  n1 = n1  p1 = p1  p2 = p2
    Members = {a, b, c}
    Source = a
    Nodes = {n1}
    Deps <- MCDeps
    Fallback = {}
    MaxParallel = 1
    MaxReassign = 0
    Plans = {p1}
    NoPlan = NoPlan  NoNode = NoNode  NoSnap = NoSnap
    QuietPublish = FALSE
    Inputs <- MCRace
    MaxTerm = 2
    MaxSeq = 3
INVARIANT IntentReplicated
CHECK_DEADLOCK FALSE

SPECIFICATION Spec
CONSTANTS
    a = a  b = b  c = c  n1 = n1  p1 = p1  p2 = p2
    Members = {a, b, c}
    Source = a
    Nodes = {n1}
    Deps <- MCDeps
    Fallback = {}
    MaxParallel = 1
    MaxReassign = 1
    Plans = {p1, p2}
    NoPlan = NoPlan  NoNode = NoNode  NoSnap = NoSnap
    QuietPublish = TRUE
    Inputs <- MCDispatch
    MaxTerm = 2
    MaxSeq = 2
INVARIANTS TypeOK IntentReplicated OneCopyPerInstallation NoDoubleExecution
CHECK_DEADLOCK FALSE
CONSTRAINT KillBound
SYMMETRY Perms

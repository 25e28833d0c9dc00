SPECIFICATION FairSpec
CONSTANTS
    N = 2
    Pollers = {p1, p2}
    Sup = Sup
    Recipes = {r1, r2}
    NoRecipe = NoRecipe
    Batch = 1
    MaxSubmit = 2
    MaxFaults = 2
    Verdicts = {"ignored"}
    AtFirst = {r1}
    Transports = {"poll", "push"}
    Inputs = {"crash", "edit", "refuse", "reload", "unreadable"}
INVARIANTS TypeOK NothingSkipped RunsWhatWasAccepted IgnoredNeverRuns
PROPERTY EventSettles
CHECK_DEADLOCK FALSE

SPECIFICATION FairSpec
CONSTANTS
    N = 1
    Pollers = {p1}
    Sup = Sup
    Recipes = {r1}
    NoRecipe = NoRecipe
    Batch = 1
    MaxSubmit = 2
    MaxFaults = 1
    Verdicts = {}
    AtFirst = {r1}
    Transports = {"poll"}
    Inputs = {"crash"}
PROPERTY RunHasOrigin
CHECK_DEADLOCK FALSE

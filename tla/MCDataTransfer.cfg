CONSTANTS
    ResFds = 1
    MaxFlows = 3
    c1 = c1
    c2 = c2
    Comps <- MCComps
    Flows <- MCFlows
    Eids = {0, 2}
    MaxPkts = 2
    NoComp = NoComp
SPECIFICATION Spec
INVARIANT TypeOK
INVARIANT NFlowsMatchesStamps

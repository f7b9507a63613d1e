SPECIFICATION Spec
CONSTANTS
    Procs = {relay, cli}
    People = {ana, ben}
    Invs = {i1}
    MaxUses <- ForOne
    Writes = 6
    Opens = 3
    Nothing = Nothing
SYMMETRY Alike
INVARIANT StampTells
PROPERTY OneChangeAtATime
CHECK_DEADLOCK FALSE

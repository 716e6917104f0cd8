SPECIFICATION LiveSpec
CONSTANTS
    g = g
    h = h
    Ports = {80, 443}
    Groups = {g, h}
    Specs <- MCSpecs
    Starts <- MCStarts
    Prios = {1, 2}
    MaxFaults = 2
    MaxEdits = 1
    NoLis = NoLis
    NoRule = NoRule
INVARIANTS TypeOK DoomedUnused FilledBeforeUse
PROPERTIES AlbConverges KeepsPromise
CHECK_DEADLOCK FALSE

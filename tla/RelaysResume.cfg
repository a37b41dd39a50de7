\* One relay of a raw stream whose publisher drops out and comes back.
CONSTANTS
    Relays = {raw}
    Composed = {}
    Procs = {p1}
    Gens = {}
    NoRelay = NoRelay
    NoProc = NoProc
    NoGen = NoGen
    MaxBackoff = 2
    MaxChanges = 1
    MaxCrashes = 0
SPECIFICATION Spec
INVARIANTS
    ResumesAtOnce
CHECK_DEADLOCK FALSE

SPECIFICATION Spec
CONSTANTS
    A = A
    B = B
    Hosts <- MCHosts
    Tables <- MCTables
    ReachWidth = 2
    MaxEntries = 2
    MaxMoves = 2
    MaxChanges = 2
INVARIANTS TypeOK OneClock FreshIsNews
PROPERTIES ManualUntouched ManualIsTold

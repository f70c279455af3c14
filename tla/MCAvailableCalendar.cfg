CONSTANTS
    Users = {ann, bob}
    NoUser = NoUser
    Calls = {c1, c2}
    MaxTimers = 1
    Requests = {r1, r2}
    Contents = {none, some}
    Empty = none
    MaxSaveTimers = 2
SPECIFICATION TimesSpec
SYMMETRY Symmetry
INVARIANTS AvailabilityIsSaved

CONSTANTS
    Names = {ann, bob}
    Created = {t1}
    Blocked = {busy}
    Deletes = {d1}
    Absent = Absent
    Requests = {r1, r2}
    Offers <- SomeOffers
    MaxCost = 2
    MaxCredits = 2
    MaxNow = 1
SPECIFICATION ComputeSpec
SYMMETRY Symmetry
INVARIANTS EveryoneConsidered OverdraftBounded ParticipantsRemain
PROPERTIES KeepsTheBooks DeleteIsAtomic
CHECK_DEADLOCK FALSE

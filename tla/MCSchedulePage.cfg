CONSTANTS
    Names = {ann, bob}
    Created = {t1}
    Blocked = {free, busy}
    Free = free
    Deletes = {d1}
    Absent = Absent
    MaxRequests = 2
    MaxTimers = 2
    MaxLoads = 1
    EarlierData <- MCEarlierData
SPECIFICATION Spec
SYMMETRY Symmetry
CONSTRAINT Bound
INVARIANTS NoEditStranded NoCalendarOverwritten QuietIsSaved MeetingsAreOfParticipants

CONSTANTS
    Users = {ann, bob}
    NoUser = NoUser
    Calls = {c1, c2, c3}
    MaxTimers = 2
SPECIFICATION SessionSpec
INVARIANTS SessionIsOne
PROPERTIES TokenIsRenewed

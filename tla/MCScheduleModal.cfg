CONSTANTS
    Users = {ann, bob}
    NoUser = NoUser
    Calls = {c1}
    MaxTimers = 1
    Requests = {r1, r2}
    MaxCredits = 1
    MaxUnspent = 2
SPECIFICATION Spec
SYMMETRY Symmetry
INVARIANTS EachReviewBuysOnce CreditsAsShown

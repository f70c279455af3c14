CONSTANTS
    Orders = {o1}
    Calls = {c1, c2, c3}
    Deliveries = {d1, d2}
    Offers <- SomeOffers
    Least = 1
    Most = 2
    Default = 1
    MaxReceived = 2
    Absent = Absent
SPECIFICATION FairSpec
INVARIANTS PriceMatchesOrder GrantedAsPaid PayableIsKnown
PROPERTIES PaidIsCreditedOrCanceled

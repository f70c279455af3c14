CONSTANTS
    Orders = {o1}
    Calls = {c1}
    Deliveries = {d1}
    Offers <- SomeOffers
    Least = 1
    Most = 2
    Default = 1
    MaxReceived = 1
    Absent = Absent
SPECIFICATION FairSpec
PROPERTY PaidIsCredited

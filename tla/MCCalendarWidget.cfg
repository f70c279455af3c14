CONSTANTS
    slots = 3
    days = 2
    Loads <- SomeLoads
    MaxEvents = 2
SPECIFICATION Spec
INVARIANTS EventsApart
PROPERTIES OneEventAtATime DroppedAsShown

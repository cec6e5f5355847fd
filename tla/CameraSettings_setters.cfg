SPECIFICATION FairSpec
CONSTANTS
    Setters = {s1, s2}
    Poll = Poll
    NoOne = NoOne
INVARIANTS TypeOK ConfirmedRemembered FreshWhenAvailable
PROPERTIES ShownNeverBack ServiceEnds Converges

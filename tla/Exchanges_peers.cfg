SPECIFICATION FairSpec
CONSTANTS
    Ports = {7001, 7002}
    NoPort = 0
    MaxPolls = 3
    MaxSends = 3
    MaxCopies = 2
CHECK_DEADLOCK FALSE
INVARIANTS AnswersMatch HonestNeverProtocol LeavesNothing
PROPERTIES Ends

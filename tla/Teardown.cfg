SPECIFICATION FairSpec
INVARIANTS TestPasses RegistrationClosedLast
PROPERTY TestEnds
CHECK_DEADLOCK FALSE

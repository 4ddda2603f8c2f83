SPECIFICATION FairSpec
CONSTANT LINE = 3
INVARIANTS TypeOK NotFooled OneStaleAnswer
PROPERTIES Completes Configured

SPECIFICATION FairSpec
CONSTANT Plans <- MCPlans
INVARIANTS TypeOK InOnePlace
PROPERTIES Answers Ends

SPECIFICATION FairSpec
CONSTANT Plans <- ThreeTables
INVARIANT InOnePlace

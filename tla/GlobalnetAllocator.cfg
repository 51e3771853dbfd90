SPECIFICATION FairSpec
CONSTANTS
    AddressSpace <- MCSpace
    Sizes <- MCSizes
    Ranges <- MCRanges
    Ledgers <- MCLedgers
INVARIANTS
    TypeOK
    FoundIsFirstFree
    ExhaustedIsFull
PROPERTIES
    AnswersAtOnce
    SearchAdvances
    SearchReturns

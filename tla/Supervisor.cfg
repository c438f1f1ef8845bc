CONSTANT Repeated = FALSE
SPECIFICATION FairSpec
INVARIANTS NoStrangerSignaled AcceptedIsClean RecordTruthful NoChildLeft
PROPERTIES MainStartsTraced BothReturn

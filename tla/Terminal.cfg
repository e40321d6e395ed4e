SPECIFICATION Spec
CONSTANTS
    f1 = f1
    f2 = f2
    a = a
    b = b
    Family <- MCFamily
    NDictionaries = 3
    familyOf <- MCFamilyOf
    AlwaysListed = {}
    Word <- MCWord
    EditLists <- MCEditLists
    EditDicts <- MCEditDicts
    EditConfigs <- MCEditConfigs
    MaxEdits = 1
    Slot = {1, 2}
    MaxChanges = 2
    Begun <- MCBegun
CHECK_DEADLOCK FALSE
INVARIANTS TypeOK ReviewEnds MatchedIsTruthful FailedMeansUntouched ResumableSetup
PROPERTIES OneAtATime PreviewsAreFresh OperationsEnd SetupKeepsOthersFiles UntouchedStay NewerConfigKept CompletedMeansSaved

CONSTANTS
    NoTask = NoTask
    Tasks <- MCTasks
    Order <- MCOrder
    Workflows <- MCWorkflows
    Operations <- AllOperations
    MaxLate = 1
    MaxNesting = 12
SPECIFICATION FairSpec
INVARIANT TypeOK
PROPERTIES
    StartsAfterPrerequisites
    ResultStands
    CompletedHasNoFailure
    FinalVerdictStands
    VerdictReached
    RestartForgetsNoTask

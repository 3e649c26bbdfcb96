CONSTANTS
    NoTask = NoTask
    Tasks <- MCTasks
    Order <- MCOrder
    Workflows <- OnlyFork
    Operations <- NoOperations
    MaxLate = 1
    MaxNesting = 12
SPECIFICATION Spec
PROPERTY VerdictWhenNothingRuns

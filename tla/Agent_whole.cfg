SPECIFICATION AgentSpec
CONSTANTS
    Question = {q1, q2}
    Task = {t1}
    MaxTurns = 2
    Budgets <- MCBudgets
    MaxReadBytes = 1
    Ceilings = {1}
    NoLimit = NoLimit
    Price = 1
    ToolBytes = 1
    ToolCalls = 2
INVARIANTS
    EveryCallIsAnswered
    SpentWithinCeiling
    WithinItsBudget
    BillsAddUp
    OnlyAnsweredIsFinished
PROPERTIES
    QuestionsEnd
CHECK_DEADLOCK FALSE

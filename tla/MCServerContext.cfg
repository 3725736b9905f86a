CONSTANTS
    Facts <- MCFacts
    Meets <- MCMeets
    Core <- MCCore
    Type <- MCType
    Slot <- MCSlot
    Score <- MCScore
    FactSize <- MCFactSize
    Weight <- MCWeight
    Priority <- MCPriority
    TurnSize <- MCTurnSize
    SummarySize = 1
    Invariants <- MCInvariants
    Playbooks <- MCPlaybooks
    Budgets <- MCBudgets
    MaxKnowledgeItems = 2
    TrustedCoreLimit = 2
    TaskRelevantLimit = 2
    MaxPerFactType = 1
    DiversityPenalty = 2
    MaxRecentSummaries = 1
    SeedLimit = 1
    MaxAssociated = 2
    MaxChanges = 1
    r1 = r1
    r2 = r2
    Requests = {r1, r2}
    Sessions = {s1}
    Values = {v1, v2}
    None = None
    Deleted = Deleted
    Configured = v1
    MaxManagers = 3
    MaxRequests = 3
    MaxFailures = 1
    MaxRestarts = 1
SYMMETRY MCSymmetry
SPECIFICATION MCSpec
INVARIANTS
    NothingUnread
    TrimmedToFit
    AssociatedAllowed
    CopiesAgree
CHECK_DEADLOCK FALSE

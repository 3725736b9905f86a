\* The same calls on the three adapters.
SPECIFICATION Spec
CONSTANTS
    None = None  WorkingTtl = 1
    s1 = s1  s2 = s2  ship = ship  fix = fix
    Scopes <- FiveScopes
    SettingScopes <- TwoScopes
    SessionIds <- TwoSessions
    Focus <- AllParts
    Queries <- SomeWords
    TurnInputs <- Turns
    WorkingInputs <- Working
    KnowledgeInputs <- Knowledge
    KnowledgePatches <- NewStates
    CandidateInputs <- Candidates
    EvidenceInputs <- Evidence
    AuditInputs <- Audits
    ItemInputs <- Items
    ItemPatches <- NewItems
    MonitorInputs <- Monitors
    CompactionInputs <- Compactions
    PlaybookInputs <- Playbooks
    PlaybookPatches <- NewPlaybooks
    AssociationInputs <- Associations
    StateInputs <- States
    DocumentInputs <- Documents
    Ranges <- SomeRanges
    PageOptions <- Pages
    SearchOptions <- Searches
    EventQueries <- Timelines
    Start = 2
    MaxNow = 3
    MaxCalls = 3
INVARIANTS WritesAgree ReadsAgree LogRebuildsRows
CHECK_DEADLOCK FALSE

CONSTANTS
    UINT_MAX = 7
    RestartModulus = 3
    Policies <- MCPolicies
SPECIFICATION Spec
INVARIANTS BackoffSchedule RetryBudget
PROPERTY ExhaustedStaysExhausted
CHECK_DEADLOCK TRUE

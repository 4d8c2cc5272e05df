SPECIFICATION Spec
CONSTANTS
    LongBits = 4
    MantissaBits = 2
    PhpInputs <- MCPhpInputs
    PyInputs <- MCPyInputs
INVARIANTS
    RefusedExactly
    EchoKeepsLeaves
    AnswerKeepsEntries
    AnswerCanBePassedOn
CHECK_DEADLOCK FALSE

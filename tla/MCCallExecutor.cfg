\* Graphs of up to three nodes; pairs are recorded, edited and replayed.
CONSTANTS
    Fields = {"known", "extra"}
    Json <- JsonValues
    Tools <- ToolSet
    Graphs <- GraphSet
    Capabilities = {"read", "write"}
    MaxNodes = 3
    MaxCalls <- CallBound
    Answers <- AnswerBound
SPECIFICATION Spec
INVARIANTS OrderIsTopological AllAllowedBeforeAny TrailMatchesOutputs InputsMatchSchemas ReplayIsAuthentic
CHECK_DEADLOCK FALSE

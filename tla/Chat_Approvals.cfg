SPECIFICATION ReliableSpec
CONSTANTS
    Texts <- Plain
    Blank = Blank
    Agents = {"a1"}
    NoAgent = NoAgent
    MaxTurns = 1
    MaxWarnings = 1
    MaxPolls = 2
    MaxApprovals = 2
    ApprovalLimit = 2
    Kinds <- TaskThenCall
    Ends = {"completed", "failed"}

CHECK_DEADLOCK FALSE
PROPERTY ApprovalShown

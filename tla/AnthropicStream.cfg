SPECIFICATION RedirectSpec
CONSTANTS
    Chunks <- SomeChunks
    Calls = {0, 1}
    Informational = TRUE
    MaxChunks = 3
    Usages <- SomeUsages
    MaxLines = 3
    AskedFor <- SomeRequests
    MaxMessages = 3
    Nothing = Nothing
CHECK_DEADLOCK FALSE
INVARIANTS WellFormed ConversationKept ReplyShown PingEnds NativeCounted
PROPERTY Finishes

SPECIFICATION RedirectSpec
CONSTANTS
    Chunks <- FewChunks
    Calls = {0, 1}
    Informational = FALSE
    MaxChunks = 2
    Usages <- SomeUsages
    MaxLines = 3
    AskedFor <- SomeRequests
    MaxMessages = 1
    Nothing = Nothing
CHECK_DEADLOCK FALSE
INVARIANT ErrorKeepsStatus

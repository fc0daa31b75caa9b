SPECIFICATION FairSpec
CONSTANTS
    client = client
    server = server
    Closers = {client, server}
    MaxStrays = 2
    MaxDups = 1
INVARIANTS TypeOK NoHalfOpen LastAckIsFinal
PROPERTY ReleaseCompletes
CHECK_DEADLOCK FALSE

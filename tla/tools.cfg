CONSTANTS
    f = f
    g = g
    secret = secret
    off = off
    old = old
    theirs = theirs
    token = token
    new = new
    newer = newer
    Paths = {f, g, secret, off}
    Sensitive = {secret}
    Outside = {off}
    OffProject = {f, off}
    Elsewhere = {g}
    Blacklist <- MCBlacklist
    Batches <- MCBatches
    Wishes <- MCWishes
    MaxParallel = 2
    OldText = old
    TheirText = theirs
    SecretText = token
    MaxOthers = 1
    Calls = {1, 2, 3, 4}
    Children = {1, 2}
    TimeLimit = 1
    Grace = 0
SPECIFICATION FairSpec
INVARIANTS
    
    AnswersMatchCalls
    EditsStick
PROPERTIES
    
    BatchReturns
CHECK_DEADLOCK FALSE

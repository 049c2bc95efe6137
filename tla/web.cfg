CONSTANTS
    s1 = s1
    b1 = b1
    b2 = b2
    Turns <- Two
    Dangerous = {1}
    SessionOf <- OneSession
    Browsers = {b1, b2}
    Asker <- Alternate
    Threads = 2
    MaxTools = 1
    MaxFaults = 1
SPECIFICATION FairSpec
INVARIANTS
    EachItsOwnReply
    StoryBeforeReply
PROPERTIES
    EveryRequestIsAnswered
CHECK_DEADLOCK FALSE

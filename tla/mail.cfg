CONSTANTS
    parent = parent
    child = child
    nobody = nobody
    Owners = {parent, child}
    Outsider = nobody
    MaxPosts = 2
SPECIFICATION FairSpec
PROPERTIES
    ImplementsOffice
    EveryLetterSettles

CONSTANTS
    s = s
    folder = folder
    none = none
    t1 = t1
    t2 = t2
    Ids = {s}
    Workspaces = {folder}
    Unbound = none
    Turns = {t1, t2}
    MaxContexts = 2
    MaxEvents = 2
SPECIFICATION Spec
SYMMETRY Symmetry
CHECK_DEADLOCK FALSE
INVARIANTS
    
    
    WorkspaceKept
    

\* Three operations, each with a content of its own; one is a CLI sync, one a document import that is re-run.
CONSTANTS
    o1 = o1
    o2 = o2
    o3 = o3
    a = a
    b = b
    c = c
    Ops = {o1, o2, o3}
    Contents = {a, b, c}
    Content <- MCFresh
    SyncOps = {o3}
    Resumable = {o2}
    McpOps = {o1}
    Equivalent <- MCEquivalent
    NoContent = NoContent
SPECIFICATION Spec
INVARIANTS NamesStoredContent ChangeIsQueued
PROPERTIES ImplementsFeed
CHECK_DEADLOCK FALSE

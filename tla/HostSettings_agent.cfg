CONSTANTS
    p = p
    q = q
    h1 = h1
    s1 = s1
    s2 = s2
    Target = {p, q}
    Conf = {p}
    Legacy = {q}
    Handler = {h1}
    Sync = {s1, s2}
    MaxEvent = 2

SPECIFICATION Spec
INVARIANTS SettingsKept ListsRendered
PROPERTIES AdoptionKeepsAll AgentInStep AgentFollows
CHECK_DEADLOCK FALSE

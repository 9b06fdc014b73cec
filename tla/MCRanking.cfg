SPECIFICATION Spec
CONSTANTS
    s1 = s1
    s2 = s2
    None = None
    Docs <- MCDocs
    Shards = {s1, s2}
    Hidden <- MCHidden
    Worlds <- MCWorlds
    Requests <- MCRequests
    Window = 4
    ShardLimit = 8
    CacheSize = 1
    Revisited <- MCRevisited
    MaxAsks = 2
    MaxPublished = 1
INVARIANTS HiddenStaysHidden ScopeBeforeWindow NamedFound ApplicableFirst LiteralFirst NoCrowdingOut AnswersCurrent
CHECK_DEADLOCK FALSE

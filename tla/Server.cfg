SPECIFICATION Spec
INVARIANTS
    RewriteIsFaithful
    CacheFollowsConf
    SlowlogBounded
    RequestsParsed
    RepliesAsAdded
    EventsAreLive
    StringsAreRef
    DlistIsSeq

SPECIFICATION Spec
CONSTANTS
    s1 = s1
    s2 = s2
    s3 = s3
    Services <- MCServices
    Domain <- MCDomain
    Content <- MCContent
    Inline <- MCInline
    Casts <- MCCasts
    Placed <- MCPlaced
    Drainable <- MCDrainable
    Copies = 2
    WriteCutoff = 0
    EraseCutoff = 2
    DeadlineInterval = 2
    Lifetime = 3
    MoverLag = 1
    GCLag = 0
    Skew = 0
    SpanSize = 2
    RecordSize = 1
    MaxAttempts = 1
    MaxFiles = 3
    MaxBlocks = 6
    MaxTrouble = 1
    MaxLost = 1
    MaxJobs = 1
INVARIANTS LinkedDataIntact NoLeakedBlock IndexAgrees DomainsApart LinkedWhole
CHECK_DEADLOCK FALSE

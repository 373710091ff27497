\* Every type of nfs.go and every arm of its unions; every message of the TernFS protocols.
CONSTANTS
    Kinds <- MCKinds
    Lengths = {0, 1, 3, 4}
    Leads = {0, 4}
    Follow = {0, 4}
    MaxCut = 40
    Partial <- MCPartial
    Even <- MCEven
    Peopled <- MCPeopled
    Protocols <- MCProtocols
    Shapes = {0, 1, 2, 255, 256}
    Seeds = {3, 40}
    Location <- MCLocation
    Following <- MCFollowing
    MaxCutLength = 60
SPECIFICATION CodecsSpec
INVARIANTS
    ReadsBack
    CutIsRefused
    Faithful
    AnswerFits

CONSTANTS
    local = local
    a1 = a1
    Macs = {local, a1}
    Local = local
    Releases = {1}
    Fittings = {"image"}
    MaxSupplement = 1
    NoOp = NoOp
    FirstFleets <- MCFleets
    MaxTrouble = 1
SPECIFICATION FairSpec
INVARIANTS FilesReadable ConvergedTruly
PROPERTIES OutcomeIsFinal ImplementsIntent ReleaseSettles

CONSTANTS
    m1 = m1  m2 = m2
    Macs = {m1, m2}
    Nobody = Nobody
    MaxRequests = 2
    Bindings = {"here"}
    Ambiguous = "ambiguous"
    MaxRepairTroubles = 1
SPECIFICATION FairRepairSpec
INVARIANTS WriteFenced OutcomeTruthful OneRepairPerMac
PROPERTIES EditsKept FenceKept RepairsProceed
CHECK_DEADLOCK FALSE

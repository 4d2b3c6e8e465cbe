CONSTANTS
    b1 = b1  i1 = i1  i2 = i2  s1 = s1  s2 = s2  m1 = m1  m2 = m2
    NoStudio = NoStudio  NoItem = NoItem  NoBatch = NoBatch
    Batches = {b1}
    Items = {i1}
    Studios = {s1, s2}
    Machines = {m1}
    BatchOf <- OneItem
    MachineOf <- SharedMachine
    Serves <- AnyStudio
    Voice = {b1}
    Leased = {b1}
    MaxTries = 2
    MaxInfra = 1
    MaxRestarts = 1
    Reports = {FALSE, TRUE}
    Ends = {"done", "error", "other"}
    External = {m1}
    Serviced = {s1, s2}
SPECIFICATION Spec
SYMMETRY SwapStudios
INVARIANT MachineExclusive
PROPERTIES OwnedNeverResent AdoptsFinishedJob
CHECK_DEADLOCK FALSE

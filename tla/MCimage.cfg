CONSTANTS
    b1 = b1  i1 = i1  i2 = i2  s1 = s1  s2 = s2  m1 = m1  m2 = m2
    NoStudio = NoStudio  NoItem = NoItem  NoBatch = NoBatch
    Batches = {b1}
    Items = {i1, i2}
    Studios = {s1, s2}
    Machines = {m1, m2}
    BatchOf <- OneBatch
    MachineOf <- OwnMachines
    Serves <- AnyStudio
    Voice = {}
    Leased = {b1}
    MaxTries = 1
    MaxInfra = 2
    MaxRestarts = 0
    Reports = {FALSE}
    Ends = {"done", "error"}
    External = {}
    Serviced = {}
SPECIFICATION Spec
SYMMETRY Interchangeable
VIEW MemoryOnly
INVARIANTS BusyMatchesTasks OneAttemptAtATime RunningHasTask
PROPERTY DoneIsFinal
CHECK_DEADLOCK FALSE

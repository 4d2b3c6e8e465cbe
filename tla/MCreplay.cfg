CONSTANTS
    b1 = b1  i1 = i1  i2 = i2  s1 = s1  s2 = s2  m1 = m1  m2 = m2
    NoStudio = NoStudio  NoItem = NoItem  NoBatch = NoBatch
    Batches = {b1}
    Items = {i1}
    Studios = {s1}
    Machines = {m1}
    BatchOf <- OneItem
    MachineOf <- OneMachine
    Serves <- AnyStudio
    Voice = {b1}
    Leased = {}
    MaxTries = 1
    MaxInfra = 1
    MaxRestarts = 1
    Reports = {FALSE}
    Ends = {"done", "error"}
    External = {}
    Serviced = {}
SPECIFICATION Spec
PROPERTY VoiceNeverReplayed
CHECK_DEADLOCK FALSE

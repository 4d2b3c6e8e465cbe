CONSTANTS
    m1 = m1  m2 = m2  v1 = v1  w1 = w1  w2 = w2
    Nobody = Nobody
    Machines = {m1, m2}
    Lanes <- BothLanes
    Threshold = 1
    Jobs = {"b1"}
    Chapters = {1}
    Voices = {v1}
    HostOf <- VoiceHost
    Assigned = {"b1"}
    MaxTries = 1
    Talks = {"t1"}
    Packs = {1}
    Scenes = {"a", "b"}
    Writers = {w1, w2}
    WriterHost <- TwoWriterHosts
    Fenced = {"t1"}
    MaxPackTries = 2
    Maintained = {v1}
    Rendering = {m1}
    MaxDisturbances = 2
SPECIFICATION Spec
INVARIANTS LeaseBacksTask OneAskPerPack
PROPERTY ScenesKept
CHECK_DEADLOCK FALSE

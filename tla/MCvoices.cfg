CONSTANTS
    v1 = v1  v2 = v2
    Studios = {v1, v2}
    MaxEdits = 1
    MaxTrouble = 1
SPECIFICATION FairSpec
INVARIANT DeletedIsGone
PROPERTIES EditsArrive DeletionEnds

CONSTANTS
    m1 = m1
    Macs = {m1}
    image = image
    voice = voice
    Studios = {image, voice}
    Nobody = Nobody
    MaxToken = 1
    Offered = {1}
    MaxTrouble = 1
SPECIFICATION FairSpec
INVARIANTS AuthorityCurrent QuarantineHolds VerifiedHolds
PROPERTIES ReadyAgain

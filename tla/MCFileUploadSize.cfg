SPECIFICATION Spec
CONSTANTS
    f = f
    g = g
    slashed = slashed
    one = one
    two = two
    wide = wide
    big = big
    SmallChunk = 4
    LargeChunk = 6
    LargeFrom = 5
    MaxFileSize = 12
    AesBlock = 2
    IvLen = 2
    PacketField = 8
    Names = {f}
    ValidNames = {f}
    SelectedFiles <- OneFile
    Contents = {one, two, wide, big}
    SizeOf <- MCSizes
    Crc <- MCCrc
    Missing = Missing
    BadSum = BadSum
    Sums <- MCSums
    alice = alice
    bob = bob
    Me = alice
    Uids = {alice, bob}
    ServerLimit = 6
    ServerReports = "last_chunk"
    CrcTrialsCount = 3
    MaxEdits = 1
    MaxDamages = 1
    MaxFaults = 0
INVARIANTS EncryptedSizeIsTotal

SPECIFICATION Spec
CONSTANTS
    SmallChunk = 4096
    LargeChunk = 65536
    LargeFrom <- MCLargeFrom
    MaxFileSize <- MCMaxFileSize
    AesBlock = 16
    IvLen = 16
    PacketField = 65536
    Radius = 40
INVARIANTS PacketNumbersFit PacketsContiguous CiphertextPadded

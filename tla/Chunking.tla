------------------------------ MODULE Chunking ------------------------------
(***************************************************************************)
(* How one file becomes a numbered run of protocol packets: the AES        *)
(* ciphertext length (AESWrapper::encrypt), the chunk size chosen from the *)
(* plain size (FileAuthentication::get_chunk_size) and the arithmetic of   *)
(* the send loop (FileAuthentication::send_encrypted_file_request).        *)
(* The module holds no state: FileUpload instantiates it for its packets   *)
(* and ChunkingProofs proves what the server's reassembly relies on.       *)
(***************************************************************************)
EXTENDS Integers

CONSTANTS
    SmallChunk,   \* SMALL_CHUNK_SIZE, 4 KiB
    LargeChunk,   \* LARGE_CHUNK_SIZE, 64 KiB
    LargeFrom,    \* ONE_MIB: plain sizes from here on use LargeChunk
    MaxFileSize,  \* MAX_FILE_SIZE, 20 MiB
    AesBlock,     \* AES::BLOCKSIZE, 16
    IvLen,        \* length of the IV in front of the ciphertext, 16
    PacketField   \* number of values of total_packets_t, packet_num_t (2^16)

(***************************************************************************)
(* The sizes are positive, and the packet counter is wide enough for both  *)
(* branches of get_chunk_size: the largest ciphertext of a small and of a  *)
(* large file is at most PacketField - 1 chunks.                           *)
(***************************************************************************)
ASSUME ChunkingAssumption ==
    /\ {SmallChunk, LargeChunk, LargeFrom, AesBlock, PacketField} \subseteq Nat \ {0}
    /\ {MaxFileSize, IvLen} \subseteq Nat
    /\ (IvLen + LargeFrom + AesBlock + SmallChunk - 1) \div SmallChunk < PacketField
    /\ (IvLen + MaxFileSize + AesBlock + LargeChunk - 1) \div LargeChunk < PacketField

\* The plain sizes encrypt_file lets through.
FileSizes == 0 .. MaxFileSize

-----------------------------------------------------------------------------
(* AESWrapper::encrypt *)

\* fault variant: rounds up to a block, and so adds no padding to a full one
EncryptedSize_NoPadBlock(n) == IvLen + AesBlock * ((n + AesBlock - 1) \div AesBlock)

\* A random IV, then CBC with PKCS padding, which always adds 1..AesBlock bytes.
EncryptedSize(n) == IvLen + AesBlock * (n \div AesBlock + 1)

-----------------------------------------------------------------------------
(* FileAuthentication::get_chunk_size *)

\* fault variant: a chunk of one AES block
ChunkSize_OneBlock(n) == AesBlock

ChunkSize(n) == IF n < LargeFrom THEN SmallChunk ELSE LargeChunk

-----------------------------------------------------------------------------
(* the loop of send_encrypted_file_request *)

\* fault variant: rounds down, and so drops the partial last chunk
TotalPackets_Floor(n) == EncryptedSize(n) \div ChunkSize(n)

\* size_t total_packets, before it is narrowed to the protocol field.
TotalPackets(n) == (EncryptedSize(n) + ChunkSize(n) - 1) \div ChunkSize(n)

\* What static_cast<total_packets_t> leaves of it.
TotalPacketsField(n) == TotalPackets(n) % PacketField

StartOffset(n, p) == (p - 1) * ChunkSize(n)

\* fault variant: every chunk is a full one
ChunkLength_Full(n, p) == ChunkSize(n)

\* std::min(chunk_size, encrypted_file.size() - start_offset)
ChunkLength(n, p) ==
    LET rest == EncryptedSize(n) - StartOffset(n, p)
    IN  IF ChunkSize(n) < rest THEN ChunkSize(n) ELSE rest

-----------------------------------------------------------------------------
(* What the receiver relies on *)

\* Packet p starts where packet p - 1 ends, none is empty, and the last one
\* ends at the last byte of the ciphertext.
Contiguous(n) ==
    /\ StartOffset(n, 1) = 0
    /\ \A p \in 1 .. TotalPackets(n) - 1 :
           StartOffset(n, p) + ChunkLength(n, p) = StartOffset(n, p + 1)
    /\ \A p \in 1 .. TotalPackets(n) : ChunkLength(n, p) \in 1 .. ChunkSize(n)
    /\ LET last == TotalPackets(n)
       IN  StartOffset(n, last) + ChunkLength(n, last) = EncryptedSize(n)

\* No packet number and no packet count is changed by its 16-bit field.
NumbersFit(n) ==
    /\ TotalPackets(n) \in 1 .. PacketField - 1
    /\ \A p \in 1 .. TotalPackets(n) : p % PacketField = p

\* A reference for the ciphertext length that does not divide: some number of
\* whole blocks after the IV, room for at least one and at most AesBlock bytes
\* of padding.
PaddedToBlocks(n) ==
    LET body == EncryptedSize(n) - IvLen
    IN  /\ body % AesBlock = 0
        /\ body - n \in 1 .. AesBlock
=============================================================================

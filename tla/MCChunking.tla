----------------------------- MODULE MCChunking -----------------------------
(***************************************************************************)
(* The chunk arithmetic with the real constants. A file grows byte by byte *)
(* across each size at which one of the divisions or comparisons changes:  *)
(* no file, one AES block, one and two chunks, the change of chunk size at *)
(* 1 MiB, and the largest file.                                            *)
(***************************************************************************)
EXTENDS Chunking

CONSTANT Radius \* how far a size may be from an edge

VARIABLE size \* the plain size of the file

KiB == 1024
MiB == 1024 * KiB
MCLargeFrom   == MiB
MCMaxFileSize == 20 * MiB

Edges == {Radius, AesBlock + Radius, SmallChunk, 2 * SmallChunk, LargeFrom,
          LargeFrom + LargeChunk, 2 * LargeFrom, MaxFileSize - Radius}

\* The sizes to begin with are sizes of files that encrypt_file lets through.
ASSUME EdgesAssumption == \A e \in Edges : e - Radius \in FileSizes

Near(n) == \E e \in Edges : n \in e - Radius .. e + Radius

Init == size \in {e - Radius : e \in Edges}

Grow == /\ size < MaxFileSize /\ Near(size + 1)
        /\ size' = size + 1

\* The file stays as it is.
Rest == UNCHANGED size

Spec == Init /\ [][Grow \/ Rest]_size

\* The packets of every such file are numbered without loss.
PacketNumbersFit == NumbersFit(size)

\* They cover its ciphertext without a gap, an overlap or an empty packet.
PacketsContiguous == Contiguous(size)

\* The ciphertext is the IV and whole blocks, with one block of padding at most.
CiphertextPadded == PaddedToBlocks(size)
=============================================================================

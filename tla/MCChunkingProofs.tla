-------------------------- MODULE MCChunkingProofs --------------------------
(***************************************************************************)
(* What the run of MCChunking checks near a few sizes holds for all of     *)
(* them: a file that grows stays within FileSizes, and ChunkingProofs is   *)
(* about every size there.                                                 *)
(***************************************************************************)
EXTENDS MCChunking, ChunkingProofs

LEMMA SizeLegal == Spec => [](size \in FileSizes)
<1>1. Init => size \in FileSizes
  BY EdgesAssumption DEF Init
<1>2. size \in FileSizes /\ [Grow \/ Rest]_size => (size \in FileSizes)'
  BY ConstantTypes DEF FileSizes, Grow, Rest
<1> QED  BY <1>1, <1>2, PTL DEF Spec

\* The 16-bit packet number and packet count of send_encrypted_file_request are
\* never cut, whatever the size encrypt_file let through.
THEOREM NumbersNeverCut == Spec => []PacketNumbersFit
<1>1. size \in FileSizes => PacketNumbersFit
  BY PacketsNumbered DEF PacketNumbersFit
<1> QED  BY <1>1, SizeLegal, PTL

\* The packets cover the ciphertext of such a file, whichever chunk size
\* get_chunk_size chooses.
THEOREM PacketsMeet == Spec => []PacketsContiguous
<1>1. size \in FileSizes => PacketsContiguous
  BY PacketsCoverFile DEF PacketsContiguous
<1> QED  BY <1>1, SizeLegal, PTL

\* Its ciphertext is the IV and whole blocks, as AESWrapper::encrypt returns it.
THEOREM AlwaysPadded == Spec => []CiphertextPadded
<1>1. size \in FileSizes => CiphertextPadded
  <2> SUFFICES ASSUME size \in FileSizes PROVE CiphertextPadded
    OBVIOUS
  <2>1. size \in Nat
    BY ConstantTypes DEF FileSizes
  <2> QED  BY <2>1, CiphertextIsBlocks DEF CiphertextPadded
<1> QED  BY <1>1, SizeLegal, PTL
=============================================================================

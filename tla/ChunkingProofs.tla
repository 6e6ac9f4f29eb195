--------------------------- MODULE ChunkingProofs ---------------------------
(***************************************************************************)
(* What the send loop guarantees for every file size that encrypt_file     *)
(* lets through and for every value of the constants.                      *)
(***************************************************************************)
EXTENDS Chunking, TLAPS

-----------------------------------------------------------------------------
(* Integer division *)

\* Rounding up: q chunks of size c hold a bytes and q - 1 do not.
LEMMA CeilDiv ==
    ASSUME NEW a \in Nat \ {0}, NEW c \in Nat \ {0}
    PROVE  LET q == (a + c - 1) \div c
           IN  q \in Nat \ {0} /\ (q - 1) * c < a /\ a =< q * c
<1> DEFINE b == a + c - 1
           q == b \div c
           r == b % c
<1>1. b \in Nat
  OBVIOUS
<1>2. q \in Int /\ r \in 0 .. c - 1 /\ b = (c * q) + r
  BY <1>1, Z3
<1>3. c * q = q * c /\ (q - 1) * c = (q * c) - c
  BY <1>2, Z3
<1>4. (q - 1) * c < a /\ a =< q * c
  BY <1>2, <1>3
<1>5. q > 0
  <2>1. CASE q =< 0
    <3>1. q * c =< 0
      BY <2>1, <1>2, Z3
    <3> QED  BY <3>1, <1>4
  <2> QED  BY <2>1, <1>2
<1> QED  BY <1>2, <1>4, <1>5

\* A smaller multiplier gives a smaller product.
LEMMA MulMonotone ==
    ASSUME NEW p \in Int, NEW q \in Int, NEW c \in Nat, p =< q
    PROVE  p * c =< q * c
BY Z3

-----------------------------------------------------------------------------
(* The ciphertext *)

LEMMA ConstantTypes ==
    /\ SmallChunk \in Nat \ {0} /\ LargeChunk \in Nat \ {0}
    /\ LargeFrom \in Nat \ {0} /\ AesBlock \in Nat \ {0}
    /\ PacketField \in Nat \ {0}
    /\ MaxFileSize \in Nat /\ IvLen \in Nat
BY ChunkingAssumption

\* What the assumption says of the field of the packet counter, as a product.
LEMMA FieldHolds ==
    /\ IvLen + LargeFrom + AesBlock =< SmallChunk * (PacketField - 1)
    /\ IvLen + MaxFileSize + AesBlock =< LargeChunk * (PacketField - 1)
<1>1. ASSUME NEW a \in Nat \ {0}, NEW c \in Nat \ {0},
             (a + c - 1) \div c < PacketField
      PROVE  a =< c * (PacketField - 1)
  <2> DEFINE q == (a + c - 1) \div c
  <2>1. q \in Nat \ {0} /\ a =< q * c
    BY CeilDiv
  <2>2. q =< PacketField - 1
    BY <1>1, <2>1, ConstantTypes
  <2> HIDE DEF q
  <2>3. q * c =< (PacketField - 1) * c
    BY <2>1, <2>2, ConstantTypes, MulMonotone
  <2>4. (PacketField - 1) * c = c * (PacketField - 1)
    BY ConstantTypes, Z3
  <2>5. q * c \in Int /\ c * (PacketField - 1) \in Int
    BY <2>1, ConstantTypes
  <2> QED  BY <2>1, <2>3, <2>4, <2>5, ConstantTypes
<1>2. IvLen + LargeFrom + AesBlock \in Nat \ {0} /\ IvLen + MaxFileSize + AesBlock \in Nat \ {0}
  BY ConstantTypes
<1> QED  BY <1>1, <1>2, ConstantTypes, ChunkingAssumption

\* AESWrapper::encrypt adds the IV and then between 1 and AesBlock bytes of
\* padding, up to a whole number of blocks, whatever the length of the file.
THEOREM CiphertextIsBlocks == \A n \in Nat : PaddedToBlocks(n)
<1> SUFFICES ASSUME NEW n \in Nat PROVE PaddedToBlocks(n)
  OBVIOUS
<1> DEFINE q == n \div AesBlock
           r == n % AesBlock
           body == EncryptedSize(n) - IvLen
<1>0. AesBlock \in Nat \ {0} /\ IvLen \in Nat
  BY ConstantTypes
<1>1. q \in Int /\ r \in 0 .. AesBlock - 1 /\ n = (AesBlock * q) + r
  BY <1>0, Z3
<1>2. AesBlock * (q + 1) \in Int /\ AesBlock * (q + 1) = (AesBlock * q) + AesBlock
  BY <1>0, <1>1, Z3
<1>3. body = AesBlock * (q + 1)
  BY <1>0, <1>1, <1>2 DEF EncryptedSize
<1>4. body - n \in 1 .. AesBlock
  BY <1>0, <1>1, <1>2, <1>3
<1>5. (AesBlock * (q + 1)) % AesBlock = 0
  BY <1>0, <1>1, Z3
<1> QED  BY <1>3, <1>4, <1>5 DEF PaddedToBlocks

-----------------------------------------------------------------------------
(* The packets *)

LEMMA SizesTyped ==
    ASSUME NEW n \in FileSizes
    PROVE  /\ n \in Nat
           /\ ChunkSize(n) \in Nat \ {0}
           /\ EncryptedSize(n) \in Nat \ {0}
           /\ n < EncryptedSize(n) /\ EncryptedSize(n) =< IvLen + n + AesBlock
<1>1. n \in Nat
  BY ConstantTypes DEF FileSizes
<1>2. EncryptedSize(n) - IvLen - n \in 1 .. AesBlock
  BY <1>1, CiphertextIsBlocks DEF PaddedToBlocks
<1>3. EncryptedSize(n) \in Int
  <2>1. n \div AesBlock \in Int
    BY <1>1, ConstantTypes
  <2>2. AesBlock * (n \div AesBlock + 1) \in Int
    BY <2>1, ConstantTypes
  <2> QED  BY <2>2, ConstantTypes DEF EncryptedSize
<1> QED  BY <1>1, <1>2, <1>3, ConstantTypes DEF ChunkSize

\* total_packets rounds up: the ciphertext fills every packet but the last,
\* and reaches into the last.
LEMMA TotalPacketsCeil ==
    ASSUME NEW n \in FileSizes
    PROVE  /\ TotalPackets(n) \in Nat \ {0}
           /\ (TotalPackets(n) - 1) * ChunkSize(n) < EncryptedSize(n)
           /\ EncryptedSize(n) =< TotalPackets(n) * ChunkSize(n)
BY SizesTyped, CeilDiv DEF TotalPackets

\* The packets of an upload cut the ciphertext into consecutive, non-empty
\* pieces with no gap and no overlap.
THEOREM PacketsCoverFile == \A n \in FileSizes : Contiguous(n)
<1> SUFFICES ASSUME NEW n \in FileSizes PROVE Contiguous(n)
  OBVIOUS
<1> DEFINE c == ChunkSize(n)
           e == EncryptedSize(n)
           t == TotalPackets(n)
<1>1. c \in Nat \ {0} /\ e \in Nat \ {0} /\ t \in Nat \ {0}
  BY SizesTyped, TotalPacketsCeil
<1>2. (t - 1) * c < e /\ e =< t * c
  BY TotalPacketsCeil
<1> HIDE DEF c, e, t
<1>3. t * c = ((t - 1) * c) + c
  BY <1>1, Z3
<1>4. ASSUME NEW p \in 1 .. t - 1
      PROVE  ChunkLength(n, p) = c /\ (p * c = ((p - 1) * c) + c)
  <2>1. p \in Int /\ p =< t - 1 /\ t - 1 \in Int
    BY <1>1
  <2>2. p * c =< (t - 1) * c
    BY <2>1, <1>1, MulMonotone
  <2>3. p * c = ((p - 1) * c) + c
    BY <2>1, <1>1, Z3
  <2>4. (p - 1) * c \in Int /\ (t - 1) * c \in Int /\ p * c \in Int
    BY <2>1, <1>1
  <2>5. c < e - ((p - 1) * c)
    BY <2>2, <2>3, <2>4, <1>1, <1>2
  <2> QED  BY <2>3, <2>5 DEF ChunkLength, StartOffset, c, e
<1>5. ChunkLength(n, t) = e - ((t - 1) * c) /\ e - ((t - 1) * c) \in 1 .. c
  <2>1. (t - 1) * c \in Int /\ t * c \in Int
    BY <1>1
  <2>2. e - ((t - 1) * c) \in 1 .. c
    BY <1>1, <1>2, <1>3, <2>1
  <2>3. ChunkLength(n, t) = IF c < e - ((t - 1) * c) THEN c ELSE e - ((t - 1) * c)
    BY DEF ChunkLength, StartOffset, c, e
  <2> QED  BY <1>1, <2>2, <2>3
<1>6. StartOffset(n, 1) = 0
  BY <1>1 DEF StartOffset, c
<1>7. ASSUME NEW p \in 1 .. t - 1
      PROVE  StartOffset(n, p) + ChunkLength(n, p) = StartOffset(n, p + 1)
  <2>1. p \in Int /\ p + 1 - 1 = p
    BY <1>1
  <2> QED  BY <1>4, <2>1 DEF StartOffset, c
<1>8. ASSUME NEW p \in 1 .. t PROVE ChunkLength(n, p) \in 1 .. c
  <2>1. CASE p = t
    BY <2>1, <1>5
  <2>2. CASE p # t
    BY <2>2, <1>1, <1>4
  <2> QED  BY <2>1, <2>2
<1>9. StartOffset(n, t) + ChunkLength(n, t) = e
  <2>1. (t - 1) * c \in Int
    BY <1>1
  <2> QED  BY <2>1, <1>1, <1>5 DEF StartOffset, c
<1> QED  BY <1>6, <1>7, <1>8, <1>9 DEF Contiguous, c, e, t

\* The casts to packet_num_t and total_packets_t in the send loop change no
\* number: the 16-bit fields hold every packet count a legal file can need.
THEOREM PacketsNumbered == \A n \in FileSizes : NumbersFit(n)
<1> SUFFICES ASSUME NEW n \in FileSizes PROVE NumbersFit(n)
  OBVIOUS
<1> DEFINE c == ChunkSize(n)
           e == EncryptedSize(n)
           t == TotalPackets(n)
           w == PacketField - 1
<1>1. c \in Nat \ {0} /\ e \in Nat \ {0} /\ t \in Nat \ {0} /\ w \in Nat
  BY SizesTyped, TotalPacketsCeil, ConstantTypes
<1>2. (t - 1) * c < e
  BY TotalPacketsCeil
<1>3. e =< c * w
  <2>1. n \in Nat /\ n =< MaxFileSize /\ e =< IvLen + n + AesBlock
    BY SizesTyped DEF FileSizes
  <2>2. CASE n < LargeFrom
    <3>1. c = SmallChunk /\ IvLen + n + AesBlock =< c * w
      BY <2>1, <2>2, ConstantTypes, FieldHolds DEF ChunkSize
    <3> QED  BY <2>1, <3>1, <1>1, ConstantTypes
  <2>3. CASE ~(n < LargeFrom)
    <3>1. c = LargeChunk /\ IvLen + n + AesBlock =< c * w
      BY <2>1, <2>3, ConstantTypes, FieldHolds DEF ChunkSize
    <3> QED  BY <2>1, <3>1, <1>1, ConstantTypes
  <2> QED  BY <2>2, <2>3
<1> HIDE DEF c, e, t, w
<1>4. t =< w
  <2>1. SUFFICES ASSUME w =< t - 1 PROVE FALSE
    BY <1>1
  <2>2. w * c =< (t - 1) * c
    BY <2>1, <1>1, MulMonotone
  <2>3. w * c = c * w
    BY <1>1, Z3
  <2>4. w * c \in Int /\ (t - 1) * c \in Int
    BY <1>1
  <2> QED  BY <1>1, <1>2, <1>3, <2>2, <2>3, <2>4
<1>5. t \in 1 .. PacketField - 1
  BY <1>1, <1>4, ConstantTypes DEF w
<1>6. ASSUME NEW p \in 1 .. t PROVE p % PacketField = p
  <2>1. p \in Nat /\ p < PacketField
    BY <1>1, <1>5, ConstantTypes
  <2> QED  BY <2>1, ConstantTypes, Z3
<1> QED  BY <1>5, <1>6 DEF NumbersFit, t
=============================================================================

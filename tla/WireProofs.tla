----------------------------- MODULE WireProofs -----------------------------
(***************************************************************************)
(* What Wire's layouts mean: what is written is read back as what it was,  *)
(* sizes that are declared are those that are sent, and the checks of      *)
(* deserialize are enough.                                                 *)
(***************************************************************************)
EXTENDS Wire, SequenceTheorems, TLAPS

-----------------------------------------------------------------------------
(* Slices of concatenations *)

\* A slice of a sequence of bytes that reaches nowhere beyond it is a sequence of
\* the length asked for.
LEMMA SliceIsBytes ==
    ASSUME NEW s \in Seq(Byte), NEW at \in Nat, NEW n \in Nat, at + n =< Len(s)
    PROVE  /\ Slice(s, at, n) \in Seq(Byte)
           /\ Len(Slice(s, at, n)) = n
           /\ \A i \in 1 .. n : Slice(s, at, n)[i] = s[at + i]
<1>1. \A i \in at + 1 .. at + n : s[i] \in Byte
  BY ElementOfSeq, LenProperties
<1> QED
  BY <1>1, SubSeqProperties DEF Slice

LEMMA SliceOfFirst ==
    ASSUME NEW s \in Seq(Byte), NEW t \in Seq(Byte),
           NEW at \in Nat, NEW n \in Nat, at + n =< Len(s)
    PROVE  Slice(s \o t, at, n) = Slice(s, at, n)
<1>1. /\ s \o t \in Seq(Byte) /\ Len(s \o t) = Len(s) + Len(t)
      /\ \A i \in 1 .. Len(s) : (s \o t)[i] = s[i]
      /\ Len(s) \in Nat /\ Len(t) \in Nat
  BY ConcatProperties, LenProperties
<1>2. /\ Slice(s \o t, at, n) \in Seq(Byte)
      /\ Len(Slice(s \o t, at, n)) = n
      /\ \A i \in 1 .. n : Slice(s \o t, at, n)[i] = (s \o t)[at + i]
  <2>1. at + n =< Len(s \o t)
    BY <1>1
  <2> QED
    BY <1>1, <2>1, SliceIsBytes
<1>3. /\ Slice(s, at, n) \in Seq(Byte)
      /\ Len(Slice(s, at, n)) = n
      /\ \A i \in 1 .. n : Slice(s, at, n)[i] = s[at + i]
  BY SliceIsBytes
<1>4. \A i \in 1 .. n : Slice(s \o t, at, n)[i] = Slice(s, at, n)[i]
  <2> TAKE i \in 1 .. n
  <2>1. at + i \in 1 .. Len(s)
    BY <1>1
  <2> QED
    BY <1>1, <1>2, <1>3, <2>1
<1> QED
  BY <1>2, <1>3, <1>4, SeqEqual

LEMMA SliceOfSecond ==
    ASSUME NEW s \in Seq(Byte), NEW t \in Seq(Byte),
           NEW at \in Nat, NEW n \in Nat, at + n =< Len(t)
    PROVE  Slice(s \o t, Len(s) + at, n) = Slice(t, at, n)
<1>1. /\ s \o t \in Seq(Byte) /\ Len(s \o t) = Len(s) + Len(t)
      /\ \A i \in 1 .. Len(t) : (s \o t)[Len(s) + i] = t[i]
      /\ Len(s) \in Nat /\ Len(t) \in Nat
  BY ConcatProperties, LenProperties
<1>2. /\ Slice(s \o t, Len(s) + at, n) \in Seq(Byte)
      /\ Len(Slice(s \o t, Len(s) + at, n)) = n
      /\ \A i \in 1 .. n : Slice(s \o t, Len(s) + at, n)[i] = (s \o t)[Len(s) + at + i]
  <2>1. Len(s) + at \in Nat /\ Len(s) + at + n =< Len(s \o t)
    BY <1>1
  <2> QED
    BY <1>1, <2>1, SliceIsBytes
<1>3. /\ Slice(t, at, n) \in Seq(Byte)
      /\ Len(Slice(t, at, n)) = n
      /\ \A i \in 1 .. n : Slice(t, at, n)[i] = t[at + i]
  BY SliceIsBytes
<1>4. \A i \in 1 .. n : Slice(s \o t, Len(s) + at, n)[i] = Slice(t, at, n)[i]
  <2> TAKE i \in 1 .. n
  <2>1. at + i \in 1 .. Len(t) /\ Len(s) + at + i = Len(s) + (at + i)
    BY <1>1
  <2> QED
    BY <1>1, <1>2, <1>3, <2>1
<1> QED
  BY <1>2, <1>3, <1>4, SeqEqual

LEMMA SliceOfSlice ==
    ASSUME NEW s \in Seq(Byte), NEW at \in Nat, NEW n \in Nat, at + n =< Len(s),
           NEW o \in Nat, NEW m \in Nat, o + m =< n
    PROVE  Slice(s, at + o, m) = Slice(Slice(s, at, n), o, m)
<1>1. /\ Slice(s, at, n) \in Seq(Byte)
      /\ Len(Slice(s, at, n)) = n
      /\ \A i \in 1 .. n : Slice(s, at, n)[i] = s[at + i]
  BY SliceIsBytes
<1>2. /\ Slice(s, at + o, m) \in Seq(Byte)
      /\ Len(Slice(s, at + o, m)) = m
      /\ \A i \in 1 .. m : Slice(s, at + o, m)[i] = s[at + o + i]
  <2>1. at + o \in Nat /\ at + o + m =< Len(s)
    BY LenProperties
  <2> QED
    BY <2>1, SliceIsBytes
<1>3. /\ Slice(Slice(s, at, n), o, m) \in Seq(Byte)
      /\ Len(Slice(Slice(s, at, n), o, m)) = m
      /\ \A i \in 1 .. m : Slice(Slice(s, at, n), o, m)[i] = Slice(s, at, n)[o + i]
  BY <1>1, SliceIsBytes
<1>4. \A i \in 1 .. m : Slice(s, at + o, m)[i] = Slice(Slice(s, at, n), o, m)[i]
  <2> TAKE i \in 1 .. m
  <2>1. o + i \in 1 .. n /\ at + o + i = at + (o + i)
    OBVIOUS
  <2> QED
    BY <1>1, <1>2, <1>3, <2>1
<1> QED
  BY <1>2, <1>3, <1>4, SeqEqual

\* The two parts of a concatenation.
LEMMA SliceWhole ==
    ASSUME NEW s \in Seq(Byte)
    PROVE  Slice(s, 0, Len(s)) = s
BY SubSeqFull, LenProperties DEF Slice

LEMMA Joined ==
    ASSUME NEW s \in Seq(Byte), NEW t \in Seq(Byte)
    PROVE  /\ s \o t \in Seq(Byte) /\ Len(s \o t) = Len(s) + Len(t)
           /\ Len(s) \in Nat /\ Len(t) \in Nat
BY ConcatProperties, LenProperties

LEMMA Halves ==
    ASSUME NEW s \in Seq(Byte), NEW t \in Seq(Byte)
    PROVE  /\ Slice(s \o t, 0, Len(s)) = s
           /\ Slice(s \o t, Len(s), Len(t)) = t
<1>1. Len(s) \in Nat /\ Len(t) \in Nat
  BY LenProperties
<1>2. Slice(s \o t, 0, Len(s)) = Slice(s, 0, Len(s))
  BY <1>1, SliceOfFirst
<1>3. Slice(s \o t, Len(s) + 0, Len(t)) = Slice(t, 0, Len(t))
  BY <1>1, SliceOfSecond
<1> QED
  BY <1>1, <1>2, <1>3, SliceWhole

-----------------------------------------------------------------------------
(* Numbers *)

\* The bytes of a number, and what they are read as, in either order.
LEMMA Numbers16 ==
    ASSUME NEW v \in U16
    PROVE  /\ Big16(v) \in Seq(Byte) /\ Len(Big16(v)) = 2
           /\ Little16(v) \in Seq(Byte) /\ Len(Little16(v)) = 2
           /\ Load16(Ntohs(Big16(v))) = v
           /\ FromLittle16(Little16(v)) = v
<1>1. v \in Nat /\ v \div 256 \in 0 .. 255 /\ v % 256 \in 0 .. 255
      /\ v = 256 * (v \div 256) + (v % 256)
  BY SMT DEF U16, Byte
<1> QED
  BY <1>1, SMT DEF Big16, Little16, Load16, FromLittle16, Ntohs, Byte

LEMMA Digits32 ==
    ASSUME NEW v \in U32
    PROVE  /\ v \in Nat
           /\ v \div 16777216 \in 0 .. 255 /\ (v \div 65536) % 256 \in 0 .. 255
           /\ (v \div 256) % 256 \in 0 .. 255 /\ v % 256 \in 0 .. 255
           /\ v = 16777216 * (v \div 16777216) + 65536 * ((v \div 65536) % 256)
                    + 256 * ((v \div 256) % 256) + (v % 256)
<1>1. v \in Nat /\ v \div 16777216 \in 0 .. 255
  BY SMT DEF U32, Byte
<1>2. v = 256 * (v \div 256) + (v % 256)
  BY <1>1, SMT
<1>3. v \div 256 = 256 * (v \div 65536) + ((v \div 256) % 256)
  BY <1>1, SMT
<1>4. v \div 65536 = 256 * (v \div 16777216) + ((v \div 65536) % 256)
  BY <1>1, SMT
<1> QED
  BY <1>1, <1>2, <1>3, <1>4, SMT

LEMMA Numbers32 ==
    ASSUME NEW v \in U32
    PROVE  /\ Big32(v) \in Seq(Byte) /\ Len(Big32(v)) = 4
           /\ Little32(v) \in Seq(Byte) /\ Len(Little32(v)) = 4
           /\ Load32(Ntohl(Big32(v))) = v
           /\ FromLittle32(Little32(v)) = v
BY Digits32, SMT DEF Big32, Little32, Load32, FromLittle32, Ntohl, Byte

\* What the client writes on its host.
LEMMA HostNumbers ==
    /\ \A v \in U16 : Host16(v) \in Seq(Byte) /\ Len(Host16(v)) = 2
    /\ \A v \in U32 : Host32(v) \in Seq(Byte) /\ Len(Host32(v)) = 4
BY Numbers16, Numbers32 DEF Host16, Host32

-----------------------------------------------------------------------------
(* Five fields, one after the other *)

Five(s, a, b, c, d, e) ==
    /\ s \in Seq(Byte)
    /\ Len(s) = Len(a) + Len(b) + Len(c) + Len(d) + Len(e)
    /\ Slice(s, 0, Len(a)) = a
    /\ Slice(s, Len(a), Len(b)) = b
    /\ Slice(s, Len(a) + Len(b), Len(c)) = c
    /\ Slice(s, Len(a) + Len(b) + Len(c), Len(d)) = d
    /\ Slice(s, Len(a) + Len(b) + Len(c) + Len(d), Len(e)) = e

LEMMA FiveFields ==
    ASSUME NEW a \in Seq(Byte), NEW b \in Seq(Byte), NEW c \in Seq(Byte),
           NEW d \in Seq(Byte), NEW e \in Seq(Byte),
           NEW s, s = a \o b \o c \o d \o e
    PROVE  Five(s, a, b, c, d, e)
<1> DEFINE ab == a \o b
           abc == ab \o c
           abcd == abc \o d
<1>0. s = abcd \o e
  OBVIOUS
<1>1. /\ ab \in Seq(Byte) /\ abc \in Seq(Byte) /\ abcd \in Seq(Byte) /\ s \in Seq(Byte)
      /\ Len(ab) = Len(a) + Len(b) /\ Len(abc) = Len(ab) + Len(c)
      /\ Len(abcd) = Len(abc) + Len(d) /\ Len(s) = Len(abcd) + Len(e)
      /\ Len(a) \in Nat /\ Len(b) \in Nat /\ Len(c) \in Nat /\ Len(d) \in Nat /\ Len(e) \in Nat
  BY <1>0, ConcatProperties, LenProperties
<1>2. /\ Slice(ab, 0, Len(a)) = a /\ Slice(ab, Len(a), Len(b)) = b
      /\ Slice(abc, Len(ab), Len(c)) = c
      /\ Slice(abcd, Len(abc), Len(d)) = d
      /\ Slice(s, Len(abcd), Len(e)) = e
  <2>1. Slice(ab, 0, Len(a)) = a /\ Slice(ab, Len(a), Len(b)) = b
    BY Halves
  <2>2. ab \in Seq(Byte) /\ abc \in Seq(Byte) /\ abcd \in Seq(Byte)
    BY <1>1
  <2> HIDE DEF ab
  <2>3. Slice(abc, Len(ab), Len(c)) = c
    BY <2>2, Halves
  <2> HIDE DEF abc
  <2>4. Slice(abcd, Len(abc), Len(d)) = d
    BY <2>2, Halves
  <2> HIDE DEF abcd
  <2>5. Slice(s, Len(abcd), Len(e)) = e
    BY <1>0, <2>2, Halves
  <2> QED
    BY <2>1, <2>3, <2>4, <2>5
<1> HIDE DEF ab
<1>3. \A at, n \in Nat : at + n =< Len(ab) => Slice(abc, at, n) = Slice(ab, at, n)
  BY <1>1, SliceOfFirst
<1> HIDE DEF abc
<1>4. \A at, n \in Nat : at + n =< Len(abc) => Slice(abcd, at, n) = Slice(abc, at, n)
  BY <1>1, SliceOfFirst
<1> HIDE DEF abcd
<1>5. \A at, n \in Nat : at + n =< Len(abcd) => Slice(s, at, n) = Slice(abcd, at, n)
  <2>1. \A at, n \in Nat : at + n =< Len(abcd) => Slice(abcd \o e, at, n) = Slice(abcd, at, n)
    BY <1>1, SliceOfFirst
  <2> QED  BY <1>0, <2>1
<1>6. /\ s \in Seq(Byte)
      /\ Len(s) = Len(a) + Len(b) + Len(c) + Len(d) + Len(e)
      /\ Slice(s, 0, Len(a)) = a
      /\ Slice(s, Len(a), Len(b)) = b
      /\ Slice(s, Len(a) + Len(b), Len(c)) = c
      /\ Slice(s, Len(a) + Len(b) + Len(c), Len(d)) = d
      /\ Slice(s, Len(a) + Len(b) + Len(c) + Len(d), Len(e)) = e
  <2>1. s \in Seq(Byte) /\ Len(s) = Len(a) + Len(b) + Len(c) + Len(d) + Len(e)
    BY <1>1, SMT
  <2>2. Slice(s, 0, Len(a)) = a
    <3>1. Slice(abcd, 0, Len(a)) = Slice(abc, 0, Len(a))
      BY <1>1, <1>4, SMT
    <3>2. Slice(abc, 0, Len(a)) = Slice(ab, 0, Len(a))
      BY <1>1, <1>3, SMT
    <3>3. Slice(s, 0, Len(a)) = Slice(abcd, 0, Len(a))
      BY <1>1, <1>5, SMT
    <3> QED
      BY <1>2, <3>1, <3>2, <3>3
  <2>3. Slice(s, Len(a), Len(b)) = b
    <3>1. Slice(abcd, Len(a), Len(b)) = Slice(abc, Len(a), Len(b))
      BY <1>1, <1>4, SMT
    <3>2. Slice(abc, Len(a), Len(b)) = Slice(ab, Len(a), Len(b))
      BY <1>1, <1>3, SMT
    <3>3. Slice(s, Len(a), Len(b)) = Slice(abcd, Len(a), Len(b))
      BY <1>1, <1>5, SMT
    <3> QED
      BY <1>2, <3>1, <3>2, <3>3
  <2>4. Slice(s, Len(ab), Len(c)) = c
    <3>1. Slice(abcd, Len(ab), Len(c)) = Slice(abc, Len(ab), Len(c))
      BY <1>1, <1>4, SMT
    <3>2. Slice(s, Len(ab), Len(c)) = Slice(abcd, Len(ab), Len(c))
      BY <1>1, <1>5, SMT
    <3> QED
      BY <1>2, <3>1, <3>2
  <2>5. Slice(s, Len(abc), Len(d)) = d
    <3>1. Slice(s, Len(abc), Len(d)) = Slice(abcd, Len(abc), Len(d))
      BY <1>1, <1>5, SMT
    <3> QED
      BY <1>2, <3>1
  <2> QED
    BY <1>1, <1>2, <2>1, <2>2, <2>3, <2>4, <2>5
<1> QED
  BY <1>6 DEF Five

Four(s, a, b, c, d) ==
    /\ s \in Seq(Byte)
    /\ Len(s) = Len(a) + Len(b) + Len(c) + Len(d)
    /\ Slice(s, 0, Len(a)) = a
    /\ Slice(s, Len(a), Len(b)) = b
    /\ Slice(s, Len(a) + Len(b), Len(c)) = c
    /\ \A at, n \in Nat : at + n =< Len(d) =>
          Slice(s, Len(a) + Len(b) + Len(c) + at, n) = Slice(d, at, n)

LEMMA FourFields ==
    ASSUME NEW a \in Seq(Byte), NEW b \in Seq(Byte), NEW c \in Seq(Byte), NEW d \in Seq(Byte),
           NEW s, s = a \o b \o c \o d
    PROVE  Four(s, a, b, c, d)
<1> DEFINE e == <<>>
<1>1. e \in Seq(Byte) /\ Len(e) = 0
  BY EmptySeq
<1>2. /\ s \in Seq(Byte)
      /\ \A at, n \in Nat : at + n =< Len(d) =>
            Slice(s, Len(a) + Len(b) + Len(c) + at, n) = Slice(d, at, n)
  <2>1. /\ a \o b \in Seq(Byte) /\ Len(a \o b) = Len(a) + Len(b)
        /\ Len(a) \in Nat /\ Len(b) \in Nat /\ Len(c) \in Nat
    BY Joined
  <2>2. a \o b \o c \in Seq(Byte) /\ Len(a \o b \o c) = Len(a) + Len(b) + Len(c)
    BY <2>1, Joined
  <2>3. s \in Seq(Byte)
    BY <2>2, Joined
  <2>4. \A at, n \in Nat : at + n =< Len(d) =>
            Slice(s, Len(a \o b \o c) + at, n) = Slice(d, at, n)
    <3>1. PICK abc \in Seq(Byte) : abc = a \o b \o c
      BY <2>2
    <3>2. \A at, n \in Nat : at + n =< Len(d) =>
              Slice(abc \o d, Len(abc) + at, n) = Slice(d, at, n)
      BY SliceOfSecond
    <3> QED  BY <3>1, <3>2
  <2> QED
    BY <2>2, <2>3, <2>4
<1>3. s = s \o e
  BY <1>2, ConcatEmptySeq
<1>4. s = a \o b \o c \o d \o e
  BY <1>3
<1>5. Len(a) \in Nat /\ Len(b) \in Nat /\ Len(c) \in Nat /\ Len(d) \in Nat
  BY LenProperties
<1> HIDE DEF e
<1>6. Five(s, a, b, c, d, e)
  BY <1>1, <1>4, FiveFields
<1> QED
  BY <1>1, <1>2, <1>5, <1>6 DEF Five, Four

\* Fields of a fixed width are sequences of that length.
LEMMA BytesAreSequences ==
    ASSUME NEW n \in Nat, NEW f \in Bytes(n)
    PROVE  f \in Seq(Byte) /\ Len(f) = n
BY DEF Bytes

LEMMA Constants ==
    /\ UniqueIdLen \in Nat /\ UniqueIdLen > 1
    /\ UsernameLen \in Nat \ {0} /\ RsaKeyLen \in Nat \ {0} /\ FileNameLen \in Nat \ {0}
BY WireAssumption

-----------------------------------------------------------------------------
(* Responses *)

LEMMA ResponseFields ==
    ASSUME NEW r \in Responses
    PROVE  /\ r.version \in Byte /\ r.code \in U16 /\ r.size \in U32 /\ r.checksum \in U32
           /\ r.uid \in Seq(Byte) /\ Len(r.uid) = UniqueIdLen
           /\ r.fileName \in Seq(Byte) /\ Len(r.fileName) = FileNameLen
           /\ r.aesKey \in Seq(Byte) /\ Len(r.aesKey) \in Nat
<1>1. r.uid \in Bytes(UniqueIdLen) /\ r.fileName \in Bytes(FileNameLen)
  BY DEF Responses
<1>2. /\ r.uid \in Seq(Byte) /\ Len(r.uid) = UniqueIdLen
      /\ r.fileName \in Seq(Byte) /\ Len(r.fileName) = FileNameLen
  BY <1>1, Constants, BytesAreSequences
<1>3. /\ r.version \in Byte /\ r.code \in U16 /\ r.size \in U32 /\ r.checksum \in U32
      /\ r.aesKey \in Seq(Byte)
  BY DEF Responses
<1> QED
  BY <1>2, <1>3, LenProperties

\* The fields of a response's payload.
LEMMA PayloadFields ==
    ASSUME NEW r \in Responses, NEW pay, pay = ResponsePayload(r)
    PROVE  /\ pay \in Seq(Byte)
           /\ Len(pay) = UniqueIdLen + Len(r.aesKey) + 4 + FileNameLen + 4
           /\ Slice(pay, 0, UniqueIdLen) = r.uid
           /\ Slice(pay, UniqueIdLen, Len(r.aesKey)) = r.aesKey
           /\ Slice(pay, UniqueIdLen + Len(r.aesKey), 4) = Big32(r.size)
           /\ Slice(pay, UniqueIdLen + Len(r.aesKey) + 4, FileNameLen) = r.fileName
           /\ Slice(pay, UniqueIdLen + Len(r.aesKey) + 4 + FileNameLen, 4) = Big32(r.checksum)
<1> DEFINE uid == r.uid
           key == r.aesKey
           size == Big32(r.size)
           name == r.fileName
           sum == Big32(r.checksum)
<1>1. /\ uid \in Seq(Byte) /\ key \in Seq(Byte) /\ name \in Seq(Byte)
      /\ Len(uid) = UniqueIdLen /\ Len(name) = FileNameLen
      /\ r.size \in U32 /\ r.checksum \in U32
  BY ResponseFields
<1>2. size \in Seq(Byte) /\ Len(size) = 4 /\ sum \in Seq(Byte) /\ Len(sum) = 4
  BY <1>1, Numbers32
<1>3. pay = uid \o key \o size \o name \o sum
  BY DEF ResponsePayload
<1> HIDE DEF uid, key, size, name, sum
<1>4. Five(pay, uid, key, size, name, sum)
  BY <1>1, <1>2, <1>3, FiveFields
<1> QED
  BY <1>1, <1>2, <1>4 DEF Five, uid, key, size, name, sum

\* Where the fields of a response that claims a payload of `size' bytes are.
LEMMA FieldsOfResponse ==
    ASSUME NEW r \in Responses, NEW size \in U32,
           NEW data, data = Claiming(r, size),
           NEW pay, pay = ResponsePayload(r)
    PROVE  /\ data \in Seq(Byte)
           /\ Len(data) = 7 + Len(pay)
           /\ data[1] = r.version
           /\ Slice(data, 1, 2) = Big16(r.code)
           /\ Slice(data, 3, 4) = Big32(size)
           /\ \A at, n \in Nat : at + n =< Len(pay) =>
                 Slice(data, 7 + at, n) = Slice(pay, at, n)
<1> DEFINE version == <<r.version>>
           code == Big16(r.code)
           claimed == Big32(size)
<1>1. version \in Seq(Byte) /\ Len(version) = 1 /\ version[1] = r.version
  BY ResponseFields
<1>2. /\ code \in Seq(Byte) /\ Len(code) = 2 /\ claimed \in Seq(Byte) /\ Len(claimed) = 4
      /\ pay \in Seq(Byte)
  BY ResponseFields, PayloadFields, Numbers16, Numbers32
<1>3. data = version \o code \o claimed \o pay
  BY DEF Claiming
<1> HIDE DEF version, code, claimed
<1>4. Four(data, version, code, claimed, pay)
  BY <1>1, <1>2, <1>3, FourFields
<1>5. /\ data \in Seq(Byte) /\ Len(data) = 7 + Len(pay)
      /\ Slice(data, 0, 1) = version
      /\ Slice(data, 1, 2) = code
      /\ Slice(data, 3, 4) = claimed
      /\ Len(pay) \in Nat
  BY <1>1, <1>2, <1>4, LenProperties DEF Four
<1>6. data[1] = r.version
  <2>1. 0 + 1 =< Len(data)
    BY <1>5
  <2>2. Slice(data, 0, 1)[1] = data[0 + 1]
    BY <1>5, <2>1, SliceIsBytes
  <2> QED
    BY <1>1, <1>5, <2>2
<1>7. \A at, n \in Nat : at + n =< Len(pay) => Slice(data, 7 + at, n) = Slice(pay, at, n)
  BY <1>1, <1>2, <1>4 DEF Four
<1> QED
  BY <1>5, <1>6, <1>7 DEF code, claimed

\* Response::deserialize takes a response apart into the very fields the server
\* put together: whatever the length of the encrypted key in its middle, and on a
\* host of either byte order.
THEOREM ResponseRoundTrip ==
    ASSUME NEW r \in Responses, Len(ResponsePayload(r)) \in U32
    PROVE  Deserialize(ResponseBytes(r)) = r
<1> DEFINE pay  == ResponsePayload(r)
           size == Len(pay)
           data == Claiming(r, size)
           k    == Len(r.aesKey)
<1>1. /\ r.version \in Byte /\ r.code \in U16 /\ r.size \in U32 /\ r.checksum \in U32
      /\ k \in Nat
  BY ResponseFields
<1>2. /\ size = UniqueIdLen + k + 4 + FileNameLen + 4
      /\ Slice(pay, 0, UniqueIdLen) = r.uid
      /\ Slice(pay, UniqueIdLen, k) = r.aesKey
      /\ Slice(pay, UniqueIdLen + k, 4) = Big32(r.size)
      /\ Slice(pay, UniqueIdLen + k + 4, FileNameLen) = r.fileName
      /\ Slice(pay, UniqueIdLen + k + 4 + FileNameLen, 4) = Big32(r.checksum)
  BY PayloadFields
<1>3. /\ Len(data) = 7 + size
      /\ data[1] = r.version
      /\ Slice(data, 1, 2) = Big16(r.code)
      /\ Slice(data, 3, 4) = Big32(size)
      /\ \A at, n \in Nat : at + n =< size => Slice(data, 7 + at, n) = Slice(pay, at, n)
  BY FieldsOfResponse
<1>4. Deserialize(ResponseBytes(r)) = Deserialize(data)
  BY DEF ResponseBytes
<1>5. size \in U32
  OBVIOUS
<1> HIDE DEF pay, size, data, k
<1>6. PayloadSize(data) = size
  BY <1>3, <1>5, Numbers32 DEF PayloadSize, PayloadSizeAt
<1>7. /\ KeyLen(size) = k /\ UidAt = 7 + 0 /\ KeyAt = 7 + UniqueIdLen
      /\ SizeAt(size) = 7 + (UniqueIdLen + k)
      /\ NameAt(size) = 7 + (UniqueIdLen + k + 4)
      /\ SumAt(size) = 7 + (UniqueIdLen + k + 4 + FileNameLen)
  BY <1>1, <1>2, Constants
     DEF KeyLen, UidAt, KeyAt, SizeAt, NameAt, SumAt, ResponseHeaderLen, FixedResponsePayload
<1> DEFINE atSize == UniqueIdLen + k
           atName == UniqueIdLen + k + 4
           atSum  == UniqueIdLen + k + 4 + FileNameLen
<1>8. /\ UniqueIdLen \in Nat /\ UniqueIdLen + k =< size
      /\ atSize \in Nat /\ atSize + 4 =< size
      /\ atName \in Nat /\ atName + FileNameLen =< size /\ FileNameLen \in Nat
      /\ atSum \in Nat /\ atSum + 4 =< size
      /\ 0 + UniqueIdLen =< size
  BY <1>1, <1>2, Constants
<1>9. /\ Slice(pay, atSize, 4) = Big32(r.size)
      /\ Slice(pay, atName, FileNameLen) = r.fileName
      /\ Slice(pay, atSum, 4) = Big32(r.checksum)
      /\ SizeAt(size) = 7 + atSize /\ NameAt(size) = 7 + atName /\ SumAt(size) = 7 + atSum
  BY <1>2, <1>7
<1> HIDE DEF atSize, atName, atSum
<1>10. Slice(data, UidAt, UniqueIdLen) = r.uid
  BY <1>2, <1>3, <1>7, <1>8
<1>11. Slice(data, KeyAt, KeyLen(size)) = r.aesKey
  <2>1. Slice(data, 7 + UniqueIdLen, k) = Slice(pay, UniqueIdLen, k)
    BY <1>1, <1>3, <1>8
  <2> QED
    BY <1>2, <1>7, <2>1
<1>12. /\ Slice(data, SizeAt(size), 4) = Big32(r.size)
       /\ Slice(data, NameAt(size), FileNameLen) = r.fileName
       /\ Slice(data, SumAt(size), 4) = Big32(r.checksum)
  <2>1. Slice(data, 7 + atSize, 4) = Slice(pay, atSize, 4)
    BY <1>3, <1>8
  <2>2. Slice(data, 7 + atName, FileNameLen) = Slice(pay, atName, FileNameLen)
    BY <1>3, <1>8
  <2>3. Slice(data, 7 + atSum, 4) = Slice(pay, atSum, 4)
    BY <1>3, <1>8
  <2> QED
    BY <1>9, <2>1, <2>2, <2>3
<1>13. WellFormed(data)
  <2>1. Available(data, 0, ResponseHeaderLen)
    BY <1>1, <1>2, <1>3, Constants DEF Available, ResponseHeaderLen
  <2>2. size >= FixedResponsePayload /\ Len(data) >= ResponseHeaderLen + size
    BY <1>1, <1>2, <1>3, Constants DEF ResponseHeaderLen, FixedResponsePayload
  <2>3. \A at, n \in Nat : at + n =< size => Available(data, 7 + at, n)
    BY <1>1, <1>2, <1>3, Constants DEF Available
  <2>4. FieldsAvailable(data, size)
    BY <1>1, <1>7, <1>8, <1>9, <2>3 DEF FieldsAvailable
  <2> QED
    BY <1>6, <2>1, <2>2, <2>4 DEF WellFormed
<1>14. Parsed(data) =
        [ok |-> TRUE, version |-> r.version, code |-> r.code, uid |-> r.uid,
         aesKey |-> r.aesKey, size |-> r.size, fileName |-> r.fileName,
         checksum |-> r.checksum]
  <2>1. /\ Load16(Ntohs(Big16(r.code))) = r.code
        /\ Load32(Ntohl(Big32(r.size))) = r.size
        /\ Load32(Ntohl(Big32(r.checksum))) = r.checksum
    BY <1>1, Numbers16, Numbers32
  <2> QED
    BY <1>3, <1>6, <1>10, <1>11, <1>12, <2>1 DEF Parsed
<1>15. r = [ok |-> TRUE, version |-> r.version, code |-> r.code, uid |-> r.uid,
            aesKey |-> r.aesKey, size |-> r.size, fileName |-> r.fileName,
            checksum |-> r.checksum]
  BY DEF Responses
<1> QED
  BY <1>4, <1>13, <1>14, <1>15 DEF Deserialize

\* What receive_response hands to deserialize is a header and exactly as many bytes
\* as it claims. Of the checks made there one is then enough: the claimed size
\* covers the fields of fixed width. The others follow from it, and no field is
\* read past the end.
THEOREM ChecksSuffice ==
    ASSUME NEW data \in Seq(Byte), PayloadSize(data) \in Nat,
           Len(data) = ResponseHeaderLen + PayloadSize(data)
    PROVE  WellFormed(data) <=> PayloadSize(data) >= FixedResponsePayload
<1> DEFINE size == PayloadSize(data)
<1>1. size \in Nat /\ Len(data) = 7 + size
  BY DEF ResponseHeaderLen
<1>2. SUFFICES ASSUME size >= FixedResponsePayload
               PROVE  WellFormed(data)
  BY DEF WellFormed
<1> HIDE DEF size
<1>3. Available(data, 0, ResponseHeaderLen)
  BY <1>1 DEF Available, ResponseHeaderLen
<1>4. FieldsAvailable(data, size)
  BY <1>1, <1>2, Constants
     DEF FieldsAvailable, Available, UidAt, KeyAt, SizeAt, NameAt, SumAt, KeyLen,
         ResponseHeaderLen, FixedResponsePayload
<1>5. Len(data) >= ResponseHeaderLen + size
  BY <1>1 DEF ResponseHeaderLen
<1> QED
  BY <1>2, <1>3, <1>4, <1>5 DEF WellFormed, size

-----------------------------------------------------------------------------
(* Names and user ids *)

\* set_username and set_file_name: a name that is shorter than its field and holds
\* no zero is read from the field, as a C string, as what it was.
THEOREM NamesKept ==
    ASSUME NEW width \in Nat, NEW name \in Seq(Byte), Fits(name, width)
    PROVE  /\ NameField(name, width) \in Seq(Byte)
           /\ Len(NameField(name, width)) = width
           /\ CString(NameField(name, width)) = name
<1> DEFINE field == NameField(name, width)
           end   == CHOOSE n \in 0 .. Len(field) :
                        /\ n < Len(field) => field[n + 1] = 0
                        /\ \A i \in 1 .. n : field[i] # 0
<1>1. /\ Len(name) \in Nat /\ Len(name) < width
      /\ \A i \in 1 .. Len(name) : name[i] # 0 /\ name[i] \in Byte
  BY LenProperties, ElementOfSeq DEF Fits
<1>2. /\ field \in Seq(Byte) /\ Len(field) = width
      /\ \A i \in 1 .. width : field[i] = IF i =< Len(name) /\ i < width THEN name[i] ELSE 0
  BY <1>1 DEF NameField, Byte
<1> HIDE DEF field
<1>3. \A i \in 1 .. Len(name) : field[i] = name[i]
  BY <1>1, <1>2
<1>4. field[Len(name) + 1] = 0
  BY <1>1, <1>2
<1>5. \E n \in 0 .. Len(field) : /\ n < Len(field) => field[n + 1] = 0
                                 /\ \A i \in 1 .. n : field[i] # 0
  <2>1. Len(name) \in 0 .. Len(field)
    BY <1>1, <1>2
  <2> QED
    BY <1>1, <1>3, <1>4, <2>1
<1>6. /\ end \in 0 .. Len(field)
      /\ end < Len(field) => field[end + 1] = 0
      /\ \A i \in 1 .. end : field[i] # 0
  BY <1>5
<1> HIDE DEF end
<1>7. end = Len(name)
  <2>1. ~(Len(name) < end)
    BY <1>1, <1>2, <1>4, <1>6
  <2>2. ~(end < Len(name))
    <3>1. SUFFICES ASSUME end < Len(name)
                   PROVE  FALSE
      OBVIOUS
    <3>2. end + 1 \in 1 .. Len(name) /\ end < Len(field)
      BY <1>1, <1>2, <1>6, <3>1
    <3> QED
      BY <1>1, <1>3, <1>6, <3>2
  <2> QED
    BY <1>1, <1>2, <1>6, <2>1, <2>2
<1>8. SubSeq(field, 1, end) = name
  <2>1. \A i \in 1 .. end : field[i] \in Byte
    BY <1>1, <1>3, <1>7
  <2>2. /\ SubSeq(field, 1, end) \in Seq(Byte)
        /\ Len(SubSeq(field, 1, end)) = end
        /\ \A i \in 1 .. end : SubSeq(field, 1, end)[i] = field[i]
    BY <1>1, <1>7, <2>1, SubSeqProperties
  <2> QED
    BY <1>3, <1>7, <2>2, SeqEqual
<1> QED
  BY <1>2, <1>8 DEF CString, field, end

\* bytes_to_hex and hex_string_to_byte_array: the id that was saved in me.info as
\* text passes the check and is read from there as the bytes it was.
THEOREM HexRoundTrip ==
    ASSUME NEW id \in Seq(Byte)
    PROVE  IsHex(ToHex(id), Len(id)) /\ FromHex(ToHex(id)) = id
<1> DEFINE n == Len(id)
           text == ToHex(id)
<1>1. n \in Nat /\ \A i \in 1 .. n : id[i] \in 0 .. 255
  BY LenProperties, ElementOfSeq DEF Byte
<1>2. /\ Len(text) = 2 * n
      /\ \A i \in 1 .. n : text[2 * i - 1] = id[i] \div 16 /\ text[2 * i] = id[i] % 16
  <2>1. text = [i \in 1 .. 2 * n |->
                  IF i % 2 = 1 THEN id[(i + 1) \div 2] \div 16 ELSE id[i \div 2] % 16]
    BY DEF ToHex
  <2>2. Len(text) = 2 * n
    BY <1>1, <2>1
  <2>3. ASSUME NEW i \in 1 .. n
        PROVE  text[2 * i - 1] = id[i] \div 16 /\ text[2 * i] = id[i] % 16
    <3> HIDE DEF text
    <3>1. /\ 2 * i - 1 \in 1 .. 2 * n /\ (2 * i - 1) % 2 = 1
          /\ (2 * i - 1 + 1) \div 2 = i
      BY <1>1
    <3>2. 2 * i \in 1 .. 2 * n /\ (2 * i) % 2 # 1 /\ (2 * i) \div 2 = i
      BY <1>1
    <3>3. text[2 * i - 1] = id[i] \div 16
      BY <2>1, <3>1
    <3>4. text[2 * i] = id[i] % 16
      BY <2>1, <3>2
    <3> QED
      BY <3>3, <3>4
  <2> QED
    BY <2>2, <2>3
<1> HIDE DEF text
<1>3. \A i \in 1 .. n : /\ id[i] \div 16 \in HexDigit /\ id[i] % 16 \in HexDigit
                        /\ 16 * (id[i] \div 16) + (id[i] % 16) = id[i]
  <2>1. \A b \in 0 .. 255 : /\ b \div 16 \in 0 .. 15 /\ b % 16 \in 0 .. 15
                           /\ 16 * (b \div 16) + (b % 16) = b
    BY SMT
  <2> QED
    BY <1>1, <2>1 DEF HexDigit
<1>4. IsHex(text, n)
  BY <1>2, <1>3 DEF IsHex, HexPair
<1>5. FromHex(text) = [i \in 1 .. n |-> HexValue(text[2 * i - 1], text[2 * i])]
  <2>1. (2 * n) \div 2 = n
    BY <1>1
  <2> QED
    BY <1>2, <2>1 DEF FromHex
<1>6. \A i \in 1 .. n : HexValue(text[2 * i - 1], text[2 * i]) = id[i]
  BY <1>2, <1>3 DEF HexValue
<1>7. [i \in 1 .. n |-> HexValue(text[2 * i - 1], text[2 * i])] = [i \in 1 .. n |-> id[i]]
  BY <1>6
<1>8. [i \in 1 .. n |-> id[i]] = id
  BY <1>1
<1> QED
  BY <1>4, <1>5, <1>7, <1>8 DEF text

\* The converse fails: std::stoul takes a sign or a blank for the first character of
\* a pair, so a text that is no id passes the check of me.info, and is read as the
\* id of another user.
THEOREM LooseHex ==
    ASSUME NEW n \in Nat \ {0}
    PROVE  \E text \in [1 .. 2 * n -> HexChar] :
              IsHex(text, n) /\ ToHex(FromHex(text)) # text
<1> DEFINE text == [i \in 1 .. 2 * n |-> IF i = 1 THEN Space ELSE 0]
           id   == FromHex(text)
<1>1. text \in [1 .. 2 * n -> HexChar] /\ Len(text) = 2 * n /\ text[1] = 18
  BY DEF HexChar, Space
<1>2. IsHex(text, n)
  <2>1. ASSUME NEW i \in 1 .. n
        PROVE  HexPair(text[2 * i - 1], text[2 * i])
    <3>1. 2 * i - 1 \in 1 .. 2 * n /\ 2 * i \in 1 .. 2 * n /\ 2 * i # 1
      OBVIOUS
    <3>2. text[2 * i] = 0 /\ text[2 * i - 1] \in {Space, 0}
      BY <3>1
    <3> QED
      BY <3>2 DEF HexPair, HexDigit, Space
  <2> QED
    BY <1>1, <2>1 DEF IsHex
<1>3. Len(id) = n /\ id[1] = 0
  <2>1. (2 * n) \div 2 = n /\ 1 \in 1 .. n /\ 2 * 1 - 1 = 1 /\ 2 * 1 = 2 /\ 2 \in 1 .. 2 * n
    OBVIOUS
  <2>2. id = [i \in 1 .. n |-> HexValue(text[2 * i - 1], text[2 * i])]
    BY <1>1, <2>1 DEF FromHex
  <2>3. id[1] = HexValue(18, 0) /\ Len(id) = n
    BY <1>1, <2>1, <2>2
  <2> QED
    BY <2>3 DEF HexValue, HexDigit, Minus
<1> HIDE DEF text, id
<1>4. ToHex(id)[1] = 0
  <2>1. 1 \in 1 .. 2 * n /\ 1 % 2 = 1 /\ (1 + 1) \div 2 = 1 /\ 0 \div 16 = 0
    OBVIOUS
  <2> QED
    BY <1>3, <2>1 DEF ToHex
<1> QED
  BY <1>1, <1>2, <1>4 DEF id

-----------------------------------------------------------------------------
(* Requests *)

LEMMA RequestFields ==
    ASSUME NEW r \in RequestRecords, WellBuilt(r)
    PROVE  /\ r.code \in U16 /\ r.chunkSize \in U32 /\ r.fileSize \in U32
           /\ r.packet \in U16 /\ r.total \in U16
           /\ r.uid \in Seq(Byte) /\ Len(r.uid) = UniqueIdLen
           /\ r.publicKey \in Seq(Byte) /\ Len(r.publicKey) = RsaKeyLen
           /\ r.username \in Seq(Byte) /\ r.fileName \in Seq(Byte) /\ r.chunk \in Seq(Byte)
           /\ Fits(r.username, UsernameLen) /\ Fits(r.fileName, FileNameLen)
           /\ Len(r.chunk) \in Nat
<1>1. r.uid \in Bytes(UniqueIdLen) /\ r.publicKey \in Bytes(RsaKeyLen)
  BY DEF RequestRecords
<1>2. /\ r.uid \in Seq(Byte) /\ Len(r.uid) = UniqueIdLen
      /\ r.publicKey \in Seq(Byte) /\ Len(r.publicKey) = RsaKeyLen
  BY <1>1, Constants, BytesAreSequences
<1>3. /\ r.code \in U16 /\ r.chunkSize \in U32 /\ r.fileSize \in U32
      /\ r.packet \in U16 /\ r.total \in U16
      /\ r.username \in Seq(Byte) /\ r.fileName \in Seq(Byte) /\ r.chunk \in Seq(Byte)
  BY DEF RequestRecords
<1>4. Fits(r.username, UsernameLen) /\ Fits(r.fileName, FileNameLen)
  BY DEF WellBuilt
<1> QED
  BY <1>2, <1>3, <1>4, LenProperties

\* The fields of a request's payload; `nums' are the four numbers in its middle.
Nums(r) == Host32(r.chunkSize) \o Host32(r.fileSize) \o Host16(r.packet) \o Host16(r.total)

LEMMA NumsFields ==
    ASSUME NEW r \in RequestRecords, WellBuilt(r)
    PROVE  /\ Nums(r) \in Seq(Byte) /\ Len(Nums(r)) = 12
           /\ Slice(Nums(r), 0, 4) = Host32(r.chunkSize)
           /\ Slice(Nums(r), 4, 4) = Host32(r.fileSize)
           /\ Slice(Nums(r), 8, 2) = Host16(r.packet)
           /\ Slice(Nums(r), 10, 2) = Host16(r.total)
<1> DEFINE a == Host32(r.chunkSize)
           b == Host32(r.fileSize)
           c == Host16(r.packet)
           d == Host16(r.total)
           s == Nums(r)
<1>1. /\ a \in Seq(Byte) /\ Len(a) = 4 /\ b \in Seq(Byte) /\ Len(b) = 4
      /\ c \in Seq(Byte) /\ Len(c) = 2 /\ d \in Seq(Byte) /\ Len(d) = 2
  BY RequestFields, HostNumbers
<1>2. s = a \o b \o c \o d
  BY DEF Nums
<1> HIDE DEF a, b, c, d, s
<1>3. Four(s, a, b, c, d)
  BY <1>1, <1>2, FourFields
<1>4. s \in Seq(Byte) /\ Len(s) = 12 /\ Slice(s, 0, 4) = a /\ Slice(s, 4, 4) = b
      /\ Slice(s, 8, 2) = c
  BY <1>1, <1>3 DEF Four
<1>5. Slice(s, 10, 2) = d
  <2>1. Slice(s, 10 + 0, 2) = Slice(d, 0, 2)
    BY <1>1, <1>3 DEF Four
  <2>2. Slice(d, 0, 2) = d
    BY <1>1, SliceWhole
  <2> QED
    BY <2>1, <2>2
<1> QED
  BY <1>4, <1>5 DEF a, b, c, d, s

LEMMA FieldsOfPayload ==
    ASSUME NEW r \in RequestRecords, WellBuilt(r)
    PROVE  Five(Payload(r), NameField(r.username, UsernameLen), r.publicKey, Nums(r),
                NameField(r.fileName, FileNameLen), r.chunk)
<1> DEFINE user == NameField(r.username, UsernameLen)
           key  == r.publicKey
           nums == Nums(r)
           file == NameField(r.fileName, FileNameLen)
           chunk == r.chunk
<1>1. user \in Seq(Byte) /\ file \in Seq(Byte)
  BY RequestFields, Constants, NamesKept
<1>2. key \in Seq(Byte) /\ nums \in Seq(Byte) /\ chunk \in Seq(Byte)
  BY RequestFields, NumsFields
<1>3. Payload(r) = user \o key \o nums \o file \o chunk
  BY DEF Payload, Nums
<1> HIDE DEF user, key, nums, file, chunk
<1>4. Five(Payload(r), user, key, nums, file, chunk)
  BY <1>1, <1>2, <1>3, FiveFields
<1> QED
  BY <1>4 DEF user, key, nums, file, chunk

LEMMA PayloadLen ==
    ASSUME NEW r \in RequestRecords, WellBuilt(r)
    PROVE  Payload(r) \in Seq(Byte) /\ Len(Payload(r)) = FixedPayload + Len(r.chunk)
<1>1. /\ Len(NameField(r.username, UsernameLen)) = UsernameLen
      /\ Len(NameField(r.fileName, FileNameLen)) = FileNameLen
      /\ Len(r.publicKey) = RsaKeyLen /\ Len(Nums(r)) = 12
  BY RequestFields, Constants, NamesKept, NumsFields
<1>2. /\ Payload(r) \in Seq(Byte)
      /\ Len(Payload(r)) = UsernameLen + RsaKeyLen + 12 + FileNameLen + Len(r.chunk)
  BY <1>1, FieldsOfPayload DEF Five
<1>3. UsernameLen + RsaKeyLen + 12 + FileNameLen = FixedPayload
  BY DEF FixedPayload, NumbersLen
<1> QED
  BY <1>2, <1>3

\* Every request but one declares the size of the payload that serialize writes.
\* DISCONNECT declares eight bytes less than that: its size counts neither the file
\* size nor the two packet numbers.
THEOREM DeclaredSizes ==
    ASSUME NEW r \in RequestRecords, WellBuilt(r)
    PROVE  Len(Payload(r)) = DeclaredSize(r) + (IF r.code = Codes.DISCONNECT THEN 8 ELSE 0)
<1>1. /\ Len(Payload(r)) = FixedPayload + Len(r.chunk) /\ Len(r.chunk) \in Nat
      /\ FixedPayload = DisconnectPayloadSize + 8 /\ DisconnectPayloadSize \in Nat
  <2>1. Len(Payload(r)) = FixedPayload + Len(r.chunk) /\ Len(r.chunk) \in Nat
    BY PayloadLen, RequestFields
  <2>2. FixedPayload = DisconnectPayloadSize + 8 /\ DisconnectPayloadSize \in Nat
    BY Constants DEF FixedPayload, DisconnectPayloadSize, NumbersLen
  <2> QED
    BY <2>1, <2>2
<1>2. r.code # Codes.CREATE_BACKUP => Len(r.chunk) = 0
  BY EmptySeq DEF WellBuilt
<1>3. Codes.CREATE_BACKUP # Codes.DISCONNECT
  BY DEF Codes
<1>4. CASE r.code = Codes.DISCONNECT
  BY <1>1, <1>2, <1>3, <1>4 DEF DeclaredSize
<1>5. CASE r.code = Codes.CREATE_BACKUP
  BY <1>1, <1>3, <1>5 DEF DeclaredSize
<1>6. CASE r.code # Codes.DISCONNECT /\ r.code # Codes.CREATE_BACKUP
  BY <1>1, <1>2, <1>6 DEF DeclaredSize
<1> QED
  BY <1>4, <1>5, <1>6

LEMMA HeaderFields ==
    ASSUME NEW r \in RequestRecords, WellBuilt(r), DeclaredSize(r) \in U32
    PROVE  /\ Header(r) \in Seq(Byte) /\ Len(Header(r)) = UniqueIdLen + 7
           /\ Slice(Header(r), 0, UniqueIdLen) = r.uid
           /\ Slice(Header(r), UniqueIdLen + 1, 2) = Host16(r.code)
           /\ Slice(Header(r), UniqueIdLen + 3, 4) = Host32(DeclaredSize(r))
<1> DEFINE uid  == r.uid
           version == <<ClientVersion>>
           code == Host16(r.code)
           declared == Host32(DeclaredSize(r))
<1>1. /\ uid \in Seq(Byte) /\ Len(uid) = UniqueIdLen
      /\ code \in Seq(Byte) /\ Len(code) = 2
      /\ declared \in Seq(Byte) /\ Len(declared) = 4
  BY RequestFields, HostNumbers
<1>2. version \in Seq(Byte) /\ Len(version) = 1
  BY DEF ClientVersion, Byte
<1>3. Header(r) = uid \o version \o code \o declared
  BY DEF Header
<1> HIDE DEF uid, version, code, declared
<1>4. Four(Header(r), uid, version, code, declared)
  BY <1>1, <1>2, <1>3, FourFields
<1>5. /\ Header(r) \in Seq(Byte) /\ Len(Header(r)) = UniqueIdLen + 7
      /\ Slice(Header(r), 0, UniqueIdLen) = uid
      /\ Slice(Header(r), UniqueIdLen + 1, 2) = code
  BY <1>1, <1>2, <1>4, Constants DEF Four
<1>6. Slice(Header(r), UniqueIdLen + 3, 4) = declared
  <2>1. Slice(Header(r), UniqueIdLen + 1 + 2 + 0, 4) = Slice(declared, 0, 4)
    BY <1>1, <1>2, <1>4 DEF Four
  <2>2. UniqueIdLen + 1 + 2 + 0 = UniqueIdLen + 3
    BY Constants
  <2>3. Slice(declared, 0, 4) = declared
    BY <1>1, SliceWhole
  <2> QED
    BY <2>1, <2>2, <2>3
<1> QED
  BY <1>5, <1>6 DEF uid, code, declared

\* What Request::serialize writes is taken apart by a server that reads fields of
\* the same widths in the same order: no field moves with the contents of another,
\* whatever the names and the chunk are. Only for a client on a little-endian host:
\* append_binary_field writes numbers as they are in memory.
THEOREM RequestRoundTrip ==
    ASSUME LittleEndian, NEW r \in RequestRecords, WellBuilt(r), DeclaredSize(r) \in U32
    PROVE  ReadRequest(Serialize(r)) = r
<1> DEFINE head == Header(r)
           pay  == Payload(r)
           data == Serialize(r)
           user == NameField(r.username, UsernameLen)
           file == NameField(r.fileName, FileNameLen)
           nums == Nums(r)
           h    == UniqueIdLen + 7
           atNums == UsernameLen + RsaKeyLen
           atFile == UsernameLen + RsaKeyLen + 12
           atChunk == UsernameLen + RsaKeyLen + 12 + FileNameLen
           n    == Len(r.chunk)
<1>1. /\ head \in Seq(Byte) /\ Len(head) = h
      /\ Slice(head, 0, UniqueIdLen) = r.uid
      /\ Slice(head, UniqueIdLen + 1, 2) = Host16(r.code)
  BY HeaderFields
<1>2. /\ user \in Seq(Byte) /\ Len(user) = UsernameLen /\ CString(user) = r.username
      /\ file \in Seq(Byte) /\ Len(file) = FileNameLen /\ CString(file) = r.fileName
  BY RequestFields, NamesKept, Constants
<1>3. /\ r.code \in U16 /\ r.chunkSize \in U32 /\ r.fileSize \in U32
      /\ r.packet \in U16 /\ r.total \in U16
      /\ Len(r.publicKey) = RsaKeyLen /\ n \in Nat
  BY RequestFields
<1>4. /\ nums \in Seq(Byte) /\ Len(nums) = 12
      /\ Slice(nums, 0, 4) = Host32(r.chunkSize)
      /\ Slice(nums, 4, 4) = Host32(r.fileSize)
      /\ Slice(nums, 8, 2) = Host16(r.packet)
      /\ Slice(nums, 10, 2) = Host16(r.total)
  BY NumsFields
<1>5. /\ pay \in Seq(Byte) /\ Len(pay) = atChunk + n
      /\ Slice(pay, 0, UsernameLen) = user
      /\ Slice(pay, UsernameLen, RsaKeyLen) = r.publicKey
      /\ Slice(pay, atNums, 12) = nums
      /\ Slice(pay, atFile, FileNameLen) = file
      /\ Slice(pay, atChunk, n) = r.chunk
  BY <1>2, <1>3, <1>4, FieldsOfPayload DEF Five
<1>6. data = head \o pay
  BY DEF Serialize
<1>7. /\ UsernameLen \in Nat /\ RsaKeyLen \in Nat /\ FileNameLen \in Nat /\ UniqueIdLen \in Nat
      /\ UniqueIdLen + 1 \in Nat
      /\ h \in Nat /\ atNums \in Nat /\ atFile \in Nat /\ atChunk \in Nat
      /\ 0 + UsernameLen =< atChunk + n /\ UsernameLen + RsaKeyLen =< atChunk + n
      /\ atNums + 12 =< atChunk + n /\ atFile + FileNameLen =< atChunk + n
      /\ 0 + UniqueIdLen =< h /\ UniqueIdLen + 1 + 2 =< h
  <2>1. n \in Nat
    BY <1>3
  <2> HIDE DEF n
  <2> QED
    BY <2>1, Constants
<1>8. /\ RequestHeaderLen = h /\ RequestHeaderLen + UsernameLen = h + UsernameLen
      /\ NumbersAt = h + atNums /\ FileNameAt = h + atFile /\ ChunkAt = h + atChunk
  BY Constants DEF RequestHeaderLen, NumbersAt, FileNameAt, ChunkAt, NumbersLen
<1> HIDE DEF head, pay, data, user, file, nums, h, atNums, atFile, atChunk, n
<1>9. /\ data \in Seq(Byte) /\ Len(data) = h + atChunk + n
      /\ \A at, m \in Nat : at + m =< h => Slice(data, at, m) = Slice(head, at, m)
      /\ \A at, m \in Nat : at + m =< atChunk + n => Slice(data, h + at, m) = Slice(pay, at, m)
  <2>1. data \in Seq(Byte) /\ Len(data) = Len(head) + Len(pay)
    BY <1>1, <1>5, <1>6, Joined
  <2>2. \A at, m \in Nat : at + m =< h => Slice(data, at, m) = Slice(head, at, m)
    BY <1>1, <1>5, <1>6, SliceOfFirst
  <2>3. \A at, m \in Nat : at + m =< atChunk + n => Slice(data, h + at, m) = Slice(pay, at, m)
    BY <1>1, <1>5, <1>6, SliceOfSecond
  <2> QED
    BY <1>1, <1>3, <1>5, <1>7, <2>1, <2>2, <2>3
<1>10. Read16(data, UniqueIdLen + 1) = r.code
  <2>1. Slice(data, UniqueIdLen + 1, 2) = Host16(r.code)
    BY <1>1, <1>7, <1>9
  <2> QED
    BY <1>3, <2>1, Numbers16 DEF Read16, Host16
<1>11. Slice(data, 0, UniqueIdLen) = r.uid
  BY <1>1, <1>7, <1>9
<1>12. CString(Slice(data, RequestHeaderLen, UsernameLen)) = r.username
  <2>1. Slice(data, h + 0, UsernameLen) = Slice(pay, 0, UsernameLen)
    BY <1>7, <1>9
  <2> QED
    BY <1>2, <1>5, <1>7, <1>8, <2>1
<1>13. Slice(data, RequestHeaderLen + UsernameLen, RsaKeyLen) = r.publicKey
  BY <1>5, <1>7, <1>8, <1>9
<1>14. /\ Read32(data, NumbersAt) = r.chunkSize
       /\ Read32(data, NumbersAt + 4) = r.fileSize
       /\ Read16(data, NumbersAt + 8) = r.packet
       /\ Read16(data, NumbersAt + 10) = r.total
  <2>1. Slice(data, h + atNums, 12) = nums
    BY <1>5, <1>7, <1>9
  <2>2. h + atNums \in Nat /\ h + atNums + 12 =< Len(data)
    <3>1. /\ h \in Nat /\ atNums \in Nat /\ atChunk \in Nat /\ n \in Nat
          /\ atNums + 12 =< atChunk + n /\ Len(data) = h + atChunk + n
      BY <1>3, <1>7, <1>9
    <3> QED
      BY <3>1
  <2>3. \A o, m \in Nat : o + m =< 12 => Slice(data, h + atNums + o, m) = Slice(nums, o, m)
    <3> TAKE o, m \in Nat
    <3>1. SUFFICES ASSUME o + m =< 12
                   PROVE  Slice(data, h + atNums + o, m) = Slice(nums, o, m)
      OBVIOUS
    <3>2. Slice(data, h + atNums + o, m) = Slice(Slice(data, h + atNums, 12), o, m)
      BY <1>9, <2>2, <3>1, SliceOfSlice
    <3> QED
      BY <2>1, <3>2
  <2>4. /\ Slice(data, NumbersAt + 0, 4) = Host32(r.chunkSize)
        /\ Slice(data, NumbersAt + 4, 4) = Host32(r.fileSize)
        /\ Slice(data, NumbersAt + 8, 2) = Host16(r.packet)
        /\ Slice(data, NumbersAt + 10, 2) = Host16(r.total)
    BY <1>4, <1>8, <2>3
  <2>5. NumbersAt + 0 = NumbersAt
    BY <1>7, <1>8
  <2>6. \A v \in U32 : FromLittle32(Host32(v)) = v
    BY Numbers32 DEF Host32
  <2>7. \A v \in U16 : FromLittle16(Host16(v)) = v
    BY Numbers16 DEF Host16
  <2> QED
    BY <1>3, <2>4, <2>5, <2>6, <2>7 DEF Read16, Read32
<1>15. CString(Slice(data, FileNameAt, FileNameLen)) = r.fileName
  BY <1>2, <1>5, <1>7, <1>8, <1>9
<1>16. Slice(data, ChunkAt, Len(data) - ChunkAt) = r.chunk
  <2>1. Len(data) - ChunkAt = n
    BY <1>3, <1>7, <1>8, <1>9
  <2>2. Slice(data, h + atChunk, n) = Slice(pay, atChunk, n)
    <3>1. atChunk \in Nat /\ n \in Nat /\ atChunk + n =< atChunk + n
      BY <1>3, <1>7
    <3> QED
      BY <3>1, <1>9
  <2> QED
    BY <1>5, <1>8, <2>1, <2>2
<1>17. ~(Len(data) < ChunkAt)
  BY <1>3, <1>7, <1>8, <1>9
<1>18. r = [code |-> r.code, uid |-> r.uid, username |-> r.username,
            publicKey |-> r.publicKey, chunkSize |-> r.chunkSize, fileSize |-> r.fileSize,
            packet |-> r.packet, total |-> r.total, fileName |-> r.fileName,
            chunk |-> r.chunk]
  BY DEF RequestRecords
<1> QED
  BY <1>10, <1>11, <1>12, <1>13, <1>14, <1>15, <1>16, <1>17, <1>18 DEF ReadRequest, data
=============================================================================

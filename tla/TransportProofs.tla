--------------------------- MODULE TransportProofs ---------------------------
(***************************************************************************)
(* Theorems of Transport: its type invariant, and that each direction is a *)
(* channel of whole messages (MessageChannel), whatever the requests and   *)
(* the responses are and wherever the connection is cut.                   *)
(***************************************************************************)
EXTENDS Transport, WireProofs

-----------------------------------------------------------------------------
(* Prefixes: what is left of the bytes under way when the connection is cut *)

Prefix(s, t) == Len(s) =< Len(t) /\ s = Slice(t, 0, Len(s))

LEMMA PrefixWhole ==
    ASSUME NEW s \in Seq(Byte)
    PROVE  Prefix(s, s)
BY SliceWhole, LenProperties DEF Prefix

LEMMA PrefixSlice ==
    ASSUME NEW s \in Seq(Byte), NEW t \in Seq(Byte), Prefix(s, t),
           NEW at \in Nat, NEW n \in Nat, at + n =< Len(s)
    PROVE  Slice(s, at, n) = Slice(t, at, n)
<1>1. Len(s) \in Nat /\ Len(t) \in Nat /\ 0 + Len(s) =< Len(t) /\ s = Slice(t, 0, Len(s))
  BY LenProperties DEF Prefix
<1>2. Slice(t, 0 + at, n) = Slice(Slice(t, 0, Len(s)), at, n)
  BY <1>1, SliceOfSlice
<1> QED
  BY <1>1, <1>2

LEMMA PrefixCut ==
    ASSUME NEW s \in Seq(Byte), NEW t \in Seq(Byte), Prefix(s, t), NEW n \in 0 .. Len(s)
    PROVE  /\ Slice(s, 0, n) \in Seq(Byte)
           /\ Prefix(Slice(s, 0, n), t)
<1>1. Len(s) \in Nat /\ Len(t) \in Nat /\ Len(s) =< Len(t) /\ n \in Nat /\ 0 + n =< Len(s)
  BY LenProperties DEF Prefix
<1>2. Slice(s, 0, n) \in Seq(Byte) /\ Len(Slice(s, 0, n)) = n
  BY <1>1, SliceIsBytes
<1>3. Slice(s, 0, n) = Slice(t, 0, n)
  BY <1>1, PrefixSlice
<1>4. n =< Len(t)
  BY <1>1
<1> QED
  BY <1>2, <1>3, <1>4 DEF Prefix

\* The first message of those under way is complete: it is taken off, and what
\* stays is a prefix of the others.
LEMMA PrefixTake ==
    ASSUME NEW s \in Seq(Byte), NEW f \in Seq(Byte), NEW t \in Seq(Byte),
           NEW ft, ft = f \o t, Prefix(s, ft), Len(f) =< Len(s)
    PROVE  /\ Slice(s, 0, Len(f)) = f
           /\ Slice(s, Len(f), Len(s) - Len(f)) \in Seq(Byte)
           /\ Prefix(Slice(s, Len(f), Len(s) - Len(f)), t)
<1> DEFINE n == Len(s) - Len(f)
           m == Len(f)
<1>1. ft \in Seq(Byte) /\ Len(ft) = m + Len(t)
  BY Joined
<1>2. Len(s) \in Nat /\ m \in Nat /\ Len(t) \in Nat
  BY LenProperties
<1>3. Len(s) =< Len(ft)
  BY DEF Prefix
<1>4. Slice(ft, 0, m) = f
  BY Halves
<1>5. ASSUME NEW k \in Nat, 0 + k =< Len(t)
      PROVE  Slice(ft, m + 0, k) = Slice(t, 0, k)
  BY <1>5, SliceOfSecond
<1> HIDE DEF m
<1>6. /\ n \in Nat /\ m + n =< Len(s) /\ 0 + m =< Len(s) /\ n =< Len(t)
      /\ 0 + n =< Len(t) /\ 0 \in Nat /\ m + 0 = m
  BY <1>1, <1>2, <1>3 DEF m
<1> HIDE DEF n
<1>7. \A at, k \in Nat : at + k =< Len(s) => Slice(s, at, k) = Slice(ft, at, k)
  BY <1>1, PrefixSlice
<1>8. Slice(s, 0, m) = f
  <2>1. Slice(s, 0, m) = Slice(ft, 0, m)
    BY <1>2, <1>7, <1>6
  <2> QED
    BY <1>4, <2>1
<1>9. Slice(s, m, n) \in Seq(Byte) /\ Len(Slice(s, m, n)) = n
  BY <1>2, <1>6, SliceIsBytes
<1>10. Slice(s, m, n) = Slice(ft, m, n)
  BY <1>2, <1>7, <1>6
<1>11. Slice(s, m, n) = Slice(t, 0, n)
  BY <1>5, <1>6, <1>10
<1>12. Prefix(Slice(s, m, n), t)
  BY <1>6, <1>9, <1>11 DEF Prefix
<1> QED
  BY <1>8, <1>9, <1>12 DEF n, m

\* The same when the connection is up and all bytes are there.
LEMMA WholeTake ==
    ASSUME NEW f \in Seq(Byte), NEW t \in Seq(Byte)
    PROVE  Slice(f \o t, Len(f), Len(f \o t) - Len(f)) = t
<1>1. Len(f \o t) - Len(f) = Len(t)
  BY Joined
<1> QED
  BY <1>1, Halves

-----------------------------------------------------------------------------
(* Streams of messages *)

\* e[i] are the bytes of the messages after the first i of `frames', and what may
\* follow the last of them.
Framed(frames, e) ==
    /\ e \in [0 .. Len(frames) -> Seq(Byte)]
    /\ \A i \in 0 .. Len(frames) - 1 : e[i] = frames[i + 1] \o e[i + 1]

\* More bytes at the end of the stream.
Longer(frames, e, tail, e2) ==
    /\ Framed(frames, e2)
    /\ e2[Len(frames)] = tail
    /\ \A i \in 0 .. Len(frames) : e2[i] = e[i] \o tail

LEMMA FramedConcat ==
    ASSUME NEW frames \in Seq(Seq(Byte)), NEW e, Framed(frames, e), e[Len(frames)] = <<>>,
           NEW tail \in Seq(Byte)
    PROVE  \E e2 : Longer(frames, e, tail, e2)
<1>1. PICK n : n = Len(frames)
  OBVIOUS
<1>2. PICK e2 : e2 = [i \in 0 .. n |-> e[i] \o tail]
  OBVIOUS
<1>3. n \in Nat
  BY <1>1, LenProperties
<1>4. /\ \A i \in 0 .. n : e[i] \in Seq(Byte)
      /\ \A i \in 0 .. n - 1 : e[i] = frames[i + 1] \o e[i + 1]
      /\ e[n] = <<>>
  BY <1>1 DEF Framed
<1>5. \A i \in 1 .. n : frames[i] \in Seq(Byte)
  BY <1>1, ElementOfSeq
<1>6. \A i \in 0 .. n : e2[i] = e[i] \o tail
  BY <1>2
<1>7. \A i \in 0 .. n : e[i] \o tail \in Seq(Byte)
  BY <1>4, Joined
<1>8. e2 \in [0 .. n -> Seq(Byte)]
  BY <1>2, <1>7
<1>9. ASSUME NEW i \in 0 .. n - 1
      PROVE  e2[i] = frames[i + 1] \o e2[i + 1]
  <2>1. i \in 0 .. n /\ i + 1 \in 0 .. n /\ i + 1 \in 1 .. n
    BY <1>3
  <2>2. PICK first \in Seq(Byte) : first = frames[i + 1]
    BY <1>5, <2>1
  <2>3. PICK next \in Seq(Byte) : next = e[i + 1]
    BY <1>4, <2>1
  <2>4. (first \o next) \o tail = first \o (next \o tail)
    BY ConcatAssociative
  <2>5. e2[i] = (first \o next) \o tail
    BY <1>4, <1>6, <2>1, <2>2, <2>3
  <2>6. e2[i + 1] = next \o tail
    BY <1>6, <2>1, <2>3
  <2> QED
    BY <2>2, <2>4, <2>5, <2>6
<1>10. Framed(frames, e2)
  BY <1>1, <1>8, <1>9 DEF Framed
<1>11. e2[n] = tail
  <2>1. n \in 0 .. n
    BY <1>3
  <2>2. e2[n] = e[n] \o tail
    BY <1>6, <2>1
  <2>3. e2[n] = <<>> \o tail
    BY <1>4, <2>2
  <2> QED
    BY <2>3, ConcatEmptySeq
<1> QED
  BY <1>1, <1>6, <1>10, <1>11 DEF Longer

\* What follows the last message begins with one more.
Further(frames, e, f, t, e2) ==
    /\ Framed(Append(frames, f), e2)
    /\ e2[Len(frames) + 1] = t
    /\ \A i \in 0 .. Len(frames) : e2[i] = e[i]

LEMMA FramedAppend ==
    ASSUME NEW frames \in Seq(Seq(Byte)), NEW e, Framed(frames, e),
           NEW f \in Seq(Byte), NEW t \in Seq(Byte), e[Len(frames)] = f \o t
    PROVE  \E e2 : Further(frames, e, f, t, e2)
<1>1. PICK n : n = Len(frames)
  OBVIOUS
<1>2. PICK more : more = Append(frames, f)
  OBVIOUS
<1>3. PICK e2 : e2 = [i \in 0 .. n + 1 |-> IF i = n + 1 THEN t ELSE e[i]]
  OBVIOUS
<1>4. n \in Nat
  BY <1>1, LenProperties
<1>5. Len(more) = n + 1 /\ more[n + 1] = f /\ \A i \in 1 .. n : more[i] = frames[i]
  BY <1>1, <1>2, AppendProperties
<1>6. /\ \A i \in 0 .. n : e[i] \in Seq(Byte)
      /\ \A i \in 0 .. n - 1 : e[i] = frames[i + 1] \o e[i + 1]
  BY <1>1 DEF Framed
<1>7. e2[n + 1] = t
  BY <1>3, <1>4
<1>8. \A i \in 0 .. n : e2[i] = e[i]
  BY <1>3, <1>4
<1>9. e2 \in [0 .. n + 1 -> Seq(Byte)]
  BY <1>3, <1>4, <1>6
<1>10. ASSUME NEW i \in 0 .. n
       PROVE  e2[i] = more[i + 1] \o e2[i + 1]
  <2>1. CASE i = n
    BY <1>1, <1>4, <1>5, <1>7, <1>8, <2>1
  <2>2. CASE i # n
    <3>1. i \in 0 .. n - 1 /\ i + 1 \in 0 .. n /\ i + 1 \in 1 .. n
      BY <1>4, <2>2
    <3> QED
      BY <1>5, <1>6, <1>8, <3>1
  <2> QED
    BY <2>1, <2>2
<1>11. Framed(more, e2)
  <2>1. Len(more) - 1 = n
    BY <1>4, <1>5
  <2>2. e2 \in [0 .. Len(more) -> Seq(Byte)]
    BY <1>5, <1>9
  <2>3. \A i \in 0 .. Len(more) - 1 : e2[i] = more[i + 1] \o e2[i + 1]
    BY <1>10, <2>1
  <2> QED
    BY <2>2, <2>3 DEF Framed
<1> QED
  BY <1>1, <1>2, <1>7, <1>8, <1>11 DEF Further

\* The messages after the first k of `frames' are under way, of which `bytes' is
\* all (`whole') or a beginning; after the last one follow less than `slack' bytes.
Stream(frames, k, bytes, slack, whole) ==
    /\ k \in 0 .. Len(frames)
    /\ \E e : /\ Framed(frames, e)
              /\ Prefix(bytes, e[k])
              /\ Len(e[Len(frames)]) < slack
              /\ whole => e[Len(frames)] = <<>> /\ bytes = e[k]

LEMMA StreamEmpty ==
    ASSUME NEW slack \in Nat \ {0}
    PROVE  Stream(<<>>, 0, <<>>, slack, TRUE)
<1>1. PICK e : e = [i \in {0} |-> <<>>]
  OBVIOUS
<1>2. <<>> \in Seq(Byte) /\ Len(<<>>) = 0 /\ 0 .. 0 = {0} /\ 0 .. 0 - 1 = {}
  BY EmptySeq
<1>3. Framed(<<>>, e)
  BY <1>1, <1>2 DEF Framed
<1>4. e[0] = <<>>
  BY <1>1
<1>5. Prefix(<<>>, <<>>)
  BY <1>2, PrefixWhole
<1> QED
  BY <1>2, <1>3, <1>4, <1>5 DEF Stream

LEMMA StreamPut ==
    ASSUME NEW frames \in Seq(Seq(Byte)), NEW k, NEW bytes, NEW slack \in Nat,
           Stream(frames, k, bytes, slack, TRUE),
           NEW f \in Seq(Byte), NEW rest \in Seq(Byte), Len(rest) < slack,
           NEW tail, tail = f \o rest
    PROVE  Stream(Append(frames, f), k, bytes \o tail, slack, rest = <<>>)
<1>1. PICK n \in Nat : n = Len(frames)
  BY LenProperties
<1>2. PICK e : Framed(frames, e) /\ e[Len(frames)] = <<>> /\ bytes = e[k]
  BY DEF Stream
<1>3. tail \in Seq(Byte)
  BY Joined
<1>4. PICK e1 : Longer(frames, e, tail, e1)
  BY <1>2, <1>3, FramedConcat
<1>5. PICK e2 : Further(frames, e1, f, rest, e2)
  BY <1>4, FramedAppend DEF Longer
<1>6. k \in 0 .. n /\ k \in 0 .. n + 1
  BY <1>1 DEF Stream
<1>7. e2[k] = bytes \o tail
  BY <1>1, <1>2, <1>4, <1>5, <1>6 DEF Longer, Further
<1>8. Len(Append(frames, f)) = n + 1
  BY <1>1, AppendProperties
<1>9. Prefix(e2[k], e2[k])
  <2>1. e2[k] \in Seq(Byte)
    BY <1>5, <1>6, <1>8 DEF Framed, Further
  <2> QED
    BY <2>1, PrefixWhole
<1> QED
  BY <1>1, <1>5, <1>6, <1>7, <1>8, <1>9 DEF Stream, Further

\* As many bytes as cannot all follow the last message: there is one more, and once
\* it is there it is taken off whole.
LEMMA StreamTake ==
    ASSUME NEW frames \in Seq(Seq(Byte)), NEW k, NEW bytes \in Seq(Byte), NEW slack \in Nat,
           NEW whole \in BOOLEAN,
           Stream(frames, k, bytes, slack, whole), slack =< Len(bytes)
    PROVE  /\ k \in 0 .. Len(frames) - 1 /\ k + 1 \in 1 .. Len(frames)
           /\ \E f, t \in Seq(Byte) :
                 /\ f = frames[k + 1] /\ Prefix(bytes, f \o t)
                 /\ Len(f) =< Len(bytes) =>
                       /\ Slice(bytes, 0, Len(f)) = f
                       /\ Slice(bytes, Len(f), Len(bytes) - Len(f)) \in Seq(Byte)
                       /\ Stream(frames, k + 1, Slice(bytes, Len(f), Len(bytes) - Len(f)),
                                 slack, whole)
<1>1. PICK n \in Nat : n = Len(frames)
  BY LenProperties
<1>2. PICK e : /\ Framed(frames, e)
               /\ Prefix(bytes, e[k])
               /\ Len(e[n]) < slack
               /\ whole => e[n] = <<>> /\ bytes = e[k]
  BY <1>1 DEF Stream
<1>3. k \in 0 .. n
  BY <1>1 DEF Stream
<1>4. \A i \in 0 .. n : e[i] \in Seq(Byte)
  BY <1>1, <1>2 DEF Framed
<1>5. k # n
  <2>1. Len(bytes) =< Len(e[k]) /\ Len(bytes) \in Nat /\ Len(e[k]) \in Nat
    BY <1>2, <1>3, <1>4, LenProperties DEF Prefix
  <2> QED
    BY <1>2, <2>1
<1>6. k \in 0 .. n - 1 /\ k + 1 \in 1 .. n /\ k + 1 \in 0 .. n
  BY <1>3, <1>5
<1>7. PICK f \in Seq(Byte) : f = frames[k + 1]
  BY <1>1, <1>6, ElementOfSeq
<1>8. PICK t \in Seq(Byte) : t = e[k + 1]
  BY <1>4, <1>6
<1>9. PICK ft : ft = f \o t
  OBVIOUS
<1>10. e[k] = ft
  BY <1>1, <1>2, <1>6, <1>7, <1>8, <1>9 DEF Framed
<1>11. Prefix(bytes, ft)
  BY <1>2, <1>10
<1>12. ASSUME Len(f) =< Len(bytes)
       PROVE  /\ Slice(bytes, 0, Len(f)) = f
              /\ Slice(bytes, Len(f), Len(bytes) - Len(f)) \in Seq(Byte)
              /\ Stream(frames, k + 1, Slice(bytes, Len(f), Len(bytes) - Len(f)), slack, whole)
  <2>1. PICK rest : rest = Slice(bytes, Len(f), Len(bytes) - Len(f))
    OBVIOUS
  <2>2. Slice(bytes, 0, Len(f)) = f /\ rest \in Seq(Byte) /\ Prefix(rest, t)
    BY <1>9, <1>11, <1>12, <2>1, PrefixTake
  <2>3. whole => e[n] = <<>> /\ rest = t
    <3>1. SUFFICES ASSUME whole
                   PROVE  rest = t
      BY <1>2
    <3>2. bytes = f \o t
      BY <1>2, <1>9, <1>10, <3>1
    <3> QED
      BY <2>1, <3>2, WholeTake
  <2>4. Stream(frames, k + 1, rest, slack, whole)
    BY <1>1, <1>2, <1>6, <1>8, <2>2, <2>3 DEF Stream
  <2> QED
    BY <2>1, <2>2, <2>4
<1> QED
  BY <1>1, <1>6, <1>7, <1>9, <1>11, <1>12

LEMMA StreamCut ==
    ASSUME NEW frames \in Seq(Seq(Byte)), NEW k, NEW bytes \in Seq(Byte), NEW slack,
           NEW whole \in BOOLEAN, Stream(frames, k, bytes, slack, whole),
           NEW n \in 0 .. Len(bytes)
    PROVE  /\ Slice(bytes, 0, n) \in Seq(Byte)
           /\ Stream(frames, k, Slice(bytes, 0, n), slack, FALSE)
<1>1. k \in 0 .. Len(frames)
  BY DEF Stream
<1>2. PICK e : Framed(frames, e) /\ Prefix(bytes, e[k]) /\ Len(e[Len(frames)]) < slack
  BY DEF Stream
<1>3. e[k] \in Seq(Byte)
  BY <1>1, <1>2 DEF Framed
<1>4. Slice(bytes, 0, n) \in Seq(Byte) /\ Prefix(Slice(bytes, 0, n), e[k])
  BY <1>2, <1>3, PrefixCut
<1> QED
  BY <1>1, <1>2, <1>4 DEF Stream

LEMMA StreamWeaker ==
    ASSUME NEW frames, NEW k, NEW bytes, NEW slack, NEW whole \in BOOLEAN,
           Stream(frames, k, bytes, slack, whole), NEW all \in BOOLEAN, all => whole
    PROVE  Stream(frames, k, bytes, slack, all)
<1>1. k \in 0 .. Len(frames)
  BY DEF Stream
<1>2. PICK e : /\ Framed(frames, e)
               /\ Prefix(bytes, e[k])
               /\ Len(e[Len(frames)]) < slack
               /\ whole => e[Len(frames)] = <<>> /\ bytes = e[k]
  BY DEF Stream
<1>3. all => e[Len(frames)] = <<>> /\ bytes = e[k]
  BY <1>2
<1> QED
  BY <1>1, <1>2, <1>3 DEF Stream

-----------------------------------------------------------------------------
(* What was received is the beginning of what was sent *)

FirstOf(a, b) == Len(a) =< Len(b) /\ \A i \in 1 .. Len(a) : a[i] = b[i]

LEMMA FirstOfSent ==
    ASSUME NEW S, NEW T, NEW a \in Seq(S), NEW b \in Seq(T), FirstOf(a, b), NEW x
    PROVE  FirstOf(a, Append(b, x))
<1>1. /\ Len(a) \in Nat /\ Len(b) \in Nat
      /\ Len(a) =< Len(b) /\ \A i \in 1 .. Len(a) : a[i] = b[i]
  BY LenProperties DEF FirstOf
<1>2. b \in Seq(T \cup {x})
  BY ElementOfSeq, LenProperties
<1>3. Len(Append(b, x)) = Len(b) + 1 /\ \A i \in 1 .. Len(b) : Append(b, x)[i] = b[i]
  BY <1>2, AppendProperties
<1> QED
  BY <1>1, <1>3 DEF FirstOf

LEMMA FirstOfTaken ==
    ASSUME NEW S, NEW T, NEW a \in Seq(S), NEW b \in Seq(T), FirstOf(a, b),
           Len(a) + 1 \in 1 .. Len(b), NEW x \in S, x = b[Len(a) + 1]
    PROVE  FirstOf(Append(a, x), b)
<1>1. /\ Len(a) \in Nat /\ Len(b) \in Nat
      /\ Len(a) =< Len(b) /\ \A i \in 1 .. Len(a) : a[i] = b[i]
  BY LenProperties DEF FirstOf
<1>2. /\ Len(Append(a, x)) = Len(a) + 1
      /\ Append(a, x)[Len(a) + 1] = x
      /\ \A i \in 1 .. Len(a) : Append(a, x)[i] = a[i]
  BY AppendProperties
<1>3. \A i \in 1 .. Len(a) + 1 : i \in 1 .. Len(a) \/ i = Len(a) + 1
  BY <1>1
<1> QED
  BY <1>1, <1>2, <1>3 DEF FirstOf

\* The bytes of each message of a sequence; bytesOf[m] are those of m.
FramesBy(bytesOf, s) == [i \in 1 .. Len(s) |-> bytesOf[s[i]]]

LEMMA FramesAppend ==
    ASSUME NEW S, NEW bytesOf \in [S -> Seq(Byte)], NEW s \in Seq(S)
    PROVE  /\ FramesBy(bytesOf, s) \in Seq(Seq(Byte)) /\ Len(FramesBy(bytesOf, s)) = Len(s)
           /\ \A i \in 1 .. Len(s) : FramesBy(bytesOf, s)[i] = bytesOf[s[i]] /\ s[i] \in S
           /\ \A r \in S : FramesBy(bytesOf, Append(s, r)) = Append(FramesBy(bytesOf, s), bytesOf[r])
<1>1. PICK n \in Nat : n = Len(s)
  BY LenProperties
<1>2. \A i \in 1 .. n : s[i] \in S /\ bytesOf[s[i]] \in Seq(Byte)
  BY <1>1, ElementOfSeq
<1>3. PICK f : f = [i \in 1 .. n |-> bytesOf[s[i]]]
  OBVIOUS
<1>4. f = FramesBy(bytesOf, s)
  BY <1>1, <1>3 DEF FramesBy
<1>5. f \in Seq(Seq(Byte)) /\ Len(f) = n /\ \A i \in 1 .. n : f[i] = bytesOf[s[i]]
  BY <1>2, <1>3
<1>6. ASSUME NEW r \in S
      PROVE  FramesBy(bytesOf, Append(s, r)) = Append(f, bytesOf[r])
  <2>1. PICK t : t = Append(s, r)
    OBVIOUS
  <2>2. /\ t \in Seq(S) /\ Len(t) = n + 1 /\ t[n + 1] = r
        /\ \A i \in 1 .. n : t[i] = s[i]
    BY <1>1, <2>1, AppendProperties
  <2>3. PICK last \in Seq(Byte) : last = bytesOf[r]
    OBVIOUS
  <2>4. PICK g \in Seq(Seq(Byte)) : g = Append(f, last)
    BY <1>5, AppendProperties
  <2>5. Len(g) = n + 1 /\ g[n + 1] = last /\ \A i \in 1 .. n : g[i] = f[i]
    BY <1>5, <2>4, AppendProperties
  <2>6. \A i \in 1 .. n + 1 : i \in 1 .. n \/ i = n + 1
    OBVIOUS
  <2>7. \A i \in 1 .. n + 1 : bytesOf[t[i]] = g[i]
    BY <1>5, <2>2, <2>3, <2>5, <2>6
  <2>8. \A i \in 1 .. n + 1 : g[i] \in Seq(Byte)
    BY <2>4, <2>5, ElementOfSeq
  <2>9. PICK h : h = FramesBy(bytesOf, t)
    OBVIOUS
  <2>10. h = [i \in 1 .. n + 1 |-> bytesOf[t[i]]]
    BY <2>2, <2>9 DEF FramesBy
  <2>11. h = [i \in 1 .. n + 1 |-> g[i]]
    BY <2>7, <2>10, Zenon
  <2>12. n + 1 \in Nat
    OBVIOUS
  <2>13. h \in Seq(Seq(Byte)) /\ Len(h) = n + 1 /\ \A i \in 1 .. n + 1 : h[i] = g[i]
    BY <2>8, <2>11, <2>12
  <2>14. h = g
    BY <2>4, <2>5, <2>13, SeqEqual
  <2> QED
    BY <2>1, <2>3, <2>4, <2>9, <2>14
<1> QED
  BY <1>1, <1>2, <1>4, <1>5, <1>6

-----------------------------------------------------------------------------
(* Requests on the connection *)

\* A sequence of bytes is what comes before an offset and what comes after it.
LEMMA SplitAt ==
    ASSUME NEW s \in Seq(Byte), NEW n \in Nat, n =< Len(s)
    PROVE  /\ Slice(s, 0, n) \in Seq(Byte) /\ Len(Slice(s, 0, n)) = n
           /\ Slice(s, n, Len(s) - n) \in Seq(Byte)
           /\ Len(Slice(s, n, Len(s) - n)) = Len(s) - n
           /\ s = Slice(s, 0, n) \o Slice(s, n, Len(s) - n)
<1>1. PICK m \in Nat : m = Len(s) - n
  BY LenProperties
<1>2. PICK a : a = Slice(s, 0, n)
  OBVIOUS
<1>3. PICK b : b = Slice(s, n, m)
  OBVIOUS
<1>4. Len(s) = n + m /\ n + m =< Len(s) /\ 0 + n =< Len(s) /\ 0 \in Nat
  BY <1>1, LenProperties
<1>5. /\ a \in Seq(Byte) /\ Len(a) = n
      /\ \A i \in 1 .. n : a[i] = s[0 + i]
  BY <1>2, <1>4, SliceIsBytes
<1>6. /\ b \in Seq(Byte) /\ Len(b) = m
      /\ \A i \in 1 .. m : b[i] = s[n + i]
  BY <1>3, <1>4, SliceIsBytes
<1>7. PICK ab \in Seq(Byte) : ab = a \o b
  BY <1>5, <1>6, Joined
<1>8. /\ Len(ab) = n + m
      /\ \A i \in 1 .. n + m : ab[i] = IF i =< n THEN a[i] ELSE b[i - n]
  <2>1. a \in Seq(Byte) /\ b \in Seq(Byte)
    BY <1>5, <1>6
  <2>2. /\ Len(a \o b) = Len(a) + Len(b)
        /\ \A i \in 1 .. Len(a) + Len(b) :
              (a \o b)[i] = IF i =< Len(a) THEN a[i] ELSE b[i - Len(a)]
    BY <2>1, ConcatProperties
  <2> QED
    BY <1>5, <1>6, <1>7, <2>2
<1>9. ASSUME NEW i \in 1 .. n + m
      PROVE  ab[i] = s[i]
  <2>1. CASE i =< n
    BY <1>5, <1>8, <2>1
  <2>2. CASE i > n
    <3>1. i - n \in 1 .. m /\ n + (i - n) = i
      BY <1>1, <2>2
    <3> QED
      BY <1>6, <1>8, <2>2, <3>1
  <2> QED
    BY <2>1, <2>2
<1>10. ab = s
  BY <1>4, <1>8, <1>9, SeqEqual
<1> QED
  BY <1>1, <1>2, <1>3, <1>5, <1>6, <1>7, <1>10

Sendable == Requests \cup {Disconnect}

LEMMA DisconnectIsBuilt ==
    Disconnect \in RequestRecords /\ WellBuilt(Disconnect)
<1>1. /\ Codes.DISCONNECT = 130 /\ 130 \in U16 /\ 0 \in U16 /\ 0 \in U32
  BY SMT DEF Codes, U16, U32, Byte
<1>2. /\ Zeros(UniqueIdLen) \in Bytes(UniqueIdLen)
      /\ Zeros(RsaKeyLen) \in Bytes(RsaKeyLen)
  BY DEF Zeros, Bytes, Byte
<1>3. <<>> \in Seq(Byte) /\ Len(<<>>) = 0 /\ DOMAIN <<>> = {}
  BY EmptySeq
<1>4. Disconnect \in RequestRecords
  BY <1>1, <1>2, <1>3 DEF Disconnect, Blank, RequestRecords
<1>5. \A width \in Nat \ {0} : Fits(<<>>, width)
  BY <1>3 DEF Fits
<1>6. Disconnect.username = <<>> /\ Disconnect.fileName = <<>> /\ Disconnect.chunk = <<>>
  BY DEF Disconnect, Blank
<1> QED
  BY <1>4, <1>5, <1>6, Constants DEF WellBuilt

LEMMA SendableIsBuilt ==
    ASSUME NEW r \in Sendable
    PROVE  /\ r \in RequestRecords /\ WellBuilt(r)
           /\ DeclaredSize(r) \in U32 /\ DeclaredSize(r) \in Nat
           /\ r \in Requests <=> r.code # Codes.DISCONNECT
           /\ r # Disconnect => r \in Requests
<1>1. r \in RequestRecords /\ WellBuilt(r)
  BY DisconnectIsBuilt, TransportAssumption DEF Sendable
<1>2. DeclaredSize(r) \in U32
  BY TransportAssumption DEF Sendable
<1>3. Disconnect.code = Codes.DISCONNECT
  BY DEF Disconnect, Blank
<1>4. DeclaredSize(r) \in Nat
  BY <1>2 DEF U32
<1> QED
  BY <1>1, <1>2, <1>3, <1>4, TransportAssumption DEF Sendable

\* What the server takes off the connection for a request: all that serialize
\* writes, or, of a DISCONNECT, all but the last eight bytes.
Seen(r) == Slice(Serialize(r), 0, RequestHeaderLen + DeclaredSize(r))

LEMMA SeenBytes ==
    ASSUME NEW r \in Sendable
    PROVE  /\ Seen(r) \in Seq(Byte) /\ Serialize(r) \in Seq(Byte)
           /\ Len(Seen(r)) = RequestHeaderLen + DeclaredSize(r)
           /\ r \in Requests => Seen(r) = Serialize(r)
           /\ \E rest \in Seq(Byte) : /\ Serialize(r) = Seen(r) \o rest
                                      /\ Len(rest) < RequestHeaderLen
           /\ Slice(Seen(r), UniqueIdLen + 1, 2) = Host16(r.code)
           /\ Slice(Seen(r), UniqueIdLen + 3, 4) = Host32(DeclaredSize(r))
<1>1. PICK n \in Nat : n = RequestHeaderLen + DeclaredSize(r)
  BY SendableIsBuilt, Constants DEF RequestHeaderLen
<1>2. PICK data : data = Serialize(r)
  OBVIOUS
<1>3. PICK head : head = Header(r)
  OBVIOUS
<1>4. PICK pay : pay = Payload(r)
  OBVIOUS
<1>5. /\ head \in Seq(Byte) /\ Len(head) = UniqueIdLen + 7
      /\ Slice(head, UniqueIdLen + 1, 2) = Host16(r.code)
      /\ Slice(head, UniqueIdLen + 3, 4) = Host32(DeclaredSize(r))
  BY <1>3, SendableIsBuilt, HeaderFields
<1>6. /\ pay \in Seq(Byte)
      /\ Len(pay) = DeclaredSize(r) + (IF r.code = Codes.DISCONNECT THEN 8 ELSE 0)
  BY <1>4, SendableIsBuilt, PayloadLen, DeclaredSizes
<1>7. RequestHeaderLen = UniqueIdLen + 7 /\ RequestHeaderLen > 8
  BY Constants DEF RequestHeaderLen
<1>8. data = head \o pay
  BY <1>2, <1>3, <1>4 DEF Serialize
<1>9. /\ data \in Seq(Byte)
      /\ Len(data) = n + (IF r.code = Codes.DISCONNECT THEN 8 ELSE 0)
  <2>1. data \in Seq(Byte) /\ Len(data) = Len(head) + Len(pay)
    BY <1>5, <1>6, <1>8, Joined
  <2>2. PICK d \in Nat : d = DeclaredSize(r)
    BY SendableIsBuilt
  <2>3. PICK extra \in Nat : extra = IF r.code = Codes.DISCONNECT THEN 8 ELSE 0
    OBVIOUS
  <2>4. Len(data) = UniqueIdLen + 7 + (d + extra) /\ n = UniqueIdLen + 7 + d
    BY <1>1, <1>5, <1>6, <1>7, <2>1, <2>2, <2>3
  <2>5. Len(data) = n + extra
    BY <2>4, Constants
  <2> QED
    BY <2>1, <2>3, <2>5
<1>10. n =< Len(data) /\ Len(data) - n < RequestHeaderLen
  BY <1>7, <1>9
<1>11. /\ Slice(data, 0, n) \in Seq(Byte) /\ Len(Slice(data, 0, n)) = n
       /\ Slice(data, n, Len(data) - n) \in Seq(Byte)
       /\ Len(Slice(data, n, Len(data) - n)) = Len(data) - n
       /\ data = Slice(data, 0, n) \o Slice(data, n, Len(data) - n)
  BY <1>9, <1>10, SplitAt
<1>12. Seen(r) = Slice(data, 0, n)
  BY <1>1, <1>2 DEF Seen
<1>13. r \in Requests => Seen(r) = data
  <2>1. SUFFICES ASSUME r \in Requests
                 PROVE  Seen(r) = data
    OBVIOUS
  <2>2. r.code # Codes.DISCONNECT
    BY <2>1, TransportAssumption
  <2>3. n = Len(data)
    BY <1>9, <2>2
  <2> QED
    BY <1>9, <1>12, <2>3, SliceWhole
<1>14. ASSUME NEW at \in Nat, NEW m \in Nat, at + m =< UniqueIdLen + 7
       PROVE  Slice(Seen(r), at, m) = Slice(head, at, m)
  <2>1. 0 + n =< Len(data) /\ 0 \in Nat /\ at + m =< n /\ 0 + at = at /\ at + m =< Len(head)
    BY <1>1, <1>5, <1>7, <1>10, <1>14, SendableIsBuilt, Constants
  <2>2. \A o \in Nat : o + n =< Len(data) =>
            Slice(data, o + at, m) = Slice(Slice(data, o, n), at, m)
    BY <1>9, <2>1, SliceOfSlice
  <2>3. Slice(data, at, m) = Slice(head, at, m)
    BY <1>5, <1>6, <1>8, <2>1, SliceOfFirst
  <2> QED
    BY <1>12, <2>1, <2>2, <2>3
<1>15. /\ Slice(Seen(r), UniqueIdLen + 1, 2) = Slice(head, UniqueIdLen + 1, 2)
       /\ Slice(Seen(r), UniqueIdLen + 3, 4) = Slice(head, UniqueIdLen + 3, 4)
  <2>1. /\ UniqueIdLen + 1 \in Nat /\ 2 \in Nat /\ UniqueIdLen + 1 + 2 =< UniqueIdLen + 7
        /\ UniqueIdLen + 3 \in Nat /\ 4 \in Nat /\ UniqueIdLen + 3 + 4 =< UniqueIdLen + 7
    BY Constants
  <2> QED
    BY <1>14, <2>1
<1>16. \E rest \in Seq(Byte) : data = Seen(r) \o rest /\ Len(rest) < RequestHeaderLen
  BY <1>10, <1>11, <1>12
<1> QED
  BY <1>1, <1>2, <1>5, <1>9, <1>11, <1>12, <1>13, <1>15, <1>16

\* A server on whose connection at least the header of a request has arrived knows
\* how many bytes to wait for.
LEMMA SizeIsSeen ==
    ASSUME LittleEndian, NEW r \in Sendable, NEW t \in Seq(Byte), NEW ft, ft = Seen(r) \o t,
           NEW s \in Seq(Byte), Prefix(s, ft), RequestHeaderLen =< Len(s)
    PROVE  RequestHeaderLen + ClaimedSize(s) = Len(Seen(r))
<1>1. PICK f \in Seq(Byte) : f = Seen(r)
  BY SeenBytes
<1>2. /\ Len(f) = RequestHeaderLen + DeclaredSize(r)
      /\ Slice(f, UniqueIdLen + 3, 4) = Host32(DeclaredSize(r))
      /\ DeclaredSize(r) \in U32 /\ DeclaredSize(r) \in Nat
  BY <1>1, SeenBytes, SendableIsBuilt
<1>3. /\ UniqueIdLen + 3 \in Nat /\ 4 \in Nat
      /\ UniqueIdLen + 3 + 4 =< Len(s) /\ UniqueIdLen + 3 + 4 =< Len(f)
  BY <1>2, Constants, LenProperties DEF RequestHeaderLen
<1>4. Slice(s, UniqueIdLen + 3, 4) = Slice(ft, UniqueIdLen + 3, 4)
  <2>1. ft \in Seq(Byte)
    BY <1>1, Joined
  <2>2. PICK at \in Nat : at = UniqueIdLen + 3
    BY <1>3
  <2>3. at + 4 =< Len(s) /\ 4 \in Nat
    BY <1>3, <2>2
  <2>4. Slice(s, at, 4) = Slice(ft, at, 4)
    BY ONLY <2>1, <2>2, <2>3, PrefixSlice, s \in Seq(Byte), Prefix(s, ft)
  <2> QED
    BY <2>2, <2>4
<1>5. Slice(ft, UniqueIdLen + 3, 4) = Slice(f, UniqueIdLen + 3, 4)
  BY <1>1, <1>3, SliceOfFirst
<1>6. FromLittle32(Host32(DeclaredSize(r))) = DeclaredSize(r)
  BY <1>2, Numbers32 DEF Host32
<1>7. ClaimedSize(s) = DeclaredSize(r)
  BY <1>2, <1>4, <1>5, <1>6 DEF ClaimedSize, Read32
<1> QED
  BY <1>1, <1>2, <1>7

LEMMA SeenIsRead ==
    ASSUME LittleEndian, NEW r \in Sendable
    PROVE  ReadRequest(Seen(r)) = r
<1>1. CASE r \in Requests
  BY <1>1, SeenBytes, SendableIsBuilt, RequestRoundTrip
<1>2. CASE r \notin Requests
  <2>1. r = Disconnect /\ r.code = Codes.DISCONNECT
    BY <1>2, SendableIsBuilt
  <2>2. Len(Seen(r)) < ChunkAt
    <3>1. DeclaredSize(r) = DisconnectPayloadSize
      BY <2>1 DEF DeclaredSize, Codes
    <3> QED
      BY <3>1, SeenBytes, Constants
         DEF ChunkAt, FileNameAt, NumbersAt, NumbersLen, DisconnectPayloadSize, RequestHeaderLen
  <2>3. Read16(Seen(r), UniqueIdLen + 1) = r.code
    <3>1. r.code \in U16
      BY SendableIsBuilt, RequestFields
    <3>2. FromLittle16(Host16(r.code)) = r.code
      BY <3>1, Numbers16 DEF Host16
    <3> QED
      BY <3>2, SeenBytes DEF Read16
  <2> QED
    BY <2>1, <2>2, <2>3 DEF ReadRequest, Disconnect
<1> QED
  BY <1>1, <1>2

SeenOf == [r \in Sendable |-> Seen(r)]

Frames(s) == FramesBy(SeenOf, s)

LEMMA FramesOfSent ==
    ASSUME NEW s \in Seq(Sendable)
    PROVE  /\ Frames(s) \in Seq(Seq(Byte)) /\ Len(Frames(s)) = Len(s)
           /\ \A i \in 1 .. Len(s) : Frames(s)[i] = Seen(s[i])
           /\ \A r \in Sendable : Frames(Append(s, r)) = Append(Frames(s), Seen(r))
<1>1. SeenOf \in [Sendable -> Seq(Byte)]
  BY SeenBytes DEF SeenOf
<1>2. /\ Frames(s) \in Seq(Seq(Byte)) /\ Len(Frames(s)) = Len(s)
      /\ \A i \in 1 .. Len(s) : Frames(s)[i] = SeenOf[s[i]] /\ s[i] \in Sendable
      /\ \A r \in Sendable : Frames(Append(s, r)) = Append(Frames(s), SeenOf[r])
  BY <1>1, FramesAppend DEF Frames
<1>3. \A r \in Sendable : SeenOf[r] = Seen(r)
  BY DEF SeenOf
<1> QED
  BY <1>2, <1>3

-----------------------------------------------------------------------------
(* The server takes what the client sent *)

TypeServer ==
    /\ sent \in Seq(Sendable) /\ served \in Seq(Sendable)
    /\ toServer \in Seq(Byte) /\ link \in {"up", "cut"}

\* The bytes that have arrived are a beginning of the requests that the server did
\* not read yet, and all of them while the connection stands. Nothing but the end
\* of a DISCONNECT follows them: less than a header.
InvServer ==
    /\ FirstOf(served, sent)
    /\ Stream(Frames(sent), Len(served), toServer, RequestHeaderLen, link = "up")

LEMMA WriteStep ==
    ASSUME TypeServer, InvServer, link = "up", NEW r \in Sendable, Write(r),
           UNCHANGED served, link' \in {"up", "cut"}, link' = "up" => r \in Requests
    PROVE  TypeServer' /\ InvServer'
<1>1. /\ sent' \in Seq(Sendable) /\ sent' = Append(sent, r)
      /\ Frames(sent') = Append(Frames(sent), Seen(r))
      /\ Frames(sent) \in Seq(Seq(Byte))
  BY FramesOfSent, AppendProperties DEF TypeServer, Write
<1>2. /\ Serialize(r) \in Seq(Byte) /\ Seen(r) \in Seq(Byte)
      /\ r \in Requests => Seen(r) = Serialize(r)
  BY SeenBytes
<1>3. PICK rest \in Seq(Byte) : Serialize(r) = Seen(r) \o rest /\ Len(rest) < RequestHeaderLen
  BY SeenBytes
<1>4. toServer' = toServer \o Serialize(r) /\ toServer' \in Seq(Byte)
  BY <1>2, Joined DEF Write, TypeServer
<1>5. r \in Requests => rest = <<>>
  <2>1. SUFFICES ASSUME r \in Requests
                 PROVE  Len(rest) = 0
    BY EmptySeq
  <2>2. Len(Serialize(r)) = Len(Seen(r)) + Len(rest) /\ Len(Seen(r)) \in Nat
        /\ Len(rest) \in Nat
    BY <1>2, <1>3, Joined
  <2> QED
    BY <1>2, <2>1, <2>2
<1>6. Stream(Frames(sent), Len(served), toServer, RequestHeaderLen, TRUE)
  <2>1. TRUE => link = "up"
    OBVIOUS
  <2>2. Stream(Frames(sent), Len(served), toServer, RequestHeaderLen, link = "up")
    BY DEF InvServer
  <2> QED
    BY <2>1, <2>2, StreamWeaker
<1>7. RequestHeaderLen \in Nat
  BY Constants DEF RequestHeaderLen
<1>8. Stream(Append(Frames(sent), Seen(r)), Len(served), toServer', RequestHeaderLen, rest = <<>>)
  BY <1>1, <1>2, <1>3, <1>4, <1>6, <1>7, StreamPut
<1>9. link' = "up" => rest = <<>>
  BY <1>5
<1>10. Stream(Frames(sent'), Len(served'), toServer', RequestHeaderLen, link' = "up")
  BY <1>1, <1>8, <1>9, StreamWeaker
<1>11. FirstOf(served', sent')
  BY <1>1, FirstOfSent DEF TypeServer, InvServer
<1> QED
  BY <1>1, <1>4, <1>10, <1>11 DEF TypeServer, InvServer

LEMMA TakeStep ==
    ASSUME LittleEndian, TypeServer, InvServer, TakeRequest, UNCHANGED <<sent, link>>
    PROVE  /\ TypeServer' /\ InvServer'
           /\ Len(served) < Len(sent)
           /\ served' = Append(served, sent[Len(served) + 1])
           /\ Incoming = sent[Len(served) + 1]
<1>1. PICK k \in Nat : k = Len(served)
  BY LenProperties DEF TypeServer
<1>2. PICK frames \in Seq(Seq(Byte)) : frames = Frames(sent)
  BY FramesOfSent DEF TypeServer
<1>3. /\ Stream(frames, k, toServer, RequestHeaderLen, link = "up")
      /\ Len(frames) = Len(sent) /\ Len(sent) \in Nat
      /\ \A i \in 1 .. Len(sent) : frames[i] = Seen(sent[i])
  BY <1>1, <1>2, FramesOfSent, LenProperties DEF TypeServer, InvServer
<1>4. /\ RequestHeaderLen \in Nat /\ RequestHeaderLen =< Len(toServer)
      /\ toServer \in Seq(Byte) /\ (link = "up") \in BOOLEAN
  BY Constants DEF RequestHeaderLen, TakeRequest, RequestArrived, TypeServer
<1>5. k + 1 \in 1 .. Len(frames)
  BY <1>3, <1>4, StreamTake
<1>6. PICK r \in Sendable : r = sent[k + 1]
  BY <1>3, <1>5, ElementOfSeq DEF TypeServer
<1>7. PICK f \in Seq(Byte), t \in Seq(Byte) :
         /\ f = frames[k + 1] /\ Prefix(toServer, f \o t)
         /\ Len(f) =< Len(toServer) =>
               /\ Slice(toServer, 0, Len(f)) = f
               /\ Slice(toServer, Len(f), Len(toServer) - Len(f)) \in Seq(Byte)
               /\ Stream(frames, k + 1, Slice(toServer, Len(f), Len(toServer) - Len(f)),
                         RequestHeaderLen, link = "up")
  BY <1>3, <1>4, StreamTake
<1>8. f = Seen(r)
  BY <1>3, <1>5, <1>6, <1>7
<1>9. PICK n \in Nat : n = Len(f)
  BY LenProperties
<1>10. RequestHeaderLen + ClaimedSize(toServer) = n
  BY <1>4, <1>7, <1>8, <1>9, SizeIsSeen
<1>11. n =< Len(toServer)
  BY <1>10 DEF TakeRequest, RequestArrived
<1>12. /\ Slice(toServer, 0, n) = Seen(r)
       /\ Slice(toServer, n, Len(toServer) - n) \in Seq(Byte)
       /\ Stream(frames, k + 1, Slice(toServer, n, Len(toServer) - n),
                 RequestHeaderLen, link = "up")
  BY <1>7, <1>8, <1>9, <1>11
<1>13. Incoming = r
  BY <1>10, <1>12, SeenIsRead DEF Incoming
<1>14. /\ served' = Append(served, r)
       /\ toServer' = Slice(toServer, n, Len(toServer) - n)
  BY <1>10, <1>13 DEF TakeRequest
<1>15. served' \in Seq(Sendable) /\ Len(served') = k + 1
  BY <1>1, <1>14, AppendProperties DEF TypeServer
<1>16. FirstOf(served', sent)
  BY <1>1, <1>3, <1>5, <1>6, <1>14, FirstOfTaken DEF TypeServer, InvServer
<1>17. TypeServer'
  BY <1>12, <1>14, <1>15 DEF TypeServer
<1>18. InvServer'
  BY <1>2, <1>12, <1>14, <1>15, <1>16 DEF InvServer
<1> QED
  BY <1>1, <1>3, <1>5, <1>6, <1>13, <1>14, <1>17, <1>18

LEMMA CutStepServer ==
    ASSUME TypeServer, InvServer, link' = "cut", UNCHANGED <<sent, served>>,
           NEW n \in 0 .. Len(toServer), toServer' = Slice(toServer, 0, n)
    PROVE  TypeServer' /\ InvServer'
<1>1. /\ Frames(sent) \in Seq(Seq(Byte)) /\ toServer \in Seq(Byte)
      /\ Stream(Frames(sent), Len(served), toServer, RequestHeaderLen, link = "up")
      /\ (link = "up") \in BOOLEAN
  BY FramesOfSent DEF TypeServer, InvServer
<1>2. /\ Slice(toServer, 0, n) \in Seq(Byte)
      /\ Stream(Frames(sent), Len(served), Slice(toServer, 0, n), RequestHeaderLen, FALSE)
  BY <1>1, StreamCut
<1>3. Stream(Frames(sent), Len(served), Slice(toServer, 0, n), RequestHeaderLen, link' = "up")
  BY <1>2, StreamWeaker
<1> QED
  BY <1>2, <1>3 DEF TypeServer, InvServer

\* The other actions touch none of this, or only cut the connection.
LEMMA OtherStepServer ==
    ASSUME TypeServer, InvServer, UNCHANGED <<sent, served, toServer, link>>
    PROVE  TypeServer' /\ InvServer'
BY DEF TypeServer, InvServer

-----------------------------------------------------------------------------
(* Responses *)

LEMMA LoadedNumbers ==
    ASSUME NEW b \in Seq(Byte)
    PROVE  /\ Len(b) = 2 => Load16(Ntohs(b)) \in U16
           /\ Len(b) = 4 => Load32(Ntohl(b)) \in U32
<1>1. ASSUME NEW w \in Byte, NEW x \in Byte
      PROVE  w + (256 * x) \in U16
  BY SMT DEF Byte, U16
<1>2. ASSUME NEW w \in Byte, NEW x \in Byte, NEW y \in Byte, NEW z \in Byte
      PROVE  w + (256 * x) + (65536 * y) + (16777216 * z) \in U32
  BY SMT DEF Byte, U32
<1>3. ASSUME Len(b) = 2
      PROVE  Load16(Ntohs(b)) \in U16
  <2>1. b[1] \in Byte /\ b[2] \in Byte
    BY <1>3, ElementOfSeq
  <2>2. Load16(Ntohs(b)) = b[2] + (256 * b[1])
    BY DEF Load16, Ntohs, FromLittle16
  <2> QED
    BY <1>1, <2>1, <2>2
<1>4. ASSUME Len(b) = 4
      PROVE  Load32(Ntohl(b)) \in U32
  <2>1. b[1] \in Byte /\ b[2] \in Byte /\ b[3] \in Byte /\ b[4] \in Byte
    <3>1. \A i \in 1 .. 4 : b[i] \in Byte
      BY <1>4, ElementOfSeq
    <3> QED
      BY <3>1
  <2>2. Load32(Ntohl(b)) = b[4] + (256 * b[3]) + (65536 * b[2]) + (16777216 * b[1])
    BY DEF Load32, Ntohl, FromLittle32
  <2> QED
    BY <1>2, <2>1, <2>2
<1> QED
  BY <1>3, <1>4

\* What deserialize lets pass is a response, with fields of the right widths.
LEMMA ParsedIsResponse ==
    ASSUME NEW data \in Seq(Byte), WellFormed(data)
    PROVE  Parsed(data) \in Responses
<1>1. PICK size \in U32 : size = PayloadSize(data)
  <2>1. 3 \in Nat /\ 4 \in Nat /\ 3 + 4 =< Len(data)
    BY LenProperties DEF WellFormed, Available, ResponseHeaderLen
  <2>2. Slice(data, 3, 4) \in Seq(Byte) /\ Len(Slice(data, 3, 4)) = 4
    BY <2>1, SliceIsBytes
  <2>3. PayloadSize(data) = Load32(Ntohl(Slice(data, 3, 4)))
    BY DEF PayloadSize, PayloadSizeAt
  <2> QED
    BY <2>2, <2>3, LoadedNumbers
<1>2. PICK k \in Nat : size = FixedResponsePayload + k /\ KeyLen(size) = k
  <2>1. size \in Nat /\ FixedResponsePayload \in Nat
    BY Constants DEF U32, FixedResponsePayload
  <2>2. size >= FixedResponsePayload
    BY <1>1 DEF WellFormed
  <2> QED
    BY <2>1, <2>2 DEF KeyLen
<1>3. /\ Len(data) \in Nat /\ Len(data) >= 7 + (UniqueIdLen + 4 + FileNameLen + 4 + k)
      /\ UniqueIdLen \in Nat /\ FileNameLen \in Nat
  BY <1>1, <1>2, Constants, LenProperties DEF WellFormed, FixedResponsePayload, ResponseHeaderLen
<1>4. /\ UidAt = 7 /\ KeyAt = 7 + UniqueIdLen
      /\ SizeAt(size) = 7 + UniqueIdLen + k
      /\ NameAt(size) = 7 + UniqueIdLen + k + 4
      /\ SumAt(size) = 7 + UniqueIdLen + k + 4 + FileNameLen
  BY <1>2, <1>3 DEF UidAt, KeyAt, SizeAt, NameAt, SumAt, ResponseHeaderLen
<1>5. \A at, n \in Nat : at + n =< Len(data) =>
         Slice(data, at, n) \in Seq(Byte) /\ Len(Slice(data, at, n)) = n
  BY SliceIsBytes
<1>6. /\ Slice(data, UidAt, UniqueIdLen) \in Seq(Byte)
      /\ Len(Slice(data, UidAt, UniqueIdLen)) = UniqueIdLen
  <2>1. 7 \in Nat /\ 7 + UniqueIdLen =< Len(data)
    BY <1>3
  <2> QED
    BY <1>3, <1>4, <1>5, <2>1
<1>7. Slice(data, KeyAt, KeyLen(size)) \in Seq(Byte)
  <2>1. 7 + UniqueIdLen \in Nat /\ 7 + UniqueIdLen + k =< Len(data)
    BY <1>3
  <2> QED
    BY <1>2, <1>4, <1>5, <2>1
<1>8. /\ Slice(data, SizeAt(size), 4) \in Seq(Byte)
      /\ Len(Slice(data, SizeAt(size), 4)) = 4
  <2>1. 7 + UniqueIdLen + k \in Nat /\ 7 + UniqueIdLen + k + 4 =< Len(data) /\ 4 \in Nat
    BY <1>3
  <2> QED
    BY <1>4, <1>5, <2>1
<1>9. /\ Slice(data, NameAt(size), FileNameLen) \in Seq(Byte)
      /\ Len(Slice(data, NameAt(size), FileNameLen)) = FileNameLen
  <2>1. 7 + UniqueIdLen + k + 4 \in Nat /\ 7 + UniqueIdLen + k + 4 + FileNameLen =< Len(data)
    BY <1>3
  <2> QED
    BY <1>3, <1>4, <1>5, <2>1
<1>10. /\ Slice(data, SumAt(size), 4) \in Seq(Byte)
       /\ Len(Slice(data, SumAt(size), 4)) = 4
  <2>1. /\ 7 + UniqueIdLen + k + 4 + FileNameLen \in Nat /\ 4 \in Nat
        /\ 7 + UniqueIdLen + k + 4 + FileNameLen + 4 =< Len(data)
    BY <1>3
  <2> QED
    BY <1>4, <1>5, <2>1
<1>11. Slice(data, 1, 2) \in Seq(Byte) /\ Len(Slice(data, 1, 2)) = 2
  <2>1. 1 \in Nat /\ 2 \in Nat /\ 1 + 2 =< Len(data)
    BY <1>3
  <2> QED
    BY <1>5, <2>1
<1>12. data[1] \in Byte
  BY <1>3, ElementOfSeq
<1>13. \A n \in Nat, f \in Seq(Byte) : Len(f) = n => f \in Bytes(n)
  BY ElementOfSeq, LenProperties DEF Bytes
<1>14. /\ Slice(data, UidAt, UniqueIdLen) \in Bytes(UniqueIdLen)
       /\ Slice(data, NameAt(size), FileNameLen) \in Bytes(FileNameLen)
  BY <1>3, <1>6, <1>9, <1>13
<1>15. /\ Load16(Ntohs(Slice(data, 1, 2))) \in U16
       /\ Load32(Ntohl(Slice(data, SizeAt(size), 4))) \in U32
       /\ Load32(Ntohl(Slice(data, SumAt(size), 4))) \in U32
  BY <1>8, <1>10, <1>11, LoadedNumbers
<1> QED
  BY <1>1, <1>7, <1>12, <1>14, <1>15 DEF Parsed, Responses

-----------------------------------------------------------------------------
(* The client takes what the server answered *)

\* A cut in the second part of a concatenation: the header's seven bytes come first.
LEMMA SliceAcross ==
    ASSUME NEW h \in Seq(Byte), NEW t \in Seq(Byte), NEW n \in 0 .. Len(t),
           Len(h) = 7
    PROVE  /\ Slice(h \o t, 0, 7 + n) = h \o Slice(t, 0, n)
           /\ Slice(h \o t, 7 + n, Len(h \o t) - (7 + n)) = Slice(t, n, Len(t) - n)
<1> DEFINE m == 7 + n
<1>1. n \in Nat /\ n =< Len(t) /\ Len(t) \in Nat /\ Len(h) \in Nat /\ Len(t) - n \in Nat
  BY LenProperties
<1>2. PICK a : a = Slice(t, 0, n)
  OBVIOUS
<1>3. PICK b : b = Slice(t, n, Len(t) - n)
  OBVIOUS
<1>4. a \in Seq(Byte) /\ Len(a) = n /\ b \in Seq(Byte) /\ t = a \o b
  BY <1>1, <1>2, <1>3, SplitAt
<1>5. PICK ha : ha = h \o a
  OBVIOUS
<1>6. ha \in Seq(Byte) /\ Len(ha) = m
  <2>1. ha \in Seq(Byte) /\ Len(ha) = Len(h) + Len(a)
    BY <1>4, <1>5, Joined, Zenon
  <2> QED
    BY <1>1, <1>4, <2>1
<1>7. h \o t = ha \o b
  <2>1. (h \o a) \o b = h \o (a \o b)
    BY <1>4, ConcatAssociative
  <2> QED
    BY <1>4, <1>5, <2>1
<1>8. Slice(ha \o b, 0, Len(ha)) = ha /\ Slice(ha \o b, Len(ha), Len(b)) = b
  BY <1>4, <1>6, Halves
<1>9. Len(ha \o b) - m = Len(b)
  <2>1. Len(ha \o b) = Len(ha) + Len(b) /\ Len(ha) \in Nat /\ Len(b) \in Nat
    BY <1>4, <1>6, Joined
  <2> QED
    BY <1>6, <2>1
<1> QED
  BY <1>2, <1>3, <1>5, <1>6, <1>7, <1>8, <1>9

LEMMA AnswerBytes ==
    ASSUME NEW r \in Answers
    PROVE  /\ r \in Responses /\ ResponseBytes(r) \in Seq(Byte)
           /\ Len(ResponsePayload(r)) \in Nat /\ Len(ResponsePayload(r)) > 0
           /\ Len(ResponseBytes(r)) = 7 + Len(ResponsePayload(r))
           /\ Load32(Ntohl(Slice(ResponseBytes(r), 3, 4))) = Len(ResponsePayload(r))
           /\ WellFormed(ResponseBytes(r)) /\ Deserialize(ResponseBytes(r)) = r
           /\ \A size \in WrongSizes : Claiming(r, size) \in Seq(Byte)
<1>1. r \in Responses /\ Len(ResponsePayload(r)) \in U32
  BY TransportAssumption
<1>2. PICK size \in U32 : size = Len(ResponsePayload(r))
  BY <1>1
<1>3. ResponseBytes(r) = Claiming(r, size)
  BY <1>2 DEF ResponseBytes
<1>4. /\ ResponseBytes(r) \in Seq(Byte)
      /\ Len(ResponseBytes(r)) = 7 + Len(ResponsePayload(r))
      /\ Slice(ResponseBytes(r), 3, 4) = Big32(size)
  BY <1>1, <1>3, FieldsOfResponse
<1>5. Load32(Ntohl(Big32(size))) = size
  BY Numbers32
<1>6. Len(ResponsePayload(r)) > 0 /\ Len(ResponsePayload(r)) \in Nat
  <2>1. Len(ResponsePayload(r)) = UniqueIdLen + Len(r.aesKey) + 4 + FileNameLen + 4
    BY <1>1, PayloadFields
  <2>2. Len(r.aesKey) \in Nat
    BY <1>1, ResponseFields
  <2> QED
    BY <2>1, <2>2, Constants
<1>7. \A w \in WrongSizes : Claiming(r, w) \in Seq(Byte)
  BY <1>1, FieldsOfResponse, TransportAssumption
<1>8. Deserialize(ResponseBytes(r)) = r
  BY <1>1, ResponseRoundTrip
<1>9. WellFormed(ResponseBytes(r))
  <2>1. r.ok = TRUE /\ Malformed.ok = FALSE
    BY <1>1 DEF Responses, Malformed
  <2> QED
    BY <1>8, <2>1 DEF Deserialize
<1> QED
  BY <1>1, <1>2, <1>4, <1>5, <1>6, <1>7, <1>8, <1>9

\* A client that has the header of a response knows how many bytes follow it.
LEMMA SizeIsKnown ==
    ASSUME NEW r \in Answers, NEW t \in Seq(Byte), NEW ft, ft = ResponseBytes(r) \o t,
           NEW s \in Seq(Byte), Prefix(s, ft), 7 =< Len(s)
    PROVE  Load32(Ntohl(Slice(s, 3, 4))) = Len(ResponsePayload(r))
<1>1. PICK f \in Seq(Byte) : f = ResponseBytes(r)
  BY AnswerBytes
<1>2. /\ Len(f) = 7 + Len(ResponsePayload(r)) /\ Len(ResponsePayload(r)) \in Nat
      /\ Load32(Ntohl(Slice(f, 3, 4))) = Len(ResponsePayload(r))
  BY <1>1, AnswerBytes
<1>3. 3 \in Nat /\ 4 \in Nat /\ 3 + 4 =< Len(s) /\ 3 + 4 =< Len(f)
  BY <1>2, LenProperties
<1>4. ft \in Seq(Byte)
  BY <1>1, Joined
<1>5. Slice(s, 3, 4) = Slice(ft, 3, 4)
  <2>1. \A at, n \in Nat : at + n =< Len(s) => Slice(s, at, n) = Slice(ft, at, n)
    BY <1>4, PrefixSlice
  <2> QED
    BY <1>3, <2>1
<1>6. Slice(ft, 3, 4) = Slice(f, 3, 4)
  <2>1. \A at, n \in Nat : at + n =< Len(f) => Slice(f \o t, at, n) = Slice(f, at, n)
    BY SliceOfFirst
  <2> QED
    BY <1>1, <1>3, <2>1
<1> QED
  BY <1>2, <1>5, <1>6

BytesOfAnswer == [r \in Answers |-> ResponseBytes(r)]

AnswerFrames(s) == FramesBy(BytesOfAnswer, s)

LEMMA FramesOfAnswered ==
    ASSUME NEW s \in Seq(Answers)
    PROVE  /\ AnswerFrames(s) \in Seq(Seq(Byte)) /\ Len(AnswerFrames(s)) = Len(s)
           /\ \A i \in 1 .. Len(s) : AnswerFrames(s)[i] = ResponseBytes(s[i])
           /\ \A r \in Answers :
                 AnswerFrames(Append(s, r)) = Append(AnswerFrames(s), ResponseBytes(r))
<1>1. BytesOfAnswer \in [Answers -> Seq(Byte)]
  BY AnswerBytes DEF BytesOfAnswer
<1>2. /\ AnswerFrames(s) \in Seq(Seq(Byte)) /\ Len(AnswerFrames(s)) = Len(s)
      /\ \A i \in 1 .. Len(s) : AnswerFrames(s)[i] = BytesOfAnswer[s[i]] /\ s[i] \in Answers
      /\ \A r \in Answers : AnswerFrames(Append(s, r)) = Append(AnswerFrames(s), BytesOfAnswer[r])
  <2>1. PICK f \in [Answers -> Seq(Byte)] : f = BytesOfAnswer
    BY <1>1
  <2>2. /\ FramesBy(f, s) \in Seq(Seq(Byte)) /\ Len(FramesBy(f, s)) = Len(s)
        /\ \A i \in 1 .. Len(s) : FramesBy(f, s)[i] = f[s[i]] /\ s[i] \in Answers
        /\ \A r \in Answers : FramesBy(f, Append(s, r)) = Append(FramesBy(f, s), f[r])
    BY FramesAppend
  <2> QED
    BY <2>1, <2>2 DEF AnswerFrames
<1>3. \A r \in Answers : BytesOfAnswer[r] = ResponseBytes(r)
  BY DEF BytesOfAnswer
<1> QED
  BY <1>2, <1>3

TypeClient ==
    /\ pc \in {"idle", "header", "payload", "threw", "closed"}
    /\ header \in {<<>>} \cup Bytes(ResponseHeaderLen)
    /\ pc = "payload" => header # <<>> /\ BytesToRead(header) > 0
    /\ got \in Seq(Responses)
    /\ toClient \in Seq(Byte)
    /\ answered \in Seq(Answers)
    /\ faults \in 0 .. MaxFaults

\* What is there to be read, the header that was read ahead of its payload included.
Arrived == IF pc = "payload" THEN header \o toClient ELSE toClient

\* As long as the client still reads and the server claims the right sizes, the bytes
\* to be read are a beginning of the responses that the client did not return yet.
InvClient ==
    faults = 0 /\ pc \in {"idle", "header", "payload"} =>
        /\ FirstOf(got, answered)
        /\ Stream(AnswerFrames(answered), Len(got), Arrived, 1, link = "up")

LEMMA HeaderIsBytes ==
    ASSUME TypeClient, pc = "payload"
    PROVE  /\ header \in Seq(Byte) /\ Len(header) = 7
           /\ BytesToRead(header) \in Nat /\ BytesToRead(header) > 0
           /\ BytesToRead(header) = Load32(Ntohl(Slice(header, 3, 4)))
<1>1. header \in Bytes(7)
  BY DEF TypeClient, ResponseHeaderLen
<1>2. header \in Seq(Byte) /\ Len(header) = 7
  BY <1>1, BytesAreSequences
<1>3. Slice(header, 3, 4) \in Seq(Byte) /\ Len(Slice(header, 3, 4)) = 4
  <2>1. 3 \in Nat /\ 4 \in Nat /\ 3 + 4 =< Len(header)
    BY <1>2
  <2> QED
    BY <1>2, <2>1, SliceIsBytes
<1>4. BytesToRead(header) = Load32(Ntohl(Slice(header, 3, 4)))
  BY DEF BytesToRead, PayloadSize, PayloadSizeAt
<1>5. BytesToRead(header) \in U32
  BY <1>3, <1>4, LoadedNumbers
<1> QED
  BY <1>2, <1>4, <1>5 DEF U32, TypeClient

LEMMA ArrivedIsBytes ==
    ASSUME TypeClient
    PROVE  Arrived \in Seq(Byte)
BY HeaderIsBytes, Joined DEF Arrived, TypeClient

LEMMA ReadHeaderStep ==
    ASSUME TypeClient, InvClient, ReadHeader
    PROVE  TypeClient' /\ InvClient'
<1>1. /\ toClient \in Seq(Byte) /\ 7 \in Nat /\ 7 =< Len(toClient)
      /\ header' = Slice(toClient, 0, 7) /\ toClient' = Slice(toClient, 7, Len(toClient) - 7)
  BY DEF ReadHeader, ResponseHeaderLen, TypeClient
<1>2. /\ header' \in Seq(Byte) /\ Len(header') = 7 /\ toClient' \in Seq(Byte)
      /\ toClient = header' \o toClient'
  BY <1>1, SplitAt
<1>3. header' \in Bytes(ResponseHeaderLen) /\ header' # <<>>
  <2>1. \A i \in 1 .. 7 : header'[i] \in Byte
    BY <1>2, ElementOfSeq
  <2>2. header' \in Bytes(7)
    BY <1>2, <2>1 DEF Bytes
  <2>3. Len(<<>>) = 0
    BY EmptySeq
  <2>4. ResponseHeaderLen = 7
    BY DEF ResponseHeaderLen
  <2>5. header' \in Bytes(ResponseHeaderLen)
    BY <2>2, <2>4, Zenon
  <2>6. header' # <<>>
    <3>1. ASSUME header' = <<>>
          PROVE  Len(header') = 0
      BY <2>3, <3>1, Zenon
    <3> QED
      BY <1>2, <3>1
  <2> QED
    BY <2>5, <2>6
<1>4. BytesToRead(header') \in U32
  <2>1. 3 \in Nat /\ 4 \in Nat /\ 3 + 4 =< Len(header')
    BY <1>2
  <2>2. Slice(header', 3, 4) \in Seq(Byte) /\ Len(Slice(header', 3, 4)) = 4
    BY <1>2, <2>1, SliceIsBytes
  <2> QED
    BY <2>2, LoadedNumbers DEF BytesToRead, PayloadSize, PayloadSizeAt
<1>5. /\ pc = "header" /\ UNCHANGED <<got, answered, faults, link>>
      /\ \/ pc' = "threw"
         \/ pc' = "payload" /\ BytesToRead(header') # 0
  BY DEF ReadHeader, Refuse, server
<1>6. TypeClient'
  BY <1>2, <1>3, <1>4, <1>5 DEF TypeClient, U32
<1>7. InvClient'
  <2>1. CASE pc' = "threw"
    BY <2>1 DEF InvClient
  <2>2. CASE pc' = "payload"
    <3>1. Arrived' = header' \o toClient' /\ Arrived = toClient
      BY <1>5, <2>2 DEF Arrived
    <3>2. Arrived' = Arrived
      BY <1>2, <3>1
    <3> QED
      BY <1>5, <2>2, <3>2 DEF InvClient
  <2> QED
    BY <1>5, <2>1, <2>2
<1> QED
  BY <1>6, <1>7

\* With the payload, what was read of the first response is all of it.
LEMMA PayloadIsAnswer ==
    ASSUME TypeClient, InvClient, ReadPayload, faults = 0,
           NEW count \in Nat, count = BytesToRead(header),
           NEW data, data = header \o Slice(toClient, 0, count)
    PROVE  /\ Len(got) + 1 \in 1 .. Len(answered)
           /\ FirstOf(got, answered)
           /\ data = ResponseBytes(answered[Len(got) + 1])
           /\ Stream(AnswerFrames(answered), Len(got) + 1, toClient', 1, link = "up")
<1>1. /\ toClient \in Seq(Byte) /\ header \in Seq(Byte) /\ Len(header) = 7
      /\ pc = "payload" /\ count \in 0 .. Len(toClient)
      /\ count = Load32(Ntohl(Slice(header, 3, 4)))
  BY HeaderIsBytes, LenProperties DEF ReadPayload, TypeClient
<1>2. toClient' = Slice(toClient, count, Len(toClient) - count)
  BY DEF ReadPayload
<1>3. PICK k \in Nat : k = Len(got)
  BY LenProperties DEF TypeClient
<1>4. PICK frames \in Seq(Seq(Byte)) : frames = AnswerFrames(answered)
  BY FramesOfAnswered DEF TypeClient
<1>5. PICK bytes : bytes = header \o toClient
  OBVIOUS
<1>6. /\ FirstOf(got, answered)
      /\ Stream(frames, k, bytes, 1, link = "up")
  BY <1>1, <1>3, <1>4, <1>5 DEF InvClient, Arrived
<1>7. /\ Len(frames) = Len(answered) /\ Len(answered) \in Nat
      /\ \A i \in 1 .. Len(answered) : frames[i] = ResponseBytes(answered[i])
  BY <1>4, FramesOfAnswered, LenProperties DEF TypeClient
<1>8. PICK m \in Nat : m = 7 + count
  OBVIOUS
<1>9. /\ Slice(bytes, 0, m) = data
      /\ Slice(bytes, m, Len(bytes) - m) = toClient'
  <2>1. PICK h \in Seq(Byte), t \in Seq(Byte) : h = header /\ t = toClient
    BY <1>1
  <2>2. count \in 0 .. Len(t) /\ Len(h) = 7
    BY <1>1, <2>1
  <2>3. /\ Slice(h \o t, 0, 7 + count) = h \o Slice(t, 0, count)
        /\ Slice(h \o t, 7 + count, Len(h \o t) - (7 + count))
              = Slice(t, count, Len(t) - count)
    BY ONLY <2>1, <2>2, SliceAcross, Zenon
  <2>4. bytes = h \o t
    BY <1>5, <2>1
  <2>5. Slice(bytes, 0, m) = h \o Slice(t, 0, count)
    BY ONLY <1>8, <2>3, <2>4, Zenon
  <2>6. Slice(bytes, m, Len(bytes) - m) = Slice(t, count, Len(t) - count)
    BY ONLY <1>8, <2>3, <2>4, Zenon
  <2>7. h \o Slice(t, 0, count) = data
    BY <2>1, Zenon
  <2>8. Slice(t, count, Len(t) - count) = toClient'
    BY <1>2, <2>1, Zenon
  <2> QED
    BY <2>5, <2>6, <2>7, <2>8, Zenon
<1>10. bytes \in Seq(Byte) /\ m =< Len(bytes) /\ 1 =< Len(bytes) /\ 7 =< Len(bytes)
  <2>1. bytes \in Seq(Byte) /\ Len(bytes) = 7 + Len(toClient) /\ Len(toClient) \in Nat
    BY <1>1, <1>5, Joined
  <2>2. count \in Nat /\ count =< Len(toClient)
    BY <1>1, <2>1
  <2>3. ASSUME NEW l \in Nat, l = Len(toClient)
        PROVE  m =< 7 + l /\ 1 =< 7 + l /\ 7 =< 7 + l
    BY ONLY <1>8, <2>2, <2>3
  <2> QED
    BY <2>1, <2>3
<1>11. k + 1 \in 1 .. Len(frames)
  BY <1>6, <1>10, StreamTake
<1>12. PICK f \in Seq(Byte), t \in Seq(Byte) :
          /\ f = frames[k + 1] /\ Prefix(bytes, f \o t)
          /\ Len(f) =< Len(bytes) =>
                /\ Slice(bytes, 0, Len(f)) = f
                /\ Stream(frames, k + 1, Slice(bytes, Len(f), Len(bytes) - Len(f)),
                          1, link = "up")
  BY <1>6, <1>10, StreamTake
<1>13. PICK r \in Answers : r = answered[k + 1]
  BY <1>7, <1>11, ElementOfSeq DEF TypeClient
<1>14. f = ResponseBytes(r)
  BY <1>7, <1>11, <1>12, <1>13
<1>15. Len(f) = m
  <2>1. Len(f) = 7 + Len(ResponsePayload(r)) /\ Len(ResponsePayload(r)) \in Nat
    BY <1>14, AnswerBytes
  <2>2. Load32(Ntohl(Slice(bytes, 3, 4))) = Len(ResponsePayload(r))
    BY <1>10, <1>12, <1>14, SizeIsKnown
  <2>3. Slice(bytes, 3, 4) = Slice(header, 3, 4)
    <3>1. 3 \in Nat /\ 4 \in Nat /\ 3 + 4 =< Len(header)
      BY <1>1
    <3>2. \A at, n \in Nat : at + n =< Len(header) =>
             Slice(header \o toClient, at, n) = Slice(header, at, n)
      BY <1>1, SliceOfFirst
    <3>3. Slice(header \o toClient, 3, 4) = Slice(header, 3, 4)
      BY <3>1, <3>2
    <3> QED
      BY <1>5, <3>3, Zenon
  <2> QED
    BY <1>1, <1>8, <2>1, <2>2, <2>3
<1>16. Len(f) =< Len(bytes)
  BY <1>10, <1>15
<1>17. /\ Slice(bytes, 0, Len(f)) = f
       /\ Stream(frames, k + 1, Slice(bytes, Len(f), Len(bytes) - Len(f)), 1, link = "up")
  BY <1>12, <1>16, Zenon
<1>18. data = f /\ Stream(frames, k + 1, toClient', 1, link = "up")
  BY <1>9, <1>15, <1>17, Zenon
<1>19. k + 1 \in 1 .. Len(answered) /\ data = ResponseBytes(answered[k + 1])
  BY <1>7, <1>11, <1>13, <1>14, <1>18
<1> QED
  BY <1>3, <1>4, <1>6, <1>18, <1>19, Zenon

LEMMA ReadPayloadStep ==
    ASSUME TypeClient, InvClient, ReadPayload
    PROVE  /\ TypeClient' /\ InvClient'
           /\ \/ faults > 0
              \/ /\ Len(got) < Len(answered)
                 /\ got' = Append(got, answered[Len(got) + 1])
                 /\ pc' = "idle"
<1>1. PICK count \in Nat : count = BytesToRead(header)
  BY HeaderIsBytes DEF ReadPayload
<1>2. PICK data : data = header \o Slice(toClient, 0, count)
  OBVIOUS
<1>3. /\ toClient \in Seq(Byte) /\ header \in Seq(Byte)
      /\ pc = "payload" /\ count \in 0 .. Len(toClient)
  BY <1>1, HeaderIsBytes, LenProperties DEF ReadPayload, TypeClient
<1>4. /\ toClient' = Slice(toClient, count, Len(toClient) - count)
      /\ UNCHANGED <<header, answered, faults, link>>
      /\ IF WellFormed(data) THEN pc' = "idle" /\ got' = Append(got, Deserialize(data))
                             ELSE pc' = "threw" /\ UNCHANGED got
  BY <1>1, <1>2 DEF ReadPayload, Accept, Refuse, server
<1>5. /\ Slice(toClient, 0, count) \in Seq(Byte)
      /\ Slice(toClient, count, Len(toClient) - count) \in Seq(Byte)
  BY <1>3, SplitAt
<1>6. data \in Seq(Byte)
  BY <1>2, <1>3, <1>5, Joined
<1>7. TypeClient'
  <2>1. WellFormed(data) => Deserialize(data) \in Responses
    BY <1>6, ParsedIsResponse DEF Deserialize
  <2>2. got' \in Seq(Responses)
    <3>1. got \in Seq(Responses)
      BY DEF TypeClient
    <3>2. ASSUME WellFormed(data) PROVE Append(got, Deserialize(data)) \in Seq(Responses)
      BY ONLY <2>1, <3>1, <3>2, AppendProperties
    <3> QED
      BY <1>4, <3>1, <3>2
  <2> QED
    BY <1>4, <1>5, <2>2 DEF TypeClient
<1>8. CASE faults # 0
  BY <1>4, <1>7, <1>8 DEF InvClient, TypeClient
<1>9. CASE faults = 0
  <2>1. PICK k \in Nat : k = Len(got)
    BY LenProperties DEF TypeClient
  <2>2. /\ k + 1 \in 1 .. Len(answered) /\ FirstOf(got, answered)
        /\ data = ResponseBytes(answered[k + 1])
        /\ Stream(AnswerFrames(answered), k + 1, toClient', 1, link = "up")
    BY <1>1, <1>2, <1>9, <2>1, PayloadIsAnswer
  <2>3. PICK r \in Answers : r = answered[k + 1]
    BY <2>2, ElementOfSeq DEF TypeClient
  <2>4. WellFormed(data) /\ Deserialize(data) = r /\ r \in Responses
    BY <2>2, <2>3, AnswerBytes
  <2>5. pc' = "idle" /\ got' = Append(got, r)
    BY <1>4, <2>4
  <2>6. Len(got') = k + 1
    BY <2>1, <2>4, <2>5, AppendProperties DEF TypeClient
  <2>7. FirstOf(got', answered)
    BY <2>1, <2>2, <2>3, <2>4, <2>5, FirstOfTaken DEF TypeClient
  <2>8. Arrived' = toClient'
    BY <2>5 DEF Arrived
  <2>9. InvClient'
    BY <1>4, <2>2, <2>6, <2>7, <2>8 DEF InvClient
  <2>10. Len(got) < Len(answered)
    BY <2>1, <2>2, LenProperties DEF TypeClient
  <2> QED
    BY <1>7, <2>1, <2>3, <2>5, <2>9, <2>10
<1> QED
  BY <1>8, <1>9

LEMMA ServeStep ==
    ASSUME TypeClient, InvClient, link = "up", NEW r \in Answers,
           answered' = Append(answered, r), UNCHANGED <<pc, header, got, link>>,
           \/ toClient' = toClient \o ResponseBytes(r) /\ UNCHANGED faults
           \/ /\ faults < MaxFaults /\ faults' = faults + 1
              /\ \E size \in WrongSizes : toClient' = toClient \o Claiming(r, size)
    PROVE  TypeClient' /\ InvClient'
<1>1. /\ toClient \in Seq(Byte) /\ answered \in Seq(Answers) /\ answered' \in Seq(Answers)
      /\ faults \in 0 .. MaxFaults
  BY AppendProperties DEF TypeClient
<1>2. ResponseBytes(r) \in Seq(Byte) /\ \A size \in WrongSizes : Claiming(r, size) \in Seq(Byte)
  BY AnswerBytes
<1>3. toClient' \in Seq(Byte) /\ faults' \in 0 .. MaxFaults
  <2>1. CASE toClient' = toClient \o ResponseBytes(r) /\ UNCHANGED faults
    BY <1>1, <1>2, <2>1, Joined
  <2>2. CASE /\ faults < MaxFaults /\ faults' = faults + 1
             /\ \E size \in WrongSizes : toClient' = toClient \o Claiming(r, size)
    <3>1. faults' \in 0 .. MaxFaults
      BY <1>1, <2>2, TransportAssumption
    <3>2. PICK size \in WrongSizes : toClient' = toClient \o Claiming(r, size)
      BY <2>2
    <3>3. toClient' \in Seq(Byte)
      BY <1>1, <1>2, <3>2, Joined
    <3> QED
      BY <3>1, <3>3
  <2> QED
    BY <2>1, <2>2
<1>4. TypeClient'
  BY <1>1, <1>3 DEF TypeClient
<1>5. ASSUME faults' = 0, pc' \in {"idle", "header", "payload"}
      PROVE  /\ FirstOf(got', answered')
             /\ Stream(AnswerFrames(answered'), Len(got'), Arrived', 1, link' = "up")
  <2>1. faults = 0 /\ toClient' = toClient \o ResponseBytes(r)
    BY <1>1, <1>5
  <2>2. /\ FirstOf(got, answered)
        /\ Stream(AnswerFrames(answered), Len(got), Arrived, 1, link = "up")
    BY <1>5, <2>1 DEF InvClient
  <2>3. FirstOf(got', answered')
    BY <1>1, <2>2, FirstOfSent DEF TypeClient
  <2>4. Stream(AnswerFrames(answered), Len(got), Arrived, 1, TRUE)
    <3>1. TRUE => link = "up"
      OBVIOUS
    <3> QED
      BY <2>2, <3>1, StreamWeaker
  <2>5. PICK f \in Seq(Byte) : f = ResponseBytes(r)
    BY <1>2
  <2>6. Arrived' = Arrived \o f
    <3>1. CASE pc = "payload"
      <4>1. header \in Seq(Byte)
        BY <3>1, HeaderIsBytes
      <4>2. (header \o toClient) \o f = header \o (toClient \o f)
        <5>1. PICK h \in Seq(Byte), t \in Seq(Byte) : h = header /\ t = toClient
          BY <1>1, <4>1
        <5>2. (h \o t) \o f = h \o (t \o f)
          BY ONLY <2>5, <5>1, ConcatAssociative
        <5> QED
          BY <5>1, <5>2
      <4>3. Arrived = header \o toClient /\ Arrived' = header \o (toClient \o f)
        BY <2>1, <2>5, <3>1 DEF Arrived
      <4> QED
        BY <4>2, <4>3
    <3>2. CASE pc # "payload"
      BY <2>1, <2>5, <3>2 DEF Arrived
    <3> QED
      BY <3>1, <3>2
  <2>7. <<>> \in Seq(Byte) /\ Len(<<>>) < 1 /\ f = f \o <<>>
    BY EmptySeq, ConcatEmptySeq
  <2>8. PICK frames \in Seq(Seq(Byte)) : frames = AnswerFrames(answered)
    BY <1>1, FramesOfAnswered
  <2>9. PICK rest \in Seq(Byte) : rest = <<>> /\ Len(rest) < 1 /\ f = f \o rest
    BY <2>7
  <2>10. Stream(Append(frames, f), Len(got), Arrived \o f, 1, rest = <<>>)
    BY <2>4, <2>8, <2>9, StreamPut
  <2>11. Stream(Append(frames, f), Len(got), Arrived \o f, 1, link' = "up")
    <3>1. link' = "up" => rest = <<>>
      BY <2>9
    <3> QED
      BY <2>10, <3>1, StreamWeaker
  <2>12. AnswerFrames(answered') = Append(frames, f)
    BY <1>1, <2>5, <2>8, FramesOfAnswered
  <2> QED
    BY <2>3, <2>6, <2>11, <2>12
<1> QED
  BY <1>4, <1>5 DEF InvClient

LEMMA CutStepClient ==
    ASSUME TypeClient, InvClient, link' = "cut",
           UNCHANGED <<pc, header, got, answered, faults>>,
           NEW n \in 0 .. Len(toClient), toClient' = Slice(toClient, 0, n)
    PROVE  TypeClient' /\ InvClient'
<1>1. toClient \in Seq(Byte) /\ answered \in Seq(Answers) /\ Len(toClient) \in Nat
  BY LenProperties DEF TypeClient
<1>2. toClient' \in Seq(Byte)
  BY <1>1, SplitAt
<1>3. TypeClient'
  BY <1>2 DEF TypeClient
<1>4. ASSUME faults' = 0, pc' \in {"idle", "header", "payload"}
      PROVE  /\ FirstOf(got', answered')
             /\ Stream(AnswerFrames(answered'), Len(got'), Arrived', 1, link' = "up")
  <2>1. /\ FirstOf(got, answered)
        /\ Stream(AnswerFrames(answered), Len(got), Arrived, 1, link = "up")
    BY <1>4 DEF InvClient
  <2>2. AnswerFrames(answered) \in Seq(Seq(Byte)) /\ Arrived \in Seq(Byte)
    BY <1>1, FramesOfAnswered, ArrivedIsBytes
  <2>3. \E m \in 0 .. Len(Arrived) : Arrived' = Slice(Arrived, 0, m)
    <3>1. CASE pc = "payload"
      <4>1. header \in Seq(Byte) /\ Len(header) = 7
        BY <3>1, HeaderIsBytes
      <4>2. PICK m \in Nat : m = 7 + n
        BY <1>1
      <4>3. PICK all : all = header \o toClient
        OBVIOUS
      <4>4. Slice(all, 0, m) = header \o Slice(toClient, 0, n)
        <5>1. PICK h \in Seq(Byte), t \in Seq(Byte) : h = header /\ t = toClient
          BY <1>1, <4>1
        <5>2. n \in 0 .. Len(t) /\ Len(h) = 7
          BY <1>1, <4>1, <5>1
        <5>3. Slice(h \o t, 0, 7 + n) = h \o Slice(t, 0, n)
          BY ONLY <5>1, <5>2, SliceAcross, Zenon
        <5> QED
          BY <4>2, <4>3, <5>1, <5>3
      <4>5. m \in 0 .. Len(all)
        <5>1. Len(all) = 7 + Len(toClient)
          BY <1>1, <4>1, <4>3, Joined
        <5> QED
          BY <1>1, <4>2, <5>1
      <4>6. Arrived = all /\ Arrived' = header \o Slice(toClient, 0, n)
        BY <3>1, <4>3 DEF Arrived
      <4> QED
        BY <4>4, <4>5, <4>6
    <3>2. CASE pc # "payload"
      BY <3>2 DEF Arrived
    <3> QED
      BY <3>1, <3>2
  <2>4. Stream(AnswerFrames(answered), Len(got), Arrived', 1, FALSE)
    <3>1. PICK m \in 0 .. Len(Arrived) : Arrived' = Slice(Arrived, 0, m)
      BY <2>3
    <3>2. (link = "up") \in BOOLEAN
      OBVIOUS
    <3> QED
      BY <2>1, <2>2, <3>1, <3>2, StreamCut
  <2>5. Stream(AnswerFrames(answered), Len(got), Arrived', 1, link' = "up")
    BY <2>4, StreamWeaker
  <2> QED
    BY <2>1, <2>5
<1> QED
  BY <1>3, <1>4 DEF InvClient

\* A step that leaves the bytes to be read, or after which nothing is read any more.
LEMMA OtherStepClient ==
    ASSUME TypeClient, InvClient, UNCHANGED <<header, got, answered, faults>>,
           \/ UNCHANGED <<toClient, link, pc>>
           \/ pc = "idle" /\ pc' \in {"idle", "header"} /\ UNCHANGED <<toClient, link>>
           \/ pc' \in {"threw", "closed"} /\ toClient' \in {toClient, <<>>}
    PROVE  TypeClient' /\ InvClient'
<1>1. toClient' \in Seq(Byte)
  BY EmptySeq DEF TypeClient
<1>2. TypeClient'
  BY <1>1 DEF TypeClient
<1>3. CASE UNCHANGED <<toClient, link, pc>>
  BY <1>2, <1>3 DEF InvClient, Arrived
<1>4. CASE pc = "idle" /\ pc' \in {"idle", "header"} /\ UNCHANGED <<toClient, link>>
  BY <1>2, <1>4 DEF InvClient, Arrived
<1>5. CASE pc' \in {"threw", "closed"}
  BY <1>2, <1>5 DEF InvClient
<1> QED
  BY <1>3, <1>4, <1>5

-----------------------------------------------------------------------------
(* The theorems *)

IInv == TypeServer /\ InvServer /\ TypeClient /\ InvClient

ServerStep == [ToServer!Next]_ToServer!chvars
ClientStep == [ToClient!Next]_ToClient!chvars

LEMMA IInvInit == Init => IInv
<1>1. SUFFICES ASSUME Init
               PROVE  IInv
  OBVIOUS
<1>2. /\ <<>> \in Seq(Sendable) /\ <<>> \in Seq(Byte)
      /\ <<>> \in Seq(Responses) /\ <<>> \in Seq(Answers) /\ Len(<<>>) = 0
  BY EmptySeq
<1>3. TypeServer
  BY <1>1, <1>2 DEF Init, TypeServer
<1>4. TypeClient
  BY <1>1, <1>2, TransportAssumption DEF Init, TypeClient
<1>5. RequestHeaderLen \in Nat \ {0} /\ 1 \in Nat \ {0}
  BY Constants DEF RequestHeaderLen
<1>6. \A s : Len(s) = 0 => FramesBy(SeenOf, s) = <<>> /\ FramesBy(BytesOfAnswer, s) = <<>>
  BY DEF FramesBy
<1>7. Frames(<<>>) = <<>> /\ AnswerFrames(<<>>) = <<>>
  BY <1>2, <1>6 DEF Frames, AnswerFrames
<1>8. FirstOf(<<>>, <<>>)
  BY <1>2 DEF FirstOf
<1>9. (link = "up") = TRUE
  BY <1>1 DEF Init
<1>10. InvServer
  BY <1>1, <1>2, <1>5, <1>7, <1>8, <1>9, StreamEmpty DEF Init, InvServer
<1>11. InvClient
  BY <1>1, <1>2, <1>5, <1>7, <1>8, <1>9, StreamEmpty DEF Init, InvClient, Arrived
<1> QED
  BY <1>3, <1>4, <1>10, <1>11 DEF IInv

\* What a step does that reads or writes no request, and no response.
LEMMA ServerStutters ==
    ASSUME UNCHANGED <<sent, served>>
    PROVE  ServerStep
BY DEF ServerStep, ToServer!chvars

LEMMA ClientStutters ==
    ASSUME UNCHANGED <<got, answered, faults>>
    PROVE  ClientStep
BY DEF ClientStep, ToClient!chvars

LEMMA WriteOffers ==
    ASSUME NEW r \in Sendable, Write(r), UNCHANGED served
    PROVE  ServerStep
BY DEF ServerStep, Sendable, Write, ToServer!Next, ToServer!Offer

LEMMA TakeTakes ==
    ASSUME Len(served) < Len(sent), served' = Append(served, sent[Len(served) + 1]),
           UNCHANGED sent
    PROVE  ServerStep
BY DEF ServerStep, ToServer!Next, ToServer!Take

LEMMA NextStep ==
    ASSUME LittleEndian, IInv, [Next]_vars
    PROVE  IInv' /\ ServerStep /\ ClientStep
<1>1. TypeServer /\ InvServer /\ TypeClient /\ InvClient
  BY DEF IInv
<1>2. link \in {"up", "cut"} /\ faults \in Nat
  BY <1>1 DEF TypeServer, TypeClient
<1>3. ASSUME NEW r \in Requests, SendRequest(r)
      PROVE  IInv' /\ ServerStep /\ ClientStep
  <2>1. /\ Write(r) /\ link = "up" /\ r \in Sendable
        /\ UNCHANGED <<served, header, got, link, toClient, answered, faults>>
        /\ pc = "idle" /\ pc' \in {"idle", "header"}
    BY <1>3 DEF SendRequest, Sendable, server
  <2>2. TypeServer' /\ InvServer'
    BY <1>1, <1>2, <2>1, WriteStep
  <2>3. TypeClient' /\ InvClient'
    BY <1>1, <2>1, OtherStepClient
  <2> QED
    BY <2>1, <2>2, <2>3, WriteOffers, ClientStutters DEF IInv
<1>4. CASE SendDisconnect
  <2>1. /\ Write(Disconnect) /\ link = "up" /\ Disconnect \in Sendable /\ link' = "cut"
        /\ UNCHANGED <<served, header, got, answered, faults>>
        /\ pc' = "closed" /\ toClient' = <<>>
    BY <1>4 DEF SendDisconnect, Sendable, server
  <2>2. TypeServer' /\ InvServer'
    BY <1>1, <2>1, WriteStep
  <2>3. TypeClient' /\ InvClient'
    BY <1>1, <2>1, OtherStepClient
  <2> QED
    BY <2>1, <2>2, <2>3, WriteOffers, ClientStutters DEF IInv
<1>5. CASE SendFails \/ ReadFails
  <2>1. /\ pc' = "threw"
        /\ UNCHANGED <<header, sent, got, link, toServer, toClient, served, answered, faults>>
    BY <1>5 DEF SendFails, ReadFails, server
  <2>2. TypeServer' /\ InvServer'
    BY <1>1, <2>1, OtherStepServer
  <2>3. TypeClient' /\ InvClient'
    BY <1>1, <2>1, OtherStepClient
  <2> QED
    BY <2>1, <2>2, <2>3, ServerStutters, ClientStutters DEF IInv
<1>6. CASE ReadHeader
  <2>1. UNCHANGED <<sent, got, link, toServer, served, answered, faults>>
    BY <1>6 DEF ReadHeader, Refuse, server
  <2>2. TypeServer' /\ InvServer'
    BY <1>1, <2>1, OtherStepServer
  <2>3. TypeClient' /\ InvClient'
    BY <1>1, <1>6, ReadHeaderStep
  <2> QED
    BY <2>1, <2>2, <2>3, ServerStutters, ClientStutters DEF IInv
<1>7. CASE ReadPayload
  <2>1. UNCHANGED <<sent, link, toServer, served, answered, faults>>
    BY <1>7 DEF ReadPayload, server
  <2>2. TypeServer' /\ InvServer'
    BY <1>1, <2>1, OtherStepServer
  <2>3. /\ TypeClient' /\ InvClient'
        /\ \/ UNCHANGED got
           \/ faults > 0
           \/ Len(got) < Len(answered) /\ got' = Append(got, answered[Len(got) + 1])
    BY <1>1, <1>7, ReadPayloadStep
  <2>4. ClientStep
    BY <1>2, <2>1, <2>3
       DEF ClientStep, ToClient!Next, ToClient!Take, ToClient!Misframe, ToClient!chvars
  <2> QED
    BY <2>1, <2>2, <2>3, <2>4, ServerStutters DEF IInv
<1>8. CASE ServeSilently
  <2>1. TakeRequest /\ UNCHANGED <<pc, header, sent, got, link, toClient, answered, faults>>
    BY <1>8 DEF ServeSilently, client
  <2>2. /\ TypeServer' /\ InvServer' /\ Len(served) < Len(sent)
        /\ served' = Append(served, sent[Len(served) + 1])
    BY <1>1, <2>1, TakeStep
  <2>3. TypeClient' /\ InvClient'
    BY <1>1, <2>1, OtherStepClient
  <2> QED
    BY <2>1, <2>2, <2>3, TakeTakes, ClientStutters DEF IInv
<1>9. CASE Serve
  <2>1. /\ TakeRequest /\ link = "up" /\ UNCHANGED <<pc, header, sent, got, link>>
    BY <1>9 DEF Serve, client
  <2>2. PICK r \in Answers :
           /\ answered' = Append(answered, r)
           /\ \/ toClient' = toClient \o ResponseBytes(r) /\ UNCHANGED faults
              \/ /\ faults < MaxFaults /\ faults' = faults + 1
                 /\ \E size \in WrongSizes : toClient' = toClient \o Claiming(r, size)
    BY <1>9 DEF Serve
  <2>3. /\ TypeServer' /\ InvServer' /\ Len(served) < Len(sent)
        /\ served' = Append(served, sent[Len(served) + 1])
    BY <1>1, <2>1, TakeStep
  <2>4. TypeClient' /\ InvClient'
    BY <1>1, <2>1, <2>2, ServeStep
  <2>5. ClientStep
    <3>1. faults' \in Nat /\ (faults' = faults \/ faults' > 0)
      BY <1>2, <2>2
    <3> QED
      BY <1>2, <2>1, <2>2, <3>1
         DEF ClientStep, ToClient!Next, ToClient!Offer, ToClient!Misframe, ToClient!chvars
  <2> QED
    BY <2>1, <2>3, <2>4, <2>5, TakeTakes DEF IInv
<1>10. CASE Cut
  <2>1. /\ link' = "cut" /\ UNCHANGED <<pc, header, sent, got, served, answered, faults>>
        /\ \E n \in 0 .. Len(toServer) : toServer' = Slice(toServer, 0, n)
        /\ \E n \in 0 .. Len(toClient) : toClient' = Slice(toClient, 0, n)
    BY <1>10 DEF Cut, client, server
  <2>2. TypeServer' /\ InvServer'
    BY <1>1, <2>1, CutStepServer
  <2>3. TypeClient' /\ InvClient'
    BY <1>1, <2>1, CutStepClient
  <2> QED
    BY <2>1, <2>2, <2>3, ServerStutters, ClientStutters DEF IInv
<1>11. CASE UNCHANGED vars
  <2>1. UNCHANGED <<pc, header, sent, got, link, toServer, toClient, served, answered, faults>>
    BY <1>11 DEF vars, client, server
  <2>2. TypeServer' /\ InvServer'
    BY <1>1, <2>1, OtherStepServer
  <2>3. TypeClient' /\ InvClient'
    BY <1>1, <2>1, OtherStepClient
  <2> QED
    BY <2>1, <2>2, <2>3, ServerStutters, ClientStutters DEF IInv
<1> QED
  BY <1>3, <1>4, <1>5, <1>6, <1>7, <1>8, <1>9, <1>10, <1>11 DEF Next, Client, Server, Over

\* Every variable of the transport has its type, for any requests and responses and
\* wherever the connection is cut.
THEOREM TransportTypes ==
    ASSUME LittleEndian
    PROVE  Spec => []TypeOK
<1>1. IInv => TypeOK
  <2>1. SUFFICES ASSUME IInv
                 PROVE  TypeOK
    OBVIOUS
  <2>2. TypeServer /\ TypeClient
    BY <2>1 DEF IInv
  <2>3. served \in Seq(RequestRecords)
    <3>1. Sendable \subseteq RequestRecords
      BY SendableIsBuilt
    <3>2. \A i \in 1 .. Len(served) : served[i] \in RequestRecords
      BY <2>2, <3>1, ElementOfSeq DEF TypeServer
    <3> QED
      BY <2>2, <3>2 DEF TypeServer
  <2> QED
    BY <2>2, <2>3 DEF TypeServer, TypeClient, TypeOK, Sendable
<1>2. IInv /\ [Next]_vars => IInv'
  BY NextStep
<1> QED
  BY <1>1, <1>2, IInvInit, PTL DEF Spec

\* The server reads the requests that were sent, with their fields, in order and
\* without a gap: Request::serialize and the payload sizes its callers declare agree,
\* for all names, chunks and numbers that fit their fields.
THEOREM RequestsArriveInOrder ==
    ASSUME LittleEndian
    PROVE  Spec => RequestsInOrder
<1>1. Init => ToServer!Init
  BY DEF Init, ToServer!Init
<1>2. IInv /\ [Next]_vars => IInv' /\ [ToServer!Next]_ToServer!chvars
  BY NextStep DEF ServerStep
<1> QED
  BY <1>1, <1>2, IInvInit, PTL DEF Spec, RequestsInOrder, ToServer!Spec

\* receive_response returns the responses the server gave, with their fields, in
\* order and without a gap, until the server claims a wrong size.
THEOREM ResponsesArriveInOrder ==
    ASSUME LittleEndian
    PROVE  Spec => ResponsesInOrder
<1>1. Init => ToClient!Init
  BY DEF Init, ToClient!Init
<1>2. IInv /\ [Next]_vars => IInv' /\ [ToClient!Next]_ToClient!chvars
  BY NextStep DEF ClientStep
<1> QED
  BY <1>1, <1>2, IInvInit, PTL DEF Spec, ResponsesInOrder, ToClient!Spec

-----------------------------------------------------------------------------
(* Reads that are answered *)

\* While a read is under way the server owes a response: one that it gave and the client
\* did not return yet, or the one to the last request, which it did not read yet.
ResponseDue ==
    Reading /\ link = "up" /\ faults = 0 =>
        \/ Len(got) < Len(answered)
        \/ Len(served) < Len(sent) /\ Answered(sent[Len(sent)])

LEMMA ResponseDueStep ==
    ASSUME LittleEndian, IInv, ResponseDue, [Next]_vars
    PROVE  ResponseDue'
<1>1. TypeServer /\ InvServer /\ TypeClient /\ InvClient
  BY DEF IInv
<1>2. /\ Len(got) \in Nat /\ Len(answered) \in Nat
      /\ Len(served) \in Nat /\ Len(sent) \in Nat
      /\ Len(served) =< Len(sent)
  BY <1>1, LenProperties DEF TypeServer, TypeClient, InvServer, FirstOf
<1>3. faults \in Nat
  BY <1>1 DEF TypeClient
<1>4. ASSUME NEW r \in Requests, SendRequest(r)
      PROVE  ResponseDue'
  <2>1. /\ pc' = IF Answered(r) THEN "header" ELSE "idle"
        /\ sent' = Append(sent, r) /\ UNCHANGED <<got, answered, served>>
    BY <1>4 DEF SendRequest, Write, server
  <2>2. Len(sent') = Len(sent) + 1 /\ sent'[Len(sent) + 1] = r
    BY <1>1, <2>1, AppendProperties DEF TypeServer, Sendable
  <2>3. CASE Answered(r)
    <3>1. Len(served') < Len(sent') /\ sent'[Len(sent')] = r
      BY <1>2, <2>1, <2>2
    <3> QED
      BY <2>3, <3>1 DEF ResponseDue, Answered
  <2>4. CASE ~Answered(r)
    BY <2>1, <2>4 DEF ResponseDue, Reading
  <2> QED
    BY <2>3, <2>4
<1>5. CASE SendDisconnect \/ SendFails \/ ReadFails \/ ReadPayload \/ Cut
  <2>1. link' = "cut" \/ pc' \in {"threw", "idle"}
    BY <1>5 DEF SendDisconnect, SendFails, ReadFails, ReadPayload, Accept, Refuse, Cut
  <2> QED
    BY <2>1 DEF ResponseDue, Reading
<1>6. CASE ReadHeader
  BY <1>6 DEF ReadHeader, Refuse, server, ResponseDue, Reading, Answered
<1>7. CASE ServeSilently
  <2>1. /\ TakeRequest /\ (~Answered(Incoming) \/ link = "cut")
        /\ UNCHANGED <<pc, sent, got, link, answered, faults>>
    BY <1>7 DEF ServeSilently, client
  <2>2. /\ Len(served) < Len(sent) /\ Incoming = sent[Len(served) + 1]
        /\ served' = Append(served, sent[Len(served) + 1]) /\ TypeServer'
    BY <1>1, <2>1, TakeStep
  <2>3. Len(served') = Len(served) + 1
    <3>1. sent[Len(served) + 1] \in Sendable
      BY <1>1, <1>2, <2>2, ElementOfSeq DEF TypeServer
    <3> QED
      BY <1>1, <2>2, <3>1, AppendProperties DEF TypeServer
  <2>4. SUFFICES ASSUME Reading, link = "up", faults = 0, ~(Len(got) < Len(answered))
                 PROVE  Len(served') < Len(sent) /\ Answered(sent[Len(sent)])
    BY <2>1 DEF ResponseDue, Reading, Answered
  <2>5. Answered(sent[Len(sent)]) /\ ~Answered(sent[Len(served) + 1])
    BY <2>1, <2>2, <2>4 DEF ResponseDue
  <2>6. Len(served) + 1 # Len(sent)
    BY <2>5
  <2> QED
    BY <1>2, <2>2, <2>3, <2>5, <2>6
<1>8. CASE Serve
  <2>1. /\ UNCHANGED <<pc, sent, got, link>>
        /\ \E r \in Answers : answered' = Append(answered, r)
        /\ faults' = faults \/ faults' = faults + 1
    BY <1>8 DEF Serve, client
  <2>2. Len(answered') = Len(answered) + 1
    BY <1>1, <2>1, AppendProperties DEF TypeClient
  <2>3. SUFFICES ASSUME Reading, link = "up", faults = 0
                 PROVE  Len(got) < Len(answered')
    BY <1>3, <2>1 DEF ResponseDue, Reading
  <2>4. Len(got) =< Len(answered)
    BY <1>1, <2>3 DEF InvClient, Reading, FirstOf
  <2> QED
    BY <1>2, <2>2, <2>4
<1>9. CASE UNCHANGED vars
  BY <1>9 DEF vars, client, server, ResponseDue, Reading, Answered
<1> QED
  BY <1>4, <1>5, <1>6, <1>7, <1>8, <1>9 DEF Next, Client, Server, Over

\* All of the next message is there.
LEMMA StreamWhole ==
    ASSUME NEW frames \in Seq(Seq(Byte)), NEW k \in Nat, NEW bytes \in Seq(Byte),
           NEW slack \in Nat, NEW whole \in BOOLEAN,
           Stream(frames, k, bytes, slack, whole), whole, k < Len(frames)
    PROVE  \E f, t \in Seq(Byte) : f = frames[k + 1] /\ bytes = f \o t
<1>1. PICK n \in Nat : n = Len(frames)
  BY LenProperties
<1>2. PICK e : Framed(frames, e) /\ bytes = e[k]
  BY DEF Stream
<1>3. k \in 0 .. n - 1 /\ k + 1 \in 1 .. n /\ k + 1 \in 0 .. n
  BY <1>1
<1>4. e[k] = frames[k + 1] \o e[k + 1] /\ e[k + 1] \in Seq(Byte)
  BY <1>1, <1>2, <1>3 DEF Framed
<1>5. frames[k + 1] \in Seq(Byte)
  BY <1>1, <1>3, ElementOfSeq
<1> QED
  BY <1>2, <1>4, <1>5

LEMMA WholeIsThere ==
    ASSUME NEW f \in Seq(Byte), NEW t \in Seq(Byte), NEW bytes, bytes = f \o t
    PROVE  bytes \in Seq(Byte) /\ Prefix(bytes, bytes) /\ Len(f) =< Len(bytes)
<1>1. bytes \in Seq(Byte) /\ Len(bytes) = Len(f) + Len(t)
  BY Joined
<1>2. PICK m \in Nat, n \in Nat : m = Len(f) /\ n = Len(t)
  BY LenProperties
<1>3. Len(f) =< Len(bytes)
  BY <1>1, <1>2
<1> QED
  BY <1>1, <1>3, PrefixWhole

LEMMA RequestIsThere ==
    ASSUME LittleEndian, TypeServer, InvServer, link = "up", Len(served) < Len(sent)
    PROVE  RequestArrived
<1>1. PICK k \in Nat : k = Len(served)
  BY LenProperties DEF TypeServer
<1>2. PICK frames \in Seq(Seq(Byte)) : frames = Frames(sent)
  BY FramesOfSent DEF TypeServer
<1>3. /\ Len(frames) = Len(sent) /\ Len(sent) \in Nat /\ k + 1 \in 1 .. Len(sent)
      /\ \A i \in 1 .. Len(sent) : frames[i] = Seen(sent[i])
  BY <1>1, <1>2, FramesOfSent, LenProperties DEF TypeServer
<1>4. /\ Stream(frames, k, toServer, RequestHeaderLen, link = "up")
      /\ (link = "up") /\ (link = "up") \in BOOLEAN
  BY <1>1, <1>2 DEF InvServer
<1>5. PICK r \in Sendable : r = sent[k + 1]
  BY <1>3, ElementOfSeq DEF TypeServer
<1>6. PICK f \in Seq(Byte) : f = Seen(r) /\ f = frames[k + 1]
  BY <1>3, <1>5, SeenBytes
<1>7. PICK t \in Seq(Byte) : toServer = f \o t
  <2>1. k < Len(frames)
    BY <1>1, <1>3
  <2>2. toServer \in Seq(Byte) /\ RequestHeaderLen \in Nat
    BY Constants DEF TypeServer, RequestHeaderLen
  <2>3. PICK g \in Seq(Byte), t \in Seq(Byte) : g = frames[k + 1] /\ toServer = g \o t
    BY <1>4, <2>1, <2>2, StreamWhole
  <2> QED
    BY <1>6, <2>3
<1>8. toServer \in Seq(Byte) /\ Prefix(toServer, toServer) /\ Len(f) =< Len(toServer)
  BY <1>7, WholeIsThere
<1>9. Len(f) = RequestHeaderLen + DeclaredSize(r) /\ DeclaredSize(r) \in Nat
  BY <1>6, SeenBytes, SendableIsBuilt
<1>10. RequestHeaderLen =< Len(toServer)
  BY <1>8, <1>9, Constants, LenProperties DEF RequestHeaderLen
<1>11. RequestHeaderLen + ClaimedSize(toServer) = Len(f)
  BY <1>6, <1>7, <1>8, <1>10, SizeIsSeen
<1> QED
  BY <1>8, <1>10, <1>11 DEF RequestArrived

LEMMA ResponseIsThere ==
    ASSUME TypeClient, InvClient, Reading, faults = 0, link = "up", Len(got) < Len(answered)
    PROVE  ReadReady
<1>1. PICK k \in Nat : k = Len(got)
  BY LenProperties DEF TypeClient
<1>2. PICK frames \in Seq(Seq(Byte)) : frames = AnswerFrames(answered)
  BY FramesOfAnswered DEF TypeClient
<1>3. /\ Len(frames) = Len(answered) /\ Len(answered) \in Nat /\ k + 1 \in 1 .. Len(answered)
      /\ \A i \in 1 .. Len(answered) : frames[i] = ResponseBytes(answered[i])
  BY <1>1, <1>2, FramesOfAnswered, LenProperties DEF TypeClient
<1>4. PICK bytes \in Seq(Byte) : bytes = Arrived
  BY ArrivedIsBytes
<1>5. /\ Stream(frames, k, bytes, 1, link = "up")
      /\ (link = "up") /\ (link = "up") \in BOOLEAN
  BY <1>1, <1>2, <1>4 DEF InvClient, Reading
<1>6. PICK r \in Answers : r = answered[k + 1]
  BY <1>3, ElementOfSeq DEF TypeClient
<1>7. PICK f \in Seq(Byte) : f = ResponseBytes(r) /\ f = frames[k + 1]
  BY <1>3, <1>6, AnswerBytes
<1>8. PICK t \in Seq(Byte) : bytes = f \o t
  <2>1. k < Len(frames)
    BY <1>1, <1>3
  <2>2. PICK g \in Seq(Byte), t \in Seq(Byte) : g = frames[k + 1] /\ bytes = g \o t
    BY <1>5, <2>1, StreamWhole
  <2> QED
    BY <1>7, <2>2
<1>9. Prefix(bytes, bytes) /\ Len(f) =< Len(bytes)
  BY <1>8, WholeIsThere
<1>10. Len(f) = 7 + Len(ResponsePayload(r)) /\ Len(ResponsePayload(r)) \in Nat
  BY <1>7, AnswerBytes
<1>11. 7 =< Len(bytes)
  BY <1>9, <1>10, LenProperties
<1>12. CASE pc = "header"
  BY <1>4, <1>11, <1>12 DEF ReadReady, Arrived, ResponseHeaderLen
<1>13. CASE pc = "payload"
  <2>1. bytes = header \o toClient /\ header \in Seq(Byte) /\ Len(header) = 7
        /\ toClient \in Seq(Byte)
        /\ BytesToRead(header) = Load32(Ntohl(Slice(header, 3, 4)))
    BY <1>4, <1>13, HeaderIsBytes DEF Arrived, TypeClient
  <2>2. Load32(Ntohl(Slice(bytes, 3, 4))) = Len(ResponsePayload(r))
    BY <1>7, <1>8, <1>9, <1>11, SizeIsKnown
  <2>3. Slice(bytes, 3, 4) = Slice(header, 3, 4)
    <3>1. 3 \in Nat /\ 4 \in Nat /\ 3 + 4 =< Len(header)
      BY <2>1
    <3>2. \A at, n \in Nat : at + n =< Len(header) =>
             Slice(header \o toClient, at, n) = Slice(header, at, n)
      BY <2>1, SliceOfFirst
    <3>3. Slice(header \o toClient, 3, 4) = Slice(header, 3, 4)
      BY <3>1, <3>2
    <3> QED
      BY <2>1, <3>3, Zenon
  <2>4. BytesToRead(header) = Len(ResponsePayload(r))
    BY <2>1, <2>2, <2>3
  <2>5. Len(bytes) = 7 + Len(toClient) /\ Len(toClient) \in Nat
    <3>1. /\ Len(header \o toClient) = Len(header) + Len(toClient)
          /\ Len(toClient) \in Nat
      BY <2>1, Joined
    <3> QED
      BY <2>1, <3>1
  <2> QED
    BY <1>9, <1>10, <1>13, <2>4, <2>5 DEF ReadReady
<1> QED
  BY <1>12, <1>13 DEF Reading

\* A header that is read announces a payload.
LEMMA HeaderIsTaken ==
    ASSUME TypeClient, InvClient, ReadHeader, faults = 0
    PROVE  pc' = "payload"
<1>1. /\ toClient \in Seq(Byte) /\ 7 \in Nat /\ 7 =< Len(toClient) /\ pc = "header"
      /\ header' = Slice(toClient, 0, 7)
  BY DEF ReadHeader, ResponseHeaderLen, TypeClient
<1>2. PICK k \in Nat : k = Len(got)
  BY LenProperties DEF TypeClient
<1>3. PICK frames \in Seq(Seq(Byte)) : frames = AnswerFrames(answered)
  BY FramesOfAnswered DEF TypeClient
<1>4. /\ Len(frames) = Len(answered) /\ Len(answered) \in Nat
      /\ \A i \in 1 .. Len(answered) : frames[i] = ResponseBytes(answered[i])
  BY <1>3, FramesOfAnswered, LenProperties DEF TypeClient
<1>5. Stream(frames, k, toClient, 1, link = "up")
  BY <1>1, <1>2, <1>3 DEF InvClient, Arrived
<1>6. 1 =< Len(toClient) /\ (link = "up") \in BOOLEAN /\ 1 \in Nat
  BY <1>1, LenProperties
<1>7. /\ k + 1 \in 1 .. Len(frames)
      /\ \E f, t \in Seq(Byte) : f = frames[k + 1] /\ Prefix(toClient, f \o t)
  <2>1. k + 1 \in 1 .. Len(frames)
    BY <1>1, <1>5, <1>6, StreamTake
  <2>2. \E f, t \in Seq(Byte) :
           /\ f = frames[k + 1] /\ Prefix(toClient, f \o t)
           /\ Len(f) =< Len(toClient) =>
                 /\ Slice(toClient, 0, Len(f)) = f
                 /\ Slice(toClient, Len(f), Len(toClient) - Len(f)) \in Seq(Byte)
                 /\ Stream(frames, k + 1, Slice(toClient, Len(f), Len(toClient) - Len(f)),
                           1, link = "up")
    BY <1>1, <1>5, <1>6, StreamTake
  <2> QED
    BY <2>1, <2>2, Zenon
<1>8. PICK r \in Answers : r = answered[k + 1]
  BY <1>4, <1>7, ElementOfSeq DEF TypeClient
<1>9. PICK f \in Seq(Byte), t \in Seq(Byte) : f = frames[k + 1] /\ Prefix(toClient, f \o t)
  BY <1>7
<1>10. f = ResponseBytes(r)
  BY <1>4, <1>7, <1>8, <1>9
<1>11. Load32(Ntohl(Slice(toClient, 3, 4))) = Len(ResponsePayload(r))
  BY <1>1, <1>9, <1>10, SizeIsKnown
<1>12. Slice(header', 3, 4) = Slice(toClient, 3, 4)
  <2>1. 0 \in Nat /\ 3 \in Nat /\ 4 \in Nat /\ 0 + 7 =< Len(toClient) /\ 3 + 4 =< 7
    BY <1>1
  <2>2. Slice(toClient, 0 + 3, 4) = Slice(Slice(toClient, 0, 7), 3, 4)
    BY <1>1, <2>1, SliceOfSlice
  <2>3. 0 + 3 = 3
    OBVIOUS
  <2> QED
    BY <1>1, <2>2, <2>3
<1>13. BytesToRead(header') = Len(ResponsePayload(r))
  BY <1>11, <1>12 DEF BytesToRead, PayloadSize, PayloadSizeAt
<1>14. BytesToRead(header') # 0
  <2>1. Len(ResponsePayload(r)) \in Nat /\ Len(ResponsePayload(r)) > 0
    BY AnswerBytes
  <2> QED
    BY <1>13, <2>1
<1> QED
  BY <1>14 DEF ReadHeader

\* The safety half of EveryReadEnds: for any requests, with an answer and without, and
\* any responses, client and server are never both waiting for bytes. What is missing to
\* a response that is read is that the two go on, which the fairness says.
THEOREM ReadsAreSupplied ==
    ASSUME LittleEndian
    PROVE  Spec => []NoMutualWait
<1>1. Init => ResponseDue
  BY DEF Init, ResponseDue, Reading
<1>2. IInv /\ [Next]_vars => IInv'
  BY NextStep
<1>3. IInv /\ ResponseDue /\ [Next]_vars => ResponseDue'
  BY ResponseDueStep
<1>4. IInv /\ ResponseDue => NoMutualWait
  <2>1. SUFFICES ASSUME IInv, ResponseDue, Reading, link = "up", faults = 0
                 PROVE  ReadReady \/ RequestArrived
    BY DEF NoMutualWait
  <2>2. TypeServer /\ InvServer /\ TypeClient /\ InvClient
    BY <2>1 DEF IInv
  <2>3. Len(got) < Len(answered) \/ Len(served) < Len(sent)
    BY <2>1 DEF ResponseDue
  <2> QED
    BY <2>1, <2>2, <2>3, RequestIsThere, ResponseIsThere
<1> QED
  BY <1>1, <1>2, <1>3, <1>4, IInvInit, PTL DEF Spec

\* No response that the server sends with its right size is refused, for its header or its
\* payload, however the bytes of the responses lie on the connection: receive_response
\* throws when the connection is lost, and else never.
THEOREM ReadsThrowWhenCut ==
    ASSUME LittleEndian
    PROVE  Spec => ReadThrowsWhenCut
<1>1. IInv /\ [Next]_vars => IInv'
  BY NextStep
<1>2. ASSUME IInv, [Next]_vars, Reading, pc' = "threw", faults = 0
      PROVE  link = "cut"
  <2>1. TypeClient /\ InvClient
    BY <1>2 DEF IInv
  <2>2. pc \in {"header", "payload"}
    BY <1>2 DEF Reading
  <2>3. ~ReadHeader
    BY <1>2, <2>1, HeaderIsTaken
  <2>4. ~ReadPayload
    BY <1>2, <2>1, ReadPayloadStep
  <2>5. ReadFails
    BY <1>2, <2>2, <2>3, <2>4
       DEF Next, Client, Server, Cut, Over, SendRequest, SendFails, SendDisconnect, Serve,
           ServeSilently, vars, client
  <2> QED
    BY <2>5 DEF ReadFails
<1>3. IInv /\ [Next]_vars => [Reading /\ pc' = "threw" => link = "cut" \/ faults > 0]_vars
  <2>1. IInv => faults \in Nat
    BY DEF IInv, TypeClient
  <2> QED
    BY <1>2, <2>1
<1> QED
  BY <1>1, <1>3, IInvInit, PTL DEF Spec, ReadThrowsWhenCut

\* Until DISCONNECT is sent.
OnlyRequests == pc # "closed" => sent \in Seq(Requests)

LEMMA OnlyRequestsStep == OnlyRequests /\ [Next]_vars => OnlyRequests'
<1> SUFFICES ASSUME OnlyRequests, [Next]_vars
             PROVE  OnlyRequests'
  OBVIOUS
<1>1. ASSUME NEW r \in Requests, SendRequest(r)
      PROVE  OnlyRequests'
  BY <1>1, AppendProperties DEF SendRequest, Write, OnlyRequests
<1>2. CASE SendDisconnect
  BY <1>2 DEF SendDisconnect, OnlyRequests
<1>3. ASSUME UNCHANGED sent, pc' = "closed" <=> pc = "closed"
      PROVE  OnlyRequests'
  BY <1>3 DEF OnlyRequests
<1>4. CASE SendFails \/ ReadHeader \/ ReadPayload \/ ReadFails
  BY <1>3, <1>4 DEF SendFails, ReadHeader, ReadPayload, ReadFails, Accept, Refuse
<1>5. CASE Server \/ Cut \/ UNCHANGED vars
  BY <1>3, <1>5 DEF Server, Serve, ServeSilently, Cut, vars, client
<1> QED
  BY <1>1, <1>2, <1>4, <1>5 DEF Next, Client, Over

\* The payload size that is declared is the size of the payload that is sent, as its
\* comment says, for every request of a session until its last one, DISCONNECT.
THEOREM SizesDeclaredTillDisconnect ==
    Spec => [](pc # "closed" => DeclaredSizeIsSerialized)
<1>1. Init => OnlyRequests
  BY EmptySeq DEF Init, OnlyRequests
<1>2. ASSUME OnlyRequests, pc # "closed", NEW i \in DOMAIN sent
      PROVE  DeclaredSize(sent[i]) = Len(Payload(sent[i]))
  <2>1. sent \in Seq(Requests) /\ i \in 1 .. Len(sent)
    BY <1>2 DEF OnlyRequests
  <2>2. PICK r \in Requests : r = sent[i]
    BY <2>1, ElementOfSeq
  <2>3. r \in RequestRecords /\ WellBuilt(r) /\ r.code # Codes.DISCONNECT
    BY TransportAssumption
  <2>4. DeclaredSize(r) \in Nat
    BY TransportAssumption DEF U32
  <2>5. Len(Payload(r)) = DeclaredSize(r)
    BY <2>3, <2>4, DeclaredSizes
  <2> QED
    BY <2>2, <2>5
<1>3. OnlyRequests => (pc # "closed" => DeclaredSizeIsSerialized)
  BY <1>2 DEF DeclaredSizeIsSerialized
<1> QED
  BY <1>1, <1>3, OnlyRequestsStep, PTL DEF Spec
=============================================================================

-------------------------- MODULE UserInputProofs --------------------------
(***************************************************************************)
(* The prompts and the port, for every text that can be typed, all lengths *)
(* of names and fields, and every width of an int.                         *)
(***************************************************************************)
EXTENDS UserInput, FiniteSetTheorems, SequenceTheorems, WellFoundedInduction, TLAPS

Text == Words \cup {EOL}

\* s is the end of the text t.
EndOf(t, s) == \E n \in 0 .. Len(t) : s = SubSeq(t, n + 1, Len(t))

-----------------------------------------------------------------------------
(* Words and lines *)

LEMMA LeastNumber ==
    ASSUME NEW T, T \subseteq Nat, T # {}
    PROVE  \E x \in T : \A y \in T : x =< y
<1>1. PICK x \in T : \A y \in T : ~(<<y, x>> \in OpToRel(<, Nat))
  BY WFMin, NatLessThanWellFounded
<1>2. ASSUME NEW y \in T PROVE x =< y
  <2>1. ~(y < x)
    BY <1>1 DEF OpToRel
  <2> QED  BY <2>1
<1> QED  BY <1>2

\* A line ends at the first end of a line, or with the text.
LEMMA LineEnds ==
    ASSUME NEW s \in Seq(Text)
    PROVE  /\ LineLen(s) \in 0 .. Len(s)
           /\ LineLen(s) < Len(s) => s[LineLen(s) + 1] = EOL
           /\ \A j \in 1 .. LineLen(s) : s[j] # EOL
<1> DEFINE T == {n \in 0 .. Len(s) : n < Len(s) => s[n + 1] = EOL}
<1>1. Len(s) \in T /\ T \subseteq Nat
  OBVIOUS
<1>2. PICK n \in T : \A m \in T : n =< m
  BY <1>1, LeastNumber
<1>3. ASSUME NEW j \in 1 .. n, s[j] = EOL PROVE FALSE
  <2>1. j - 1 \in T
    BY <1>3
  <2>2. n =< j - 1 /\ n \in Nat
    BY <1>1, <1>2, <2>1
  <2> QED  BY <2>2
<1>4. \E k \in 0 .. Len(s) : /\ k < Len(s) => s[k + 1] = EOL
                             /\ \A j \in 1 .. k : s[j] # EOL
  BY <1>2, <1>3
<1> QED  BY <1>4 DEF LineLen

LEMMA LineIsWords ==
    ASSUME NEW s \in Seq(Text)
    PROVE  Line(s) \in Seq(Words)
<1>1. LineLen(s) \in 0 .. Len(s) /\ \A j \in 1 .. LineLen(s) : s[j] # EOL
  BY LineEnds
<1>2. \A j \in 1 .. LineLen(s) : s[j] \in Words
  BY <1>1 DEF Text
<1> QED  BY <1>1, <1>2, SubSeqProperties DEF Line

\* If there is a word to read, there is a first one.
LEMMA FirstWord ==
    ASSUME rest \in Seq(Text), HasWord
    PROVE  /\ WordAt \in DOMAIN rest /\ rest[WordAt] # EOL
           /\ \A j \in 1 .. (WordAt - 1) : rest[j] = EOL
<1> DEFINE T == {i \in DOMAIN rest : rest[i] # EOL}
<1>1. T # {} /\ T \subseteq Nat
  BY DEF HasWord
<1>2. PICK i \in T : \A j \in T : i =< j
  BY <1>1, LeastNumber
<1>3. \A j \in 1 .. (i - 1) : rest[j] = EOL
  BY <1>2
<1> QED  BY <1>2, <1>3 DEF WordAt

\* A word that is read is one, and it is taken off the text.
LEMMA WordIsRead ==
    ASSUME rest \in Seq(Text), HasWord
    PROVE  WordAt \in 1 .. Len(rest) /\ Word \in Words
BY FirstWord DEF Word, Text

-----------------------------------------------------------------------------
(* What is unread *)

LEMMA EndIsText ==
    ASSUME NEW t \in Seq(Text), NEW s, EndOf(t, s)
    PROVE  s \in Seq(Text)
BY SubSeqProperties DEF EndOf

LEMMA TextIsEnd ==
    ASSUME NEW t \in Seq(Text)
    PROVE  EndOf(t, t) /\ EndOf(t, <<>>)
<1>1. SubSeq(t, 1, Len(t)) = t
  BY SubSeqFull
<1>2. SubSeq(t, Len(t) + 1, Len(t)) = <<>>
  BY SubSeqEmpty
<1>3. Len(t) \in Nat
  OBVIOUS
<1>4. 0 \in 0 .. Len(t) /\ 0 + 1 = 1
  BY <1>3
<1> QED  BY <1>1, <1>2, <1>3, <1>4 DEF EndOf

\* The end of an end, from any position on.
LEMMA SliceOfEnd ==
    ASSUME NEW t \in Seq(Text), NEW p \in Nat \ {0}, NEW m \in Nat \ {0}
    PROVE  LET s == SubSeq(t, p, Len(t))
           IN  SubSeq(s, m, Len(s)) = SubSeq(t, p + m - 1, Len(t))
<1> DEFINE s == SubSeq(t, p, Len(t))
           u == SubSeq(s, m, Len(s))
           v == SubSeq(t, p + m - 1, Len(t))
<1>1. /\ s \in Seq(Text)
      /\ Len(s) = IF p =< Len(t) THEN Len(t) - p + 1 ELSE 0
      /\ \A i \in 1 .. Len(t) - p + 1 : s[i] = t[p + i - 1]
  BY SubSeqProperties
<1> HIDE DEF s
<1>2. /\ u \in Seq(Text)
      /\ Len(u) = IF m =< Len(s) THEN Len(s) - m + 1 ELSE 0
      /\ \A i \in 1 .. Len(s) - m + 1 : u[i] = s[m + i - 1]
  BY <1>1, SubSeqProperties
<1>3. p + m - 1 \in Int /\ Len(t) \in Int /\ \A i \in p + m - 1 .. Len(t) : t[i] \in Text
  OBVIOUS
<1>4. /\ v \in Seq(Text)
      /\ Len(v) = IF p + m - 1 =< Len(t) THEN Len(t) - (p + m - 1) + 1 ELSE 0
      /\ \A i \in 1 .. Len(t) - (p + m - 1) + 1 : v[i] = t[p + m - 1 + i - 1]
  BY <1>3, SubSeqProperties
<1> HIDE DEF u, v
<1>5. Len(u) = Len(v)
  BY <1>1, <1>2, <1>4
<1>6. ASSUME NEW i \in 1 .. Len(u) PROVE u[i] = v[i]
  <2>1. i \in 1 .. Len(s) - m + 1 /\ m + i - 1 \in 1 .. Len(t) - p + 1
    BY <1>1, <1>2
  <2>2. u[i] = s[m + i - 1] /\ s[m + i - 1] = t[p + (m + i - 1) - 1]
    BY <1>1, <1>2, <2>1
  <2>3. v[i] = t[p + m - 1 + i - 1] /\ p + m - 1 + i - 1 = p + (m + i - 1) - 1
    BY <1>1, <1>4, <2>1
  <2> QED  BY <2>2, <2>3
<1> QED  BY <1>2, <1>4, <1>5, <1>6, SeqEqual DEF s, u, v

LEMMA SliceAfter ==
    ASSUME NEW t \in Seq(Text), NEW p \in Nat \ {0}, NEW n \in Nat,
           NEW s, s = SubSeq(t, p, Len(t))
    PROVE  SubSeq(s, n + 2, Len(s)) = SubSeq(t, p + n + 1, Len(t))
<1>1. n + 2 \in Nat \ {0} /\ p + (n + 2) - 1 = p + n + 1
  OBVIOUS
<1> QED  BY <1>1, SliceOfEnd

LEMMA LaterEnd ==
    ASSUME NEW t \in Seq(Text), NEW s, EndOf(t, s), NEW m \in Nat \ {0}
    PROVE  EndOf(t, SubSeq(s, m, Len(s)))
<1>1. PICK n \in 0 .. Len(t) : s = SubSeq(t, n + 1, Len(t))
  BY DEF EndOf
<1>2. SubSeq(s, m, Len(s)) = SubSeq(t, n + m, Len(t))
  <2>1. n + 1 \in Nat \ {0} /\ (n + 1) + m - 1 = n + m
    BY <1>1
  <2> QED  BY <1>1, <2>1, SliceOfEnd
<1>3. CASE n + m =< Len(t)
  <2>1. n + m - 1 \in 0 .. Len(t) /\ (n + m - 1) + 1 = n + m
    BY <1>1, <1>3
  <2> QED  BY <1>2, <2>1 DEF EndOf
<1>4. CASE ~(n + m =< Len(t))
  <2>1. SubSeq(t, n + m, Len(t)) = <<>>
    BY <1>1, <1>4, SubSeqEmpty
  <2> QED  BY <1>2, <2>1, TextIsEnd
<1> QED  BY <1>3, <1>4

-----------------------------------------------------------------------------
(* Types *)

LEMMA PortTyped ==
    ASSUME NEW v \in Ports, PortInRange(ToInt(v))
    PROVE  /\ ToInt(v) \in 0 .. MaxPortNumber
           /\ ToInt(v) % (MaxPortNumber + 1) = ToInt(v)
<1>1. /\ v \in Int /\ IntValues \in Nat /\ MaxPortNumber \in Nat
      /\ MaxPortNumber < IntValues \div 2
  BY InputAssumption
<1>2. IntValues \div 2 \in Int /\ IntValues \in Nat \ {0}
  BY <1>1, Z3
<1>3. (v + IntValues \div 2) % IntValues \in Int
  BY <1>1, <1>2, Z3
<1>4. ToInt(v) \in 0 .. MaxPortNumber
  BY <1>1, <1>2, <1>3 DEF ToInt, PortInRange
<1> HIDE DEF ToInt
<1>5. ASSUME NEW p \in 0 .. MaxPortNumber PROVE p % (MaxPortNumber + 1) = p
  BY <1>1, Z3
<1> QED  BY <1>4, <1>5

\* The parts of TypeOK that speak of what is unread, by name.
LEMMA Unread ==
    ASSUME TypeOK
    PROVE  /\ text \in Seq(Text) /\ EndOf(text, rest) /\ EndOf(text, chosenAt)
           /\ rest \in Seq(Text) /\ chosenAt \in Seq(Text)
<1>1. text \in Seq(Text) /\ EndOf(text, rest) /\ EndOf(text, chosenAt)
  BY DEF TypeOK, EndOf, Text
<1> QED  BY <1>1, EndIsText

\* What a prompt leaves unread is the end of what was unread.
LEMMA LeftUnread ==
    ASSUME TypeOK
    PROVE  /\ EndOf(text, <<>>)
           /\ HasWord => /\ EndOf(text, AfterWord) /\ AfterWord \in Seq(Text)
                         /\ EndOf(text, Discard(AfterWord))
           /\ EndOf(text, AfterLine(rest))
<1>1. text \in Seq(Text) /\ EndOf(text, rest) /\ rest \in Seq(Text)
  BY Unread
<1>2. ASSUME NEW s, EndOf(text, s) PROVE EndOf(text, AfterLine(s))
  <2>1. LineLen(s) + 2 \in Nat \ {0}
    BY <1>1, <1>2, EndIsText, LineEnds
  <2> QED  BY <1>1, <1>2, <2>1, LaterEnd DEF AfterLine
<1>3. ASSUME HasWord PROVE EndOf(text, AfterWord)
  <2>1. WordAt + 1 \in Nat \ {0}
    BY <1>1, <1>3, WordIsRead
  <2> QED  BY <1>1, <2>1, LaterEnd DEF AfterWord
<1>4. HasWord => AfterWord \in Seq(Text) /\ EndOf(text, Discard(AfterWord))
  BY <1>1, <1>2, <1>3, EndIsText DEF Discard
<1> QED  BY <1>1, <1>2, <1>3, <1>4, TextIsEnd

LEMMA InitTyped == Init => TypeOK
<1> SUFFICES ASSUME Init PROVE TypeOK
  OBVIOUS
<1>1. text \in Seq(Text) /\ rest = text /\ chosenAt = <<>>
  BY InputAssumption DEF Init, Text
<1>2. EndOf(text, rest) /\ EndOf(text, chosenAt)
  BY <1>1, TextIsEnd
<1>3. 0 \in 0 .. MaxPortNumber
  BY InputAssumption
<1>4. selection \in Seq(Seq(Words) \ {<<>>, <<quit>>, <<done>>})
  BY EmptySeq DEF Init
<1> QED  BY <1>1, <1>2, <1>3, <1>4 DEF Init, TypeOK, None, EndOf, Text

LEMMA NextTyped == TypeOK /\ [Next]_vars => TypeOK'
<1> SUFFICES ASSUME TypeOK, [Next]_vars PROVE TypeOK'
  OBVIOUS
<1> USE DEF TypeOK
<1>r. ASSUME EndOf(text, rest')
      PROVE  \E n \in 0 .. Len(text) : rest' = SubSeq(text, n + 1, Len(text))
  BY <1>r DEF EndOf
<1>l. /\ EndOf(text, <<>>)
      /\ HasWord => /\ EndOf(text, AfterWord) /\ AfterWord \in Seq(Text)
                    /\ EndOf(text, Discard(AfterWord))
      /\ EndOf(text, AfterLine(rest))
  BY LeftUnread
<1>w. rest \in Seq(Text) /\ (HasWord => Word \in Words)
  BY Unread, WordIsRead
<1>1. CASE LoadAddress
  BY <1>1, PortTyped DEF LoadAddress
<1>2. CASE UsernameCancelled \/ UsernameRefused
  <2>1. EndOf(text, rest')
    BY <1>2, <1>l DEF UsernameCancelled, UsernameRefused
  <2> QED  BY <1>2, <1>r, <2>1 DEF UsernameCancelled, UsernameRefused, Stop
<1>3. CASE UsernameEntered
  <2>1. EndOf(text, rest') /\ username' \in {<<w>> : w \in Words}
    BY <1>3, <1>l, <1>w DEF UsernameEntered
  <2> QED  BY <1>3, <1>r, <2>1 DEF UsernameEntered
<1>4. CASE ServerAnswers
  BY <1>4 DEF ServerAnswers, Stop
<1>5. CASE DirectoryCancelled \/ DirectoryRefused
  <2>1. EndOf(text, rest')
    BY <1>5, <1>l DEF DirectoryCancelled, DirectoryRefused
  <2> QED  BY <1>5, <1>r, <2>1 DEF DirectoryCancelled, DirectoryRefused, Stop
<1>6. CASE DirectoryChosen
  <2>1. EndOf(text, rest') /\ EndOf(text, chosenAt')
    BY <1>6, <1>l DEF DirectoryChosen
  <2>2. directory' \in {<<w>> : w \in Directories}
    BY <1>6 DEF DirectoryChosen, Usable
  <2>3. \E n \in 0 .. Len(text) : chosenAt' = SubSeq(text, n + 1, Len(text))
    BY <2>1 DEF EndOf
  <2> QED  BY <1>6, <1>r, <2>1, <2>2, <2>3 DEF DirectoryChosen
<1>7. CASE LinesEnd
  BY <1>7 DEF LinesEnd, Finish, Stop
<1>8. CASE ReadLine
  <2>1. EndOf(text, rest')
    BY <1>8, <1>l DEF ReadLine
  <2>2. Line(rest) \in Seq(Words)
    BY <1>w, LineIsWords
  <2>3. selection' \in Seq(Seq(Words) \ {<<>>, <<quit>>, <<done>>})
    <3>1. CASE Line(rest) \in {<<quit>>, <<done>>} \/ ~IsName(Line(rest))
      BY <1>8, <3>1 DEF ReadLine, Stop, Finish, IsName
    <3>2. CASE Line(rest) \notin {<<quit>>, <<done>>} /\ IsName(Line(rest))
      <4>1. selection' = Append(selection, Line(rest))
        BY <1>8, <3>2 DEF ReadLine
      <4>2. Line(rest) \in Seq(Words) \ {<<>>, <<quit>>, <<done>>}
        BY <2>2, <3>2 DEF IsName
      <4> QED  BY <4>1, <4>2, AppendProperties
    <3> QED  BY <3>1, <3>2
  <2>4. /\ pc' \in {"cancelled", "files", "backup"}
        /\ UNCHANGED <<configured, port, known, text, username, directory, chosenAt>>
    BY <1>8 DEF ReadLine, Stop, Finish
  <2> QED  BY <1>r, <2>1, <2>3, <2>4
<1>9. CASE UNCHANGED vars
  BY <1>9 DEF vars
<1> QED  BY <1>1, <1>2, <1>3, <1>4, <1>5, <1>6, <1>7, <1>8, <1>9 DEF Next, Step, Over

\* Every variable keeps its type; in particular what the prompts have not read is
\* always the end of what was typed: no prompt puts back or skips to another place.
THEOREM TypeCorrect == Spec => []TypeOK
<1> QED  BY InitTyped, NextTyped, PTL DEF Spec

-----------------------------------------------------------------------------
(* The port *)

\* The port that was looked at is the one connected to, whatever the number of bits
\* of an int: static_cast<uint16_t> in load_server_address changes nothing.
THEOREM PortIsWhole == Spec => []PortNotCut
<1>1. Init => PortNotCut
  BY DEF Init, PortNotCut
<1>2. TypeOK /\ PortNotCut /\ [Next]_vars => PortNotCut'
  <2> SUFFICES ASSUME TypeOK, PortNotCut, [Next]_vars PROVE PortNotCut'
    OBVIOUS
  <2> USE DEF PortNotCut
  <2>1. CASE LoadAddress
    <3>1. CASE PortInRange(ToInt(configured))
      BY <2>1, <3>1, PortTyped DEF LoadAddress, TypeOK
    <3> QED  BY <2>1, <3>1 DEF LoadAddress
  <2>2. CASE UsernameCancelled \/ UsernameRefused \/ UsernameEntered \/ ServerAnswers
    BY <2>2 DEF UsernameCancelled, UsernameRefused, UsernameEntered, ServerAnswers, Stop
  <2>3. CASE DirectoryCancelled \/ DirectoryRefused \/ DirectoryChosen
    BY <2>3 DEF DirectoryCancelled, DirectoryRefused, DirectoryChosen, Stop
  <2>4. CASE LinesEnd \/ ReadLine
    <3>1. pc = "files" /\ UNCHANGED <<configured, port>>
      BY <2>4 DEF LinesEnd, ReadLine, Finish, Stop
    <3> QED  BY <3>1
  <2>5. CASE UNCHANGED vars
    BY <2>5 DEF vars
  <2> QED  BY <2>1, <2>2, <2>3, <2>4, <2>5 DEF Next, Step, Over
<1> QED  BY <1>1, <1>2, TypeCorrect, PTL DEF Spec

LEMMA IntKept ==
    ASSUME NEW v \in Int, v >= -(IntValues \div 2), v < IntValues \div 2
    PROVE  ToInt(v) = v
<1>1. IntValues \in Nat /\ IntValues % 2 = 0
  BY InputAssumption
<1>2. IntValues \div 2 \in Nat /\ IntValues = 2 * (IntValues \div 2)
  BY <1>1, Z3
<1> DEFINE h == IntValues \div 2
<1>3. h \in Nat /\ IntValues = 2 * h /\ v + h >= 0 /\ v + h < 2 * h
  BY <1>2
<1>4. ToInt(v) = ((v + h) % (2 * h)) - h
  BY <1>3 DEF ToInt
<1> HIDE DEF h
<1>5. (v + h) % (2 * h) = v + h
  BY <1>3, Z3
<1> QED  BY <1>3, <1>4, <1>5

\* Where the comment of load_server_address holds: a port outside the range is refused
\* as long as an int can hold it. It is the first conversion that lets others through.
THEOREM BadPortRefusedInInt ==
    Spec => [](/\ configured >= -(IntValues \div 2)
               /\ configured < IntValues \div 2
               => BadPortThrows)
<1>1. ASSUME TypeOK, PortNotCut, configured >= -(IntValues \div 2),
             configured < IntValues \div 2
      PROVE  BadPortThrows
  <2>1. configured \in Int
    BY <1>1, InputAssumption DEF TypeOK
  <2>2. ToInt(configured) = configured
    BY <1>1, <2>1, IntKept
  <2> QED  BY <1>1, <2>2 DEF PortNotCut, BadPortThrows, TypeOK
<1> QED  BY <1>1, TypeCorrect, PortIsWhole, PTL

-----------------------------------------------------------------------------
(* The selection *)

LEMMA NamesAreFinite ==
    ASSUME chosenAt \in Seq(Text), NEW p
    PROVE  IsFiniteSet(NamesBefore(p)) /\ Cardinality(NamesBefore(p)) \in Nat
<1>1. IsFiniteSet(1 .. Len(chosenAt))
  BY FS_Interval
<1>2. NamesBefore(p) \subseteq 1 .. Len(chosenAt)
  BY DEF NamesBefore, LineStarts
<1> QED  BY <1>1, <1>2, FS_Subset, FS_CardinalityType

\* The line that begins at p ends before the next one begins, and no other begins
\* between the two.
LEMMA NextLine ==
    ASSUME chosenAt \in Seq(Text), NEW p \in Nat \ {0},
           rest = SubSeq(chosenAt, p, Len(chosenAt))
    PROVE  LET q == p + LineLen(rest) + 1
           IN  /\ LineLen(rest) \in 0 .. Len(rest)
               /\ AfterLine(rest) = SubSeq(chosenAt, q, Len(chosenAt))
               /\ q =< Len(chosenAt) + 2 \/ p > Len(chosenAt) + 1
               /\ q \in DOMAIN chosenAt => q \in LineStarts
               /\ \A i \in LineStarts : i < q => i =< p
<1> DEFINE n == LineLen(rest)
           q == p + n + 1
<1>1. /\ rest \in Seq(Text)
      /\ Len(rest) = IF p =< Len(chosenAt) THEN Len(chosenAt) - p + 1 ELSE 0
      /\ \A i \in 1 .. Len(chosenAt) - p + 1 : rest[i] = chosenAt[p + i - 1]
  BY SubSeqProperties
<1>2. /\ n \in 0 .. Len(rest)
      /\ n < Len(rest) => rest[n + 1] = EOL
      /\ \A j \in 1 .. n : rest[j] # EOL
  BY <1>1, LineEnds
<1> HIDE DEF n
<1>3. AfterLine(rest) = SubSeq(chosenAt, q, Len(chosenAt))
  <2>1. n \in Nat
    BY <1>1, <1>2
  <2>2. SubSeq(rest, n + 2, Len(rest)) = SubSeq(chosenAt, p + n + 1, Len(chosenAt))
    BY <2>1, SliceAfter
  <2> QED  BY <2>2 DEF AfterLine, n
<1>4. q =< Len(chosenAt) + 2 \/ p > Len(chosenAt) + 1
  BY <1>1, <1>2
<1>5. ASSUME q \in DOMAIN chosenAt PROVE q \in LineStarts
  <2>1. n + 1 \in 1 .. Len(rest) /\ n + 1 \in 1 .. Len(chosenAt) - p + 1
    BY <1>1, <1>2, <1>5
  <2>2. chosenAt[p + (n + 1) - 1] = EOL
    BY <1>1, <1>2, <2>1
  <2>3. p + (n + 1) - 1 = q - 1 /\ q > 1
    BY <1>2
  <2>4. chosenAt[q - 1] = EOL
    BY <2>2, <2>3
  <2> HIDE DEF q
  <2> QED  BY <1>5, <2>3, <2>4 DEF LineStarts
<1>6. ASSUME NEW i \in LineStarts, i < q, p < i PROVE FALSE
  <2>1. i \in 1 .. Len(chosenAt) /\ chosenAt[i - 1] = EOL
    BY DEF LineStarts
  <2>2. i - p \in 1 .. n /\ i - p \in 1 .. Len(chosenAt) - p + 1 /\ p + (i - p) - 1 = i - 1
    BY <1>2, <1>6, <2>1
  <2> QED  BY <1>1, <1>2, <2>1, <2>2
<1>7. \A i \in LineStarts : i < q => i =< p
  BY <1>2, <1>6 DEF LineStarts
<1> QED  BY <1>2, <1>3, <1>4, <1>5, <1>7 DEF n

\* SelectedUpTo for any list of names.
Selected(names, p) ==
    /\ Len(names) = Cardinality(NamesBefore(p))
    /\ \A i \in NamesBefore(p) : names[Cardinality(NamesBefore(i)) + 1] = LineAt(i)
    /\ \A i \in LineStarts :
           i < p => /\ LineAt(i) # <<quit>>
                    /\ LineAt(i) = <<done>> => NamesBefore(i) = {}

\* Past the line at p, a name is one more, and other lines change nothing.
LEMMA OneLineOn ==
    ASSUME chosenAt \in Seq(Text), selection \in Seq(Seq(Words)),
           NEW p \in LineStarts, NEW q \in Nat, p < q,
           \A i \in LineStarts : i < q => i =< p,
           Selected(selection, p), LineAt(p) \in Seq(Words), LineAt(p) # <<quit>>,
           LineAt(p) = <<done>> => NamesBefore(p) = {}
    PROVE  Selected(IF IsName(LineAt(p)) THEN Append(selection, LineAt(p)) ELSE selection, q)
<1> DEFINE names == IF IsName(LineAt(p)) THEN Append(selection, LineAt(p)) ELSE selection
           before == NamesBefore(p)
<1>0. p \in Nat /\ p \notin before /\ \A i \in before : i \in LineStarts /\ i < p
  BY DEF NamesBefore, LineStarts
<1>1. NamesBefore(q) = IF IsName(LineAt(p)) THEN before \cup {p} ELSE before
  <2>1. ASSUME NEW i \in LineStarts
        PROVE  i < q <=> i < p \/ i = p
    BY <1>0 DEF LineStarts
  <2> QED  BY <2>1, <1>0 DEF NamesBefore
<1>2. IsFiniteSet(before) /\ Cardinality(before) \in Nat /\ Len(selection) = Cardinality(before)
  BY NamesAreFinite DEF Selected
<1>3. /\ names \in Seq(Seq(Words))
      /\ Len(names) = IF IsName(LineAt(p)) THEN Len(selection) + 1 ELSE Len(selection)
      /\ \A k \in 1 .. Len(selection) : names[k] = selection[k]
      /\ IsName(LineAt(p)) => names[Len(selection) + 1] = LineAt(p)
  BY AppendProperties
<1>4. Len(names) = Cardinality(NamesBefore(q))
  <2>1. Cardinality(before \cup {p}) = Cardinality(before) + 1
    BY <1>0, <1>2, FS_AddElement
  <2> QED  BY <1>1, <1>2, <1>3, <2>1
<1>5. ASSUME NEW i \in before
      PROVE  Cardinality(NamesBefore(i)) + 1 \in 1 .. Len(selection)
  <2>1. NamesBefore(i) \cup {i} \subseteq before /\ i \notin NamesBefore(i)
    BY <1>0 DEF NamesBefore, LineStarts
  <2>2. IsFiniteSet(NamesBefore(i)) /\ Cardinality(NamesBefore(i)) \in Nat
    BY NamesAreFinite
  <2>3. Cardinality(NamesBefore(i) \cup {i}) = Cardinality(NamesBefore(i)) + 1
    BY <2>1, <2>2, FS_AddElement
  <2>4. Cardinality(NamesBefore(i) \cup {i}) =< Cardinality(before)
    BY <1>2, <2>1, FS_Subset
  <2> QED  BY <1>2, <2>2, <2>3, <2>4
<1> HIDE DEF names, before
<1>6. ASSUME NEW i \in NamesBefore(q)
      PROVE  names[Cardinality(NamesBefore(i)) + 1] = LineAt(i)
  <2>1. CASE i \in before
    BY <2>1, <1>3, <1>5 DEF Selected, before
  <2>2. CASE i \notin before
    BY <2>2, <1>1, <1>2, <1>3 DEF before
  <2> QED  BY <2>1, <2>2
<1>7. ASSUME NEW i \in LineStarts, i < q
      PROVE  /\ LineAt(i) # <<quit>>
             /\ LineAt(i) = <<done>> => NamesBefore(i) = {}
  <2>1. i = p \/ i < p
    BY <1>0, <1>7 DEF LineStarts
  <2> QED  BY <2>1 DEF Selected
<1> QED  BY <1>4, <1>6, <1>7 DEF Selected, names

\* What is said of the lines holds of them after a step that leaves chosenAt alone.
LEMMA SameLines ==
    ASSUME UNCHANGED chosenAt
    PROVE  /\ LineStarts' = LineStarts
           /\ \A p : LineAt(p)' = LineAt(p)
           /\ \A p : NamesBefore(p)' = NamesBefore(p)
           /\ \A p : SelectedUpTo(p)' <=> Selected(selection', p)
<1>1. LineStarts' = LineStarts
  BY DEF LineStarts
<1>2. ASSUME NEW p PROVE LineAt(p)' = LineAt(p)
  BY DEF LineAt
<1>3. ASSUME NEW p PROVE NamesBefore(p)' = NamesBefore(p)
  BY <1>1, <1>2 DEF NamesBefore
<1>4. ASSUME NEW p PROVE SelectedUpTo(p)' <=> Selected(selection', p)
  BY <1>1, <1>2, <1>3 DEF SelectedUpTo, Selected
<1> QED  BY <1>1, <1>2, <1>3, <1>4

\* The line that is read is the one at p.
LEMMA LineIsAt ==
    ASSUME TypeOK, pc = "files", SelectionInv, rest # <<>>
    PROVE  \E p \in LineStarts :
               /\ LineAt(p) = Line(rest) /\ Line(rest) \in Seq(Words)
               /\ Selected(selection, p)
               /\ \E q \in 2 .. Len(chosenAt) + 2 :
                      /\ p < q
                      /\ AfterLine(rest) = SubSeq(chosenAt, q, Len(chosenAt))
                      /\ q \in DOMAIN chosenAt => q \in LineStarts
                      /\ \A i \in LineStarts : i < q => i =< p
<1>1. chosenAt \in Seq(Text) /\ rest \in Seq(Text)
  BY Unread
<1>2. PICK p \in 2 .. Len(chosenAt) + 2 :
          /\ p \in DOMAIN chosenAt => p \in LineStarts
          /\ rest = SubSeq(chosenAt, p, Len(chosenAt))
          /\ SelectedUpTo(p)
  BY DEF SelectionInv
<1>3. p =< Len(chosenAt)
  BY <1>1, <1>2, SubSeqEmpty
<1>4. p \in LineStarts /\ LineAt(p) = Line(rest)
  BY <1>1, <1>2, <1>3 DEF LineAt
<1> DEFINE q == p + LineLen(rest) + 1
<1>5. /\ LineLen(rest) \in 0 .. Len(rest)
      /\ AfterLine(rest) = SubSeq(chosenAt, q, Len(chosenAt))
      /\ q =< Len(chosenAt) + 2 \/ p > Len(chosenAt) + 1
      /\ q \in DOMAIN chosenAt => q \in LineStarts
      /\ \A i \in LineStarts : i < q => i =< p
  BY <1>1, <1>2, NextLine
<1>6. q \in 2 .. Len(chosenAt) + 2 /\ p < q
  <2>1. Len(rest) \in Nat /\ LineLen(rest) \in Nat
    BY <1>1, <1>5
  <2> HIDE DEF q
  <2>2. q \in Nat /\ p < q
    BY <2>1 DEF q
  <2> QED  BY <1>1, <1>2, <1>3, <1>5, <2>2
<1>7. Line(rest) \in Seq(Words)
  BY <1>1, LineIsWords
<1>8. Selected(selection, p)
  BY <1>2 DEF SelectedUpTo, Selected
<1> QED  BY <1>4, <1>5, <1>6, <1>7, <1>8

\* One turn of the loop over the lines.
LEMMA ReadLineKeeps ==
    ASSUME TypeOK, SelectionInv, ReadLine
    PROVE  SelectionInv' /\ SelectionAsTyped'
<1>1. /\ pc = "files" /\ rest # <<>> /\ UNCHANGED chosenAt
      /\ rest' = AfterLine(rest)
  BY DEF ReadLine, Finish, Stop
<1>2. PICK p \in LineStarts :
               /\ LineAt(p) = Line(rest) /\ Line(rest) \in Seq(Words)
               /\ Selected(selection, p)
               /\ \E q \in 2 .. Len(chosenAt) + 2 :
                      /\ p < q
                      /\ AfterLine(rest) = SubSeq(chosenAt, q, Len(chosenAt))
                      /\ q \in DOMAIN chosenAt => q \in LineStarts
                      /\ \A i \in LineStarts : i < q => i =< p
  BY <1>1, LineIsAt
<1>3. PICK q \in 2 .. Len(chosenAt) + 2 :
          /\ p < q
          /\ AfterLine(rest) = SubSeq(chosenAt, q, Len(chosenAt))
          /\ q \in DOMAIN chosenAt => q \in LineStarts
          /\ \A i \in LineStarts : i < q => i =< p
  BY <1>2
<1>4. chosenAt \in Seq(Text) /\ selection \in Seq(Seq(Words)) /\ q \in Nat
  <2>1. chosenAt \in Seq(Text)
    BY Unread
  <2>2. selection \in Seq(Seq(Words))
    BY SeqMonotonic DEF TypeOK
  <2> QED  BY <2>1, <2>2
<1>5. LineStarts' = LineStarts /\ (\A i : LineAt(i)' = LineAt(i))
      /\ (\A i : NamesBefore(i)' = NamesBefore(i))
      /\ (\A i : SelectedUpTo(i)' <=> Selected(selection', i))
  BY <1>1, SameLines
<1>6. ASSUME pc' = "files", Selected(selection', q)
      PROVE  SelectionInv' /\ SelectionAsTyped'
  BY <1>1, <1>3, <1>5, <1>6 DEF SelectionInv, SelectionAsTyped
<1>7. CASE Line(rest) = <<quit>>
  <2>1. pc' = "cancelled"
    BY <1>7, InputAssumption DEF ReadLine, Stop
  <2> QED  BY <2>1 DEF SelectionInv, SelectionAsTyped
<1>8. CASE Line(rest) = <<done>> /\ selection = <<>>
  <2>1. pc' = "files" /\ selection' = selection
    BY <1>8, InputAssumption DEF ReadLine, Finish
  <2>2. NamesBefore(p) = {}
    <3>1. Cardinality(NamesBefore(p)) = 0
      BY <1>2, <1>8, EmptySeq DEF Selected
    <3> QED  BY <3>1, <1>4, NamesAreFinite, FS_EmptySet
  <2>3. ~IsName(LineAt(p)) /\ LineAt(p) # <<quit>>
    BY <1>2, <1>8, InputAssumption DEF IsName
  <2>4. Selected(selection, q)
    BY <1>2, <1>3, <1>4, <2>2, <2>3, OneLineOn
  <2> QED  BY <1>6, <2>1, <2>4
<1>9. CASE Line(rest) = <<done>> /\ selection # <<>>
  <2>1. pc' = "backup" /\ selection' = selection
    BY <1>9, InputAssumption DEF ReadLine, Finish
  <2>2. NamesBefore(p) # {}
    <3>1. Cardinality(NamesBefore(p)) # 0
      BY <1>2, <1>4, <1>9, EmptySeq DEF Selected
    <3> QED  BY <3>1, FS_EmptySet
  <2>3. /\ p \in LineStarts' /\ LineAt(p)' = <<done>> /\ NamesBefore(p)' # {}
        /\ SelectedUpTo(p)'
    BY <1>2, <1>5, <1>9, <2>1, <2>2
  <2> QED  BY <2>1, <2>3 DEF SelectionInv, SelectionAsTyped
<1>10. CASE Line(rest) \notin {<<quit>>, <<done>>}
  <2>1. /\ pc' = "files"
        /\ selection' = IF IsName(LineAt(p)) THEN Append(selection, LineAt(p)) ELSE selection
    BY <1>1, <1>2, <1>10 DEF ReadLine
  <2>2. Selected(selection', q)
    BY <1>2, <1>3, <1>4, <1>10, <2>1, OneLineOn
  <2> QED  BY <1>6, <2>1, <2>2
<1> QED  BY <1>7, <1>8, <1>9, <1>10

\* The prompt for a directory takes its line off the text, and nothing is selected yet.
LEMMA DirectoryKeeps ==
    ASSUME TypeOK, SelectionInv, DirectoryChosen
    PROVE  SelectionInv' /\ SelectionAsTyped'
<1>1. PICK a : a = AfterWord
  OBVIOUS
<1>2. a \in Seq(Text)
  BY <1>1, LeftUnread DEF DirectoryChosen
<1>3. PICK n \in 0 .. Len(a) : n = LineLen(a)
  BY <1>2, LineEnds
<1>4. /\ n < Len(a) => a[n + 1] = EOL
      /\ \A j \in 1 .. n : a[j] # EOL
  BY <1>2, <1>3, LineEnds
<1>5. /\ chosenAt' = a /\ rest' = SubSeq(a, n + 2, Len(a))
      /\ pc' = "files" /\ selection' = <<>>
  BY <1>1, <1>3 DEF DirectoryChosen, Discard, AfterLine, SelectionInv
<1>6. LineStarts' = {i \in DOMAIN a : i > 1 /\ a[i - 1] = EOL}
  BY <1>5 DEF LineStarts
<1>7. \A i \in LineStarts' : ~(i < n + 2)
  <2>1. ASSUME NEW i \in DOMAIN a, i > 1, a[i - 1] = EOL, i < n + 2 PROVE FALSE
    <3>1. i - 1 \in 1 .. n
      BY <1>2, <2>1
    <3> QED  BY <1>4, <2>1, <3>1
  <2> QED  BY <1>6, <2>1
<1>8. PICK p \in 2 .. Len(a) + 2 : p = n + 2
  BY <1>2
<1>9. NamesBefore(p)' = {}
  BY <1>7, <1>8 DEF NamesBefore
<1>10. SelectedUpTo(p)'
  <2>1. Cardinality({}) = 0 /\ Len(<<>>) = 0
    BY FS_EmptySet
  <2> QED  BY <1>5, <1>7, <1>8, <1>9, <2>1 DEF SelectedUpTo
<1>11. p \in DOMAIN a => p \in LineStarts'
  <2>1. p \in DOMAIN a => n < Len(a) /\ p - 1 = n + 1 /\ p > 1
    BY <1>2, <1>8
  <2> QED  BY <1>4, <1>6, <2>1
<1> QED  BY <1>5, <1>8, <1>10, <1>11 DEF SelectionInv, SelectionAsTyped

LEMMA SelectionStep ==
    ASSUME TypeOK, SelectionInv, SelectionAsTyped, [Next]_vars
    PROVE  SelectionInv' /\ SelectionAsTyped'
<1>1. CASE ReadLine
  BY <1>1, ReadLineKeeps
<1>2. CASE DirectoryChosen
  BY <1>2, DirectoryKeeps
<1>3. CASE LinesEnd
  <2>1. rest = <<>> /\ pc' = "cancelled"
    BY <1>3 DEF LinesEnd, InputClosed, Stop
  <2> QED  BY <2>1 DEF SelectionInv, SelectionAsTyped
<1>4. ASSUME pc \in {"config", "username", "registering", "directory"},
             pc' \in {"username", "registering", "directory", "cancelled", "threw"},
             UNCHANGED selection
      PROVE  SelectionInv' /\ SelectionAsTyped'
  BY <1>4 DEF SelectionInv, SelectionAsTyped
<1>5. CASE LoadAddress
  BY <1>4, <1>5 DEF LoadAddress
<1>6. CASE UsernameCancelled \/ UsernameRefused \/ UsernameEntered \/ ServerAnswers
  BY <1>4, <1>6 DEF UsernameCancelled, UsernameRefused, UsernameEntered, ServerAnswers, Stop
<1>7. CASE DirectoryCancelled \/ DirectoryRefused
  BY <1>4, <1>7 DEF DirectoryCancelled, DirectoryRefused, Stop
<1>8. CASE UNCHANGED vars
  <2>1. /\ UNCHANGED <<pc, rest, selection, chosenAt>>
        /\ LineStarts' = LineStarts /\ (\A i : LineAt(i)' = LineAt(i))
        /\ (\A i : NamesBefore(i)' = NamesBefore(i))
        /\ (\A i : SelectedUpTo(i)' <=> Selected(selection, i))
    BY <1>8, SameLines DEF vars
  <2>2. \A i : SelectedUpTo(i) <=> Selected(selection, i)
    BY DEF SelectedUpTo, Selected
  <2> QED  BY <2>1, <2>2 DEF SelectionInv, SelectionAsTyped
<1> QED  BY <1>1, <1>2, <1>3, <1>5, <1>6, <1>7, <1>8 DEF Next, Step, Over

\* A backup starts only after `done', with some name before it and no `quit', and with
\* exactly the names that were typed, in their order, whatever was typed before at the
\* other prompts and wherever the input is closed.
THEOREM SelectionIsAsTyped == Spec => []SelectionAsTyped
<1>1. Init => SelectionInv /\ SelectionAsTyped
  BY DEF Init, SelectionInv, SelectionAsTyped
<1>2. TypeOK /\ SelectionInv /\ SelectionAsTyped /\ [Next]_vars
          => SelectionInv' /\ SelectionAsTyped'
  BY SelectionStep
<1> QED  BY <1>1, <1>2, TypeCorrect, PTL DEF Spec

-----------------------------------------------------------------------------
(* The directory *)

\* Where the end s of a text begins in it.
LEMMA EndPlace ==
    ASSUME NEW t \in Seq(Text), NEW s, EndOf(t, s)
    PROVE  /\ Len(s) \in 0 .. Len(t)
           /\ \A j \in 1 .. Len(s) : s[j] = t[Len(t) - Len(s) + j]
<1>1. PICK n \in 0 .. Len(t) : s = SubSeq(t, n + 1, Len(t))
  BY DEF EndOf
<1>2. /\ Len(s) = IF n + 1 =< Len(t) THEN Len(t) - (n + 1) + 1 ELSE 0
      /\ \A i \in 1 .. Len(t) - (n + 1) + 1 : s[i] = t[(n + 1) + i - 1]
  BY <1>1, SubSeqProperties
<1>3. Len(t) \in Nat /\ n \in 0 .. Len(t) /\ Len(s) = Len(t) - n
  BY <1>1, <1>2
<1>4. ASSUME NEW j \in 1 .. Len(s) PROVE s[j] = t[Len(t) - Len(s) + j]
  <2>1. j \in 1 .. Len(t) - (n + 1) + 1 /\ (n + 1) + j - 1 = Len(t) - Len(s) + j
    BY <1>3
  <2> QED  BY <1>2, <2>1
<1> QED  BY <1>3, <1>4

\* The word that is read next, by its place in the text.
LEMMA WordPlace ==
    ASSUME TypeOK, HasWord, NEW w, w = Len(text) - Len(AfterWord)
    PROVE  /\ Read \in 0 .. Len(text) /\ w \in Read + 1 .. Len(text)
           /\ text[w] = Word /\ text[w] # EOL
           /\ \A j \in Read + 1 .. w - 1 : text[j] = EOL
<1>1. /\ text \in Seq(Text) /\ rest \in Seq(Text)
      /\ Len(rest) \in 0 .. Len(text)
      /\ \A j \in 1 .. Len(rest) : rest[j] = text[Read + j]
  BY Unread, EndPlace DEF Read
<1>2. /\ WordAt \in 1 .. Len(rest)
      /\ rest[WordAt] # EOL /\ \A j \in 1 .. WordAt - 1 : rest[j] = EOL
  BY <1>1, FirstWord
<1>3. w = Read + WordAt
  <2>1. Len(AfterWord) = Len(rest) - WordAt
    <3>1. Len(AfterWord) = IF WordAt + 1 =< Len(rest) THEN Len(rest) - (WordAt + 1) + 1 ELSE 0
      BY <1>1, <1>2, SubSeqProperties DEF AfterWord
    <3> QED  BY <1>1, <1>2, <3>1
  <2> QED  BY <1>1, <1>2, <2>1 DEF Read
<1>4. Read \in 0 .. Len(text) /\ Len(rest) = Len(text) - Read
  BY <1>1 DEF Read
<1> HIDE DEF Read
<1>5. text[w] = rest[WordAt] /\ w \in Read + 1 .. Len(text)
  <2>1. rest[WordAt] = text[Read + WordAt]
    BY <1>1, <1>2
  <2>2. WordAt \in 1 .. Len(text) - Read
    BY <1>2, <1>4
  <2> QED  BY <1>3, <1>4, <2>1, <2>2
<1>6. ASSUME NEW j \in Read + 1 .. w - 1 PROVE text[j] = EOL
  <2>1. j - Read \in 1 .. WordAt - 1 /\ Read + (j - Read) = j /\ j - Read \in 1 .. Len(rest)
    BY <1>2, <1>3, <1>4
  <2>2. rest[j - Read] = text[j]
    BY <1>1, <2>1
  <2> QED  BY <1>2, <2>1, <2>2
<1> QED  BY <1>2, <1>4, <1>5, <1>6 DEF Word

\* What is dropped with a line: up to the next end of one, or all that is left.
LEMMA LinePlace ==
    ASSUME NEW t \in Seq(Text), NEW s, EndOf(t, s)
    PROVE  LET n == Len(t) - Len(s)
               m == Len(t) - Len(AfterLine(s))
           IN  /\ m \in n .. Len(t)
               /\ m = Len(t) \/ t[m] = EOL
               /\ \A i \in n + 1 .. m - 1 : t[i] # EOL
<1> DEFINE n == Len(t) - Len(s)
           m == Len(t) - Len(AfterLine(s))
<1>1. /\ s \in Seq(Text) /\ Len(s) \in 0 .. Len(t)
      /\ \A j \in 1 .. Len(s) : s[j] = t[n + j]
  BY EndIsText, EndPlace
<1>2. PICK k : k = LineLen(s)
  OBVIOUS
<1>3. PICK l : l = Len(s)
  OBVIOUS
<1>4. /\ k \in 0 .. l
      /\ k < l => s[k + 1] = EOL
      /\ \A j \in 1 .. k : s[j] # EOL
  BY <1>1, <1>2, <1>3, LineEnds
<1>5. n \in Nat /\ l = Len(t) - n /\ Len(t) \in Nat /\ l \in Nat /\ k \in Nat
  BY <1>1, <1>3, <1>4
<1>6. m = IF k + 2 =< l THEN n + k + 1 ELSE Len(t)
  <2>1. Len(AfterLine(s)) = IF k + 2 =< l THEN l - (k + 2) + 1 ELSE 0
    BY <1>1, <1>2, <1>3, <1>5, SubSeqProperties DEF AfterLine
  <2> QED  BY <1>5, <2>1
<1>7. \A j \in 1 .. l : s[j] = t[n + j]
  BY <1>1, <1>3
<1> HIDE DEF n, m
<1>8. m \in n .. Len(t) /\ m - 1 =< n + k
  BY <1>4, <1>5, <1>6
<1>9. ASSUME NEW i \in n + 1 .. m - 1 PROVE t[i] # EOL
  <2>1. i - n \in 1 .. k /\ i - n \in 1 .. l /\ n + (i - n) = i
    BY <1>4, <1>5, <1>8
  <2> QED  BY <1>4, <1>7, <2>1
<1>10. ASSUME m # Len(t) PROVE t[m] = EOL
  <2>1. m = n + (k + 1) /\ k + 1 \in 1 .. l /\ k < l
    BY <1>5, <1>6, <1>10
  <2> QED  BY <1>4, <1>7, <2>1
<1> QED  BY <1>8, <1>9, <1>10 DEF n, m

\* A word read by the prompt for the directory is an answer, and those before it
\* would not do.
LEMMA AnswerIsNext ==
    ASSUME TypeOK, HasWord, NEW w, w = Len(text) - Len(AfterWord),
           NEW u \in 0 .. Read, Refused(u, Read), Read \in {u, Len(text)} \/ text[Read] = EOL
    PROVE  w \in Answers(u) /\ Refused(u, w - 1)
<1>1. /\ text \in Seq(Text)
      /\ Read \in 0 .. Len(text) /\ w \in Read + 1 .. Len(text)
      /\ text[w] = Word /\ text[w] # EOL
      /\ \A j \in Read + 1 .. w - 1 : text[j] = EOL
  BY Unread, WordPlace
<1> HIDE DEF Read
<1>2. w = u + 1 \/ text[w - 1] = EOL
  <2>1. CASE w = Read + 1
    <3>1. Read # Len(text) /\ w - 1 = Read /\ Len(text) \in Nat
      BY <1>1, <2>1
    <3> QED  BY <2>1, <3>1
  <2>2. CASE w # Read + 1
    <3>1. Read \in Nat /\ w \in Nat /\ Read + 1 =< w
      BY <1>1
    <3>2. w - 1 \in Read + 1 .. w - 1
      BY <2>2, <3>1
    <3> QED  BY <1>1, <3>2
  <2> QED  BY <2>1, <2>2
<1>3. ASSUME NEW i \in Answers(u), i =< w - 1 PROVE i =< Read
  BY <1>1, <1>3 DEF Answers
<1> QED  BY <1>1, <1>2, <1>3 DEF Answers, Refused

\* An answer that will not do takes its line along.
LEMMA AnswerIsDropped ==
    ASSUME TypeOK, HasWord, NEW u \in 0 .. Read, Refused(u, Read),
           Read \in {u, Len(text)} \/ text[Read] = EOL,
           Word # quit, ~Usable(Word),
           NEW m, m = Len(text) - Len(Discard(AfterWord))
    PROVE  /\ m \in u .. Len(text) /\ Refused(u, m)
           /\ m = Len(text) \/ text[m] = EOL
<1>1. PICK w : w = Len(text) - Len(AfterWord)
  OBVIOUS
<1>2. /\ text \in Seq(Text)
      /\ Read \in 0 .. Len(text) /\ w \in Read + 1 .. Len(text)
      /\ text[w] = Word /\ text[w] # EOL
      /\ w \in Answers(u) /\ Refused(u, w - 1)
  BY <1>1, Unread, WordPlace, AnswerIsNext
<1>3. /\ m \in w .. Len(text)
      /\ m = Len(text) \/ text[m] = EOL
      /\ \A i \in w + 1 .. m - 1 : text[i] # EOL
  <2>1. EndOf(text, AfterWord) /\ m = Len(text) - Len(AfterLine(AfterWord))
    BY LeftUnread DEF Discard
  <2> HIDE DEF Read
  <2>2. PICK s : s = AfterWord
    OBVIOUS
  <2>3. EndOf(text, s) /\ w = Len(text) - Len(s) /\ m = Len(text) - Len(AfterLine(s))
    BY <1>1, <2>1, <2>2
  <2>4. /\ Len(text) - Len(AfterLine(s)) \in Len(text) - Len(s) .. Len(text)
        /\ Len(text) - Len(AfterLine(s)) = Len(text) \/ text[Len(text) - Len(AfterLine(s))] = EOL
        /\ \A i \in Len(text) - Len(s) + 1 .. Len(text) - Len(AfterLine(s)) - 1 : text[i] # EOL
    BY <1>2, <2>3, LinePlace
  <2> QED  BY <2>3, <2>4
<1> HIDE DEF Read
<1>4. ASSUME NEW i \in Answers(u), i =< m PROVE i =< w
  <2>1. SUFFICES ASSUME i > w PROVE FALSE
    BY <1>2 DEF Answers
  <2>2. i \in Int /\ w \in Int /\ m \in Int /\ u < w /\ (i = u + 1 \/ text[i - 1] = EOL)
    BY <1>2, <1>3, <1>4 DEF Answers
  <2>3. text[i - 1] = EOL /\ (i - 1 = w \/ i - 1 \in w + 1 .. m - 1)
    BY <1>4, <2>1, <2>2
  <2> QED  BY <1>2, <1>3, <2>3
<1>5. ASSUME NEW i \in Answers(u), i =< m PROVE text[i] # quit /\ ~Usable(text[i])
  <2>1. i = w \/ i =< w - 1
    BY <1>2, <1>4, <1>5 DEF Answers
  <2> QED  BY <1>2, <2>1 DEF Refused
<1> QED  BY <1>2, <1>3, <1>5 DEF Refused

\* What is said of the answers holds of them as long as the name stays.
LEMMA SameAnswers ==
    ASSUME UNCHANGED <<text, known, username>>
    PROVE  /\ \A u : Answers(u)' = Answers(u)
           /\ \A u : Began(u)' <=> Began(u)
           /\ \A u : NamedAt(u)' <=> NamedAt(u)
           /\ \A u, p : Refused(u, p)' <=> Refused(u, p)
<1>1. ASSUME NEW u PROVE Answers(u)' = Answers(u)
  BY DEF Answers
<1>2. ASSUME NEW u, NEW p PROVE Refused(u, p)' <=> Refused(u, p)
  BY <1>1 DEF Refused, Usable, ValidDirName, Matches
<1>3. ASSUME NEW u PROVE NamedAt(u)' <=> NamedAt(u)
  BY DEF NamedAt
<1>4. ASSUME NEW u PROVE Began(u)' <=> Began(u)
  BY <1>3 DEF Began
<1> QED  BY <1>1, <1>2, <1>3, <1>4

\* The prompts for the name.
LEMMA NameKeeps ==
    ASSUME TypeOK, DirectoryInv, pc = "username", HasWord, Word # quit,
           rest' = AfterWord, UNCHANGED <<text, known, directory>>
    PROVE  /\ Read' \in DOMAIN text /\ text[Read'] = Word /\ Read' \in Nat
           /\ ~known /\ \A i \in 1 .. Read' : text[i] # quit
           /\ directory' = None
<1>1. /\ text \in Seq(Text)
      /\ Read \in 0 .. Len(text) /\ Read' \in Read + 1 .. Len(text)
      /\ text[Read'] = Word
      /\ \A j \in Read + 1 .. Read' - 1 : text[j] = EOL
  <2>1. Read' = Len(text) - Len(AfterWord)
    BY DEF Read
  <2> QED  BY <2>1, Unread, WordPlace
<1>2. ~known /\ directory = None /\ \A i \in 1 .. Read : text[i] # quit
  BY DEF DirectoryInv
<1>3. PICK r, s : r = Read /\ s = Read'
  OBVIOUS
<1>4. ASSUME NEW i \in 1 .. s PROVE text[i] # quit
  <2>0. r \in Nat /\ s \in Nat /\ r < s
    BY <1>1, <1>3
  <2>1. i \in 1 .. r \/ i \in r + 1 .. s - 1 \/ i = s
    BY <2>0
  <2> QED  BY <1>1, <1>2, <1>3, <2>1, InputAssumption
<1> QED  BY <1>1, <1>2, <1>3, <1>4

LEMMA DirectoryIsChosen ==
    ASSUME TypeOK, DirectoryInv, DirectoryChosen
    PROVE  DirectoryInv' /\ DirectoryAsTyped'
<1>1. /\ pc = "directory" /\ pc' = "files" /\ HasWord /\ Word # quit /\ Usable(Word)
      /\ directory' = <<Word>> /\ UNCHANGED <<text, known, username>>
      /\ DirectoryAt' = Len(text) - Len(AfterWord)
  BY DEF DirectoryChosen, DirectoryAt
<1>2. PICK u \in 0 .. Read :
          Began(u) /\ Refused(u, Read) /\ (Read \in {u, Len(text)} \/ text[Read] = EOL)
  BY <1>1 DEF DirectoryInv
<1>3. PICK w : w = Len(text) - Len(AfterWord)
  OBVIOUS
<1>4. /\ Read \in 0 .. Len(text) /\ Len(text) \in Nat /\ text[w] = Word
      /\ w \in Answers(u) /\ Refused(u, w - 1)
  BY <1>1, <1>2, <1>3, Unread, WordPlace, AnswerIsNext
<1>5. u \in 0 .. Len(text)
  BY <1>2, <1>4
<1>6. Usable(text[w])' <=> Usable(text[w])
  BY <1>1 DEF Usable, ValidDirName, Matches
<1>7. DirectoryAsTyped'
  <2>1. /\ Began(u)' /\ w \in Answers(u)' /\ Refused(u, w - 1)'
        /\ directory' = <<text'[w]>> /\ Usable(text[w])' /\ DirectoryAt' = w
        /\ u \in 0 .. Len(text')
    BY <1>1, <1>2, <1>3, <1>4, <1>5, <1>6, SameAnswers
  <2> HIDE DEF DirectoryAt, Answers, Refused, Began, Usable
  <2> QED  BY <2>1 DEF DirectoryAsTyped
<1>8. DirectoryInv'
  BY <1>1 DEF DirectoryInv
<1> QED  BY <1>7, <1>8

\* The prompts for the directory begin, after the name or without one, or go on.
LEMMA PromptsGoOn ==
    ASSUME UNCHANGED <<text, known, username>>, pc' = "directory", directory' = None,
           NEW u \in 0 .. Read', Began(u), Refused(u, Read'),
           Read' \in {u, Len(text)} \/ text[Read'] = EOL
    PROVE  DirectoryInv' /\ DirectoryAsTyped'
<1>1. PICK r : r = Read'
  OBVIOUS
<1>2. Began(u)' /\ Refused(u, r)' /\ u \in 0 .. r
      /\ (r \in {u, Len(text')} \/ text'[r] = EOL)
  BY <1>1, SameAnswers
<1>3. \E v \in 0 .. Read' :
          /\ Began(v)' /\ Refused(v, r)'
          /\ r \in {v, Len(text')} \/ text'[r] = EOL
  BY <1>1, <1>2
<1> HIDE DEF Read, Began, Refused
<1> QED  BY <1>1, <1>3 DEF DirectoryInv, DirectoryAsTyped

LEMMA DirectoryStep ==
    ASSUME TypeOK, DirectoryInv, DirectoryAsTyped, [Next]_vars
    PROVE  DirectoryInv' /\ DirectoryAsTyped'
<1>0. text \in Seq(Text) /\ Len(text) \in Nat /\ Read \in 0 .. Len(text)
  <2>1. text \in Seq(Text) /\ Len(rest) \in 0 .. Len(text)
    BY Unread, EndPlace
  <2> QED  BY <2>1 DEF Read
<1>e. ASSUME UNCHANGED <<text, known, username, directory, chosenAt>>
      PROVE  DirectoryAsTyped'
  <2>1. /\ DirectoryAt' = DirectoryAt
        /\ \A w : Usable(w)' <=> Usable(w)
        /\ \A u : Answers(u)' = Answers(u) /\ (Began(u)' <=> Began(u))
        /\ \A u, p : Refused(u, p)' <=> Refused(u, p)
    BY <1>e, SameAnswers DEF DirectoryAt, Usable, ValidDirName, Matches
  <2> HIDE DEF DirectoryAt, Usable, Answers, Began, Refused
  <2> QED  BY <1>e, <2>1 DEF DirectoryAsTyped
<1>o. ASSUME pc' \in {"cancelled", "threw", "files", "backup"},
             UNCHANGED <<text, known, username, directory, chosenAt>>
      PROVE  DirectoryInv' /\ DirectoryAsTyped'
  BY <1>e, <1>o DEF DirectoryInv
<1>n. ASSUME pc \in {"config", "username", "registering", "directory"}
      PROVE  directory = None
  BY <1>n DEF DirectoryInv
<1>b. ASSUME NEW u \in 0 .. Len(text), u = Read PROVE Refused(u, u)
  BY <1>b DEF Refused, Answers
<1>1. CASE LoadAddress
  <2>1. /\ pc = "config" /\ UNCHANGED <<text, known, username, directory, chosenAt, rest>>
        /\ Read = 0 /\ username = None /\ Read' = 0
    BY <1>1 DEF LoadAddress, DirectoryInv, Read
  <2>2. CASE pc' = "threw"
    BY <1>o, <2>1, <2>2
  <2>3. CASE pc' = "username" /\ ~known
    BY <1>e, <1>n, <2>1, <2>3 DEF DirectoryInv
  <2>4. CASE pc' = "directory" /\ known
    <3>1. Began(0) /\ Refused(0, 0)
      BY <1>0, <1>b, <2>1, <2>4 DEF Began
    <3> QED  BY <1>n, <2>1, <2>4, <3>1, PromptsGoOn
  <2> QED  BY <1>1, <2>2, <2>3, <2>4 DEF LoadAddress
<1>2. CASE UsernameCancelled \/ DirectoryCancelled
  BY <1>o, <1>2 DEF UsernameCancelled, DirectoryCancelled, Stop
<1>3. CASE UsernameRefused
  <2>1. /\ pc = "username" /\ pc' = "username" /\ HasWord /\ Word # quit /\ rest' = AfterWord
        /\ UNCHANGED <<text, known, username, directory, chosenAt>>
    BY <1>3 DEF UsernameRefused, Stop
  <2>2. ~known /\ (\A i \in 1 .. Read' : text[i] # quit) /\ directory' = None
    BY <2>1, NameKeeps
  <2> QED  BY <1>e, <2>1, <2>2 DEF DirectoryInv
<1>4. CASE UsernameEntered
  <2>1. /\ pc = "username" /\ pc' = "registering" /\ HasWord /\ Word # quit
        /\ rest' = AfterWord /\ username' = <<Word>>
        /\ UNCHANGED <<text, known, directory, chosenAt>>
    BY <1>4 DEF UsernameEntered
  <2>2. /\ Read' \in DOMAIN text /\ text[Read'] = Word
        /\ ~known /\ (\A i \in 1 .. Read' : text[i] # quit) /\ directory' = None
    BY <2>1, NameKeeps
  <2> QED  BY <2>1, <2>2 DEF DirectoryInv, DirectoryAsTyped, NamedAt
<1>5. CASE ServerAnswers
  <2>1. /\ pc = "registering" /\ pc' \in {"username", "directory"}
        /\ UNCHANGED <<text, known, username, directory, chosenAt, rest>>
        /\ Read' = Read
    BY <1>5 DEF ServerAnswers, Stop, Read
  <2>2. /\ ~known /\ (\A i \in 1 .. Read : text[i] # quit)
        /\ Read \in DOMAIN text /\ NamedAt(Read)
    BY <2>1 DEF DirectoryInv
  <2>3. CASE pc' = "username"
    BY <1>e, <1>n, <2>1, <2>2, <2>3 DEF DirectoryInv
  <2>4. CASE pc' = "directory"
    <3>1. PICK r \in 0 .. Len(text) : r = Read
      BY <1>0
    <3>2. Began(r) /\ Refused(r, r) /\ r \in 0 .. r
      BY <1>b, <2>2, <3>1 DEF Began
    <3> QED  BY <1>n, <2>1, <2>4, <3>1, <3>2, PromptsGoOn
  <2> QED  BY <2>1, <2>3, <2>4
<1>6. CASE DirectoryRefused
  <2>1. /\ pc = "directory" /\ pc' = "directory" /\ HasWord /\ Word # quit /\ ~Usable(Word)
        /\ Read' = Len(text) - Len(Discard(AfterWord))
        /\ UNCHANGED <<text, known, username, directory>>
    BY <1>6 DEF DirectoryRefused, Stop, Read
  <2>2. PICK u \in 0 .. Read :
            Began(u) /\ Refused(u, Read) /\ (Read \in {u, Len(text)} \/ text[Read] = EOL)
    BY <2>1 DEF DirectoryInv
  <2>3. PICK m : m = Read'
    OBVIOUS
  <2>4. /\ m \in u .. Len(text) /\ Refused(u, m)
        /\ m = Len(text) \/ text[m] = EOL
    BY <2>1, <2>2, <2>3, AnswerIsDropped
  <2>5. u \in 0 .. m
    BY <1>0, <2>2, <2>4
  <2> QED  BY <1>n, <2>1, <2>2, <2>3, <2>4, <2>5, PromptsGoOn
<1>7. CASE DirectoryChosen
  BY <1>7, DirectoryIsChosen
<1>8. CASE LinesEnd \/ ReadLine
  <2>1. /\ pc = "files" /\ pc' \in {"cancelled", "files", "backup"}
        /\ UNCHANGED <<text, known, username, directory, chosenAt>>
    BY <1>8 DEF LinesEnd, ReadLine, Finish, Stop
  <2> QED  BY <1>o, <2>1
<1>9. CASE UNCHANGED vars
  <2>1. UNCHANGED <<pc, text, known, username, directory, chosenAt, rest>> /\ Read' = Read
    BY <1>9 DEF vars, Read
  <2>2. /\ \A u : Began(u)' <=> Began(u)
        /\ \A u : NamedAt(u)' <=> NamedAt(u)
        /\ \A u, p : Refused(u, p)' <=> Refused(u, p)
    BY <2>1, SameAnswers
  <2>3. DirectoryInv'
    <3> HIDE DEF Read, Began, NamedAt, Refused
    <3> QED  BY <2>1, <2>2 DEF DirectoryInv
  <2> QED  BY <1>e, <2>1, <2>3
<1> QED  BY <1>1, <1>2, <1>3, <1>4, <1>5, <1>6, <1>7, <1>8, <1>9 DEF Next, Step, Over

\* The directory is the first answer to its prompts that will do, with no `quit' before
\* it, whatever was typed at the prompts for the name, whichever names were taken, and
\* wherever lines end: a second word is dropped with its line, unless it follows the name.
THEOREM DirectoryIsAsTyped == Spec => []DirectoryAsTyped
<1>1. Init => DirectoryInv /\ DirectoryAsTyped
  <2> SUFFICES ASSUME Init PROVE DirectoryInv /\ DirectoryAsTyped
    OBVIOUS
  <2>1. text \in Seq(Text) /\ rest = text
    BY InputAssumption DEF Init, Text
  <2>2. Read = 0
    BY <2>1 DEF Read
  <2> QED  BY <2>2 DEF Init, DirectoryInv, DirectoryAsTyped
<1>2. TypeOK /\ DirectoryInv /\ DirectoryAsTyped /\ [Next]_vars
          => DirectoryInv' /\ DirectoryAsTyped'
  BY DirectoryStep
<1> QED  BY <1>1, <1>2, TypeCorrect, PTL DEF Spec

-----------------------------------------------------------------------------
(* Progress *)

\* How many prompts are still to come, with the one the program is at; a registration
\* that is under way may lead back to the prompt for the name.
PromptsLeft ==
    [config |-> 5, registering |-> 4, username |-> 3, directory |-> 2, files |-> 1,
     backup |-> 0, cancelled |-> 0, threw |-> 0]

\* Some of the text is read, or none and there are fewer prompts to come.
Further ==
    \/ Len(rest') < Len(rest)
    \/ rest' = rest /\ PromptsLeft[pc'] < PromptsLeft[pc]

LEMMA SliceIsShorter ==
    ASSUME NEW s \in Seq(Text), NEW m \in Nat, m >= 1
    PROVE  /\ SubSeq(s, m, Len(s)) \in Seq(Text)
           /\ Len(SubSeq(s, m, Len(s))) =< Len(s)
           /\ m >= 2 /\ s # <<>> => Len(SubSeq(s, m, Len(s))) < Len(s)
<1>1. /\ SubSeq(s, m, Len(s)) \in Seq(Text)
      /\ Len(SubSeq(s, m, Len(s))) = IF m =< Len(s) THEN Len(s) - m + 1 ELSE 0
  BY SubSeqProperties
<1>2. Len(s) \in Nat /\ (s # <<>> => Len(s) > 0)
  BY EmptySeq
<1> QED  BY <1>1, <1>2

\* Reading a word or a line takes something off the text.
LEMMA TextShrinks ==
    ASSUME rest \in Seq(Text)
    PROVE  /\ HasWord => /\ Len(AfterWord) < Len(rest)
                         /\ Len(Discard(AfterWord)) < Len(rest)
           /\ rest # <<>> => Len(AfterLine(rest)) < Len(rest)
<1>1. ASSUME HasWord
      PROVE  AfterWord \in Seq(Text) /\ Len(AfterWord) < Len(rest)
  <2>1. WordAt \in 1 .. Len(rest)
    BY <1>1, WordIsRead
  <2>2. rest # <<>> /\ WordAt + 1 \in Nat /\ WordAt + 1 >= 2
    BY <2>1, EmptySeq
  <2> QED  BY <2>2, SliceIsShorter DEF AfterWord
<1>2. ASSUME NEW s \in Seq(Text)
      PROVE  /\ Len(AfterLine(s)) \in Nat /\ Len(AfterLine(s)) =< Len(s)
             /\ s # <<>> => Len(AfterLine(s)) < Len(s)
  <2>1. LineLen(s) + 2 \in Nat /\ LineLen(s) + 2 >= 2
    BY LineEnds
  <2>2. SubSeq(s, LineLen(s) + 2, Len(s)) \in Seq(Text)
    BY <2>1, SliceIsShorter
  <2>3. Len(SubSeq(s, LineLen(s) + 2, Len(s))) \in Nat
    BY <2>2
  <2> QED  BY <2>1, <2>3, SliceIsShorter DEF AfterLine
<1>3. ASSUME HasWord PROVE Len(Discard(AfterWord)) < Len(rest)
  <2>1. /\ Len(AfterLine(AfterWord)) \in Nat
        /\ Len(AfterLine(AfterWord)) =< Len(AfterWord)
        /\ Len(AfterWord) < Len(rest)
    BY <1>1, <1>2, <1>3
  <2>2. Len(AfterWord) \in Nat /\ Len(rest) \in Nat
    BY <1>1, <1>3
  <2> QED  BY <2>1, <2>2 DEF Discard
<1> QED  BY <1>1, <1>2, <1>3

\* The safety half of PromptsEnd: no step of the prompts leaves the program where it
\* was. Each takes some of the text, of which there is an end, or goes on to a later
\* prompt or to the end; so none reads on for ever when the input is closed, and
\* no cycle of prompts is closed without something typed.
THEOREM PromptsAdvance == TypeOK /\ Step => Further
<1> SUFFICES ASSUME TypeOK, Step PROVE Further
  OBVIOUS
<1> USE DEF Further, PromptsLeft
<1>0. rest \in Seq(Text)
  BY Unread
<1>w. HasWord => Len(AfterWord) < Len(rest) /\ Len(Discard(AfterWord)) < Len(rest)
  BY <1>0, TextShrinks
<1>e. rest = <<>> \/ Len(<<>>) < Len(rest)
  BY <1>0, EmptySeq
<1>1. CASE LoadAddress
  BY <1>1 DEF LoadAddress
<1>2. CASE UsernameCancelled
  <2>1. CASE HasWord
    BY <1>2, <1>w, <2>1 DEF UsernameCancelled
  <2>2. CASE ~HasWord
    <3>1. rest' = <<>> /\ pc = "username" /\ pc' = "cancelled"
      BY <1>2, <2>2 DEF UsernameCancelled, Stop
    <3> QED  BY <1>e, <3>1
  <2> QED  BY <2>1, <2>2
<1>3. CASE UsernameRefused
  BY <1>3, <1>w DEF UsernameRefused
<1>4. CASE UsernameEntered
  BY <1>4, <1>w DEF UsernameEntered
<1>5. CASE ServerAnswers
  BY <1>5 DEF ServerAnswers, Stop
<1>6. CASE DirectoryCancelled
  <2>1. CASE HasWord
    BY <1>6, <1>w, <2>1 DEF DirectoryCancelled
  <2>2. CASE ~HasWord
    <3>1. rest' = <<>> /\ pc = "directory" /\ pc' = "cancelled"
      BY <1>6, <2>2 DEF DirectoryCancelled, Stop
    <3> QED  BY <1>e, <3>1
  <2> QED  BY <2>1, <2>2
<1>7. CASE DirectoryRefused \/ DirectoryChosen
  BY <1>7, <1>w DEF DirectoryRefused, DirectoryChosen
<1>8. CASE LinesEnd
  BY <1>8 DEF LinesEnd, InputClosed, Stop
<1>9. CASE ReadLine
  BY <1>0, <1>9, TextShrinks DEF ReadLine
<1> QED  BY <1>1, <1>2, <1>3, <1>4, <1>5, <1>6, <1>7, <1>8, <1>9 DEF Step
=============================================================================

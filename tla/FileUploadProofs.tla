-------------------------- MODULE FileUploadProofs --------------------------
(***************************************************************************)
(* Theorems of FileUpload: its type invariant, the retry budget, and that  *)
(* with a server whose responses are right client and server stay in step, *)
(* and an upload is repeated only after something went wrong.              *)
(***************************************************************************)
EXTENDS FileUpload, ChunkingProofs, SequenceTheorems

-----------------------------------------------------------------------------
(* Types *)

LEMMA LengthsTyped ==
    ASSUME NEW n \in Nat
    PROVE  /\ EncryptedSize(n) \in Int /\ ChunkSize(n) \in Nat \ {0}
           /\ TotalPackets(n) \in Int /\ TotalPacketsField(n) \in Nat
           /\ \A p \in Int : ChunkLength(n, p) \in Int
<1>1. EncryptedSize(n) \in Int
  <2>1. n \div AesBlock \in Int
    BY ConstantTypes
  <2>2. AesBlock * (n \div AesBlock + 1) \in Int
    BY <2>1, ConstantTypes
  <2> QED  BY <2>2, ConstantTypes DEF EncryptedSize
<1>2. ChunkSize(n) \in Nat \ {0}
  BY ConstantTypes DEF ChunkSize
<1>3. TotalPackets(n) \in Int
  BY <1>1, <1>2 DEF TotalPackets
<1>4. TotalPacketsField(n) \in Nat
  BY <1>3, ConstantTypes DEF TotalPacketsField
<1>5. ASSUME NEW p \in Int PROVE ChunkLength(n, p) \in Int
  <2>1. StartOffset(n, p) \in Int
    BY <1>2 DEF StartOffset
  <2> QED  BY <1>1, <1>2, <2>1 DEF ChunkLength
<1> QED  BY <1>1, <1>2, <1>3, <1>4, <1>5

\* A packet is a well-formed request.
LEMMA PacketTyped ==
    ASSUME TypeOK, idx \in DOMAIN SelectedFiles, fileData \in Contents
    PROVE  PacketOf(packet) \in PacketRequest
<1>1. SizeOf[fileData] \in Nat /\ FileName \in Names
  BY UploadAssumption DEF FileName
<1>2. packet \in Int /\ packet % PacketField \in Nat /\ iv \in Nat
  BY ConstantTypes DEF TypeOK
<1>3. /\ TotalPacketsField(SizeOf[fileData]) \in Nat
      /\ ChunkLength(SizeOf[fileData], packet) \in Int
  BY <1>1, <1>2, LengthsTyped
<1> QED  BY <1>1, <1>2, <1>3 DEF PacketOf, PacketRequest

LEMMA StatusTyped ==
    ASSUME idx \in DOMAIN SelectedFiles, NEW code \in StatusCodes
    PROVE  Status(code) \in Request
<1>1. FileName \in Names
  BY UploadAssumption DEF FileName
<1> QED  BY <1>1 DEF Status, StatusRequest, Request

LEMMA TransmitTyped ==
    ASSUME TypeOK, NEW m \in Request, Transmit(m)
    PROVE  toServer' \in Seq(Request)
BY DEF TypeOK, Transmit

\* What the server takes off the connection.
LEMMA TakeTyped ==
    ASSUME TypeOK, NEW codes, Take(codes)
    PROVE  /\ toServer' \in Seq(Request)
           /\ Head(toServer) \in Request /\ Head(toServer).code \in codes
BY DEF TypeOK, Take

LEMMA PacketHead ==
    ASSUME TypeOK, Take({"CREATE_BACKUP"})
    PROVE  Head(toServer) \in PacketRequest
<1>1. Head(toServer) \in Request /\ Head(toServer).code = "CREATE_BACKUP"
  BY TakeTyped
<1> QED  BY <1>1 DEF Request, StatusRequest, StatusCodes, PacketRequest

LEMMA PlainTyped ==
    ASSUME NEW code \in ReplyCodes, NEW v \in Nat
    PROVE  Plain(code, v) \in Reply
BY UploadAssumption DEF Plain, Reply

LEMMA AnswersTyped ==
    ASSUME TypeOK, NEW r \in Reply, Answers(r)
    PROVE  toClient' \in Seq(Reply) /\ faults' \in Nat
<1>1. ASSUME NEW w \in WrongReplies PROVE w \in Reply
  <2>1. PICK code \in ReplyCodes, u \in Uids : w = [Plain(code, 0) EXCEPT !.uid = u]
    BY <1>1 DEF WrongReplies
  <2> QED  BY <2>1, UploadAssumption DEF Plain, Reply
<1>2. toClient \in Seq(Reply) /\ faults \in Nat
  BY DEF TypeOK
<1>3. CASE toClient' = Append(toClient, r) /\ UNCHANGED faults
  BY <1>2, <1>3
<1>4. CASE faults' = faults + 1 /\ \E w \in WrongReplies : toClient' = Append(toClient, w)
  BY <1>1, <1>2, <1>4
<1>5. CASE faults' = faults + 1 /\ toClient' = Append(Append(toClient, r), r)
  <2>1. Append(toClient, r) \in Seq(Reply)
    BY <1>2
  <2> QED  BY <1>2, <1>5, <2>1
<1> QED  BY <1>3, <1>4, <1>5 DEF Answers

LEMMA LastIvTyped == ASSUME TypeOK PROVE LastIv \in Nat
<1>1. upload \in Seq(PacketRequest)
  BY DEF TypeOK
<1>2. CASE upload = <<>>
  BY <1>2 DEF LastIv
<1>3. CASE upload # <<>>
  <2>1. upload[Len(upload)] \in PacketRequest
    BY <1>1, <1>3
  <2>2. upload[Len(upload)].iv \in Nat
    BY <2>1 DEF PacketRequest
  <2> QED  BY <1>3, <2>2 DEF LastIv
<1> QED  BY <1>2, <1>3

LEMMA AnswerTyped ==
    ASSUME TypeOK, Receive
    PROVE  Answer \in Reply /\ toClient' \in Seq(Reply)
BY DEF TypeOK, Receive, Answer

-----------------------------------------------------------------------------
\* The next state has the right types when an action keeps them.

LEMMA TypeInit == Init => TypeOK
<1> SUFFICES ASSUME Init PROVE TypeOK
  OBVIOUS
<1>1. Len(SelectedFiles) \in Nat
  BY UploadAssumption
<1>2. outcomes \in Seq(Outcome) /\ upload \in Seq(PacketRequest)
  BY DEF Init
<1>3. toServer \in Seq(Request) /\ toClient \in Seq(Reply)
  BY DEF Init
<1>4. pc \in Labels /\ pc \notin Sending \cup Receiving
      /\ idx \in 1 .. Len(SelectedFiles) + 1 /\ pc = "next_file"
  BY <1>1 DEF Init, Labels, Ended, Threw, Sending, Receiving
<1>5. /\ disk \in [Names -> Contents \cup {Missing}] /\ fileData \in Contents \cup {Missing}
      /\ received \in SUBSET Copy /\ stored \in SUBSET Copy
      /\ link \in {"up", "down"} /\ crcError \in BOOLEAN
  BY DEF Init
<1>6. /\ {crcFailures, iv, tries, edits, damages, faults} \subseteq Nat
      /\ packet \in Nat \ {0} /\ encryptedFileSize \in Int
  BY DEF Init
<1> QED  BY <1>2, <1>3, <1>4, <1>5, <1>6 DEF TypeOK

\* A file is settled: the loop moves to the next one.
LEMMA TellTyped ==
    ASSUME TypeOK, idx \in DOMAIN SelectedFiles,
           NEW result \in Results, NEW data \in Contents \cup {Missing}, NEW n \in Nat,
           Tell(result, data, n)
    PROVE  /\ outcomes' \in Seq(Outcome)
           /\ idx' \in 1 .. Len(SelectedFiles) + 1
           /\ pc' = "next_file"
<1>1. SelectedFiles \in Seq(Names) /\ FileName \in Names
  BY UploadAssumption DEF FileName
<1>2. [name |-> FileName, result |-> result, data |-> data, tries |-> n] \in Outcome
  BY <1>1 DEF Outcome
<1>3. outcomes' \in Seq(Outcome)
  BY <1>2 DEF Tell, TypeOK
<1>4. idx' \in 1 .. Len(SelectedFiles) + 1
  BY <1>1 DEF Tell
<1> QED  BY <1>3, <1>4 DEF Tell

LEMMA LoopTyped == TypeOK /\ Loop => TypeOK'
<1> SUFFICES ASSUME TypeOK, Loop PROVE TypeOK'
  OBVIOUS
<1> USE DEF Labels, Ended, Threw, Sending, Receiving
<1>0. pc = "next_file" /\ idx =< Len(SelectedFiles) => idx \in DOMAIN SelectedFiles
  BY UploadAssumption DEF TypeOK
<1>1. CASE SkipFile
  <2>1. /\ outcomes' \in Seq(Outcome) /\ idx' \in 1 .. Len(SelectedFiles) + 1
        /\ pc' = "next_file"
    BY <1>0, <1>1, TellTyped DEF SkipFile, Results
  <2> QED  BY <1>1, <2>1 DEF TypeOK, SkipFile, locals, fileEnv, server
<1>2. CASE StartFile
  BY <1>0, <1>2 DEF TypeOK, StartFile, FirstFailureCount, fileEnv, server
<1>3. CASE Return
  BY <1>3 DEF TypeOK, Return, locals, fileEnv, server
<1> QED  BY <1>1, <1>2, <1>3 DEF Loop

LEMMA EncryptTyped == TypeOK /\ Encrypt => TypeOK'
<1> SUFFICES ASSUME TypeOK, Encrypt PROVE TypeOK'
  OBVIOUS
<1> USE DEF Labels, Ended, Threw, Sending, Receiving
<1>0. idx \in DOMAIN SelectedFiles /\ FileName \in Names
  BY UploadAssumption DEF TypeOK, Encrypt, OpenFails, ReadFails, FileTooLarge, EncryptFile, BytesRead, FileName
<1>1. CASE OpenFails
  BY <1>1 DEF TypeOK, OpenFails, locals, fileEnv, server
<1>2. CASE ReadFails
  BY <1>2 DEF TypeOK, ReadFails, locals, fileEnv, server
<1>3. CASE FileTooLarge
  <2>1. fileData \in Contents \cup {Missing} /\ tries \in Nat
    BY DEF TypeOK
  <2>2. /\ outcomes' \in Seq(Outcome) /\ idx' \in 1 .. Len(SelectedFiles) + 1
        /\ pc' = "next_file"
    BY <1>0, <1>3, <2>1, TellTyped DEF FileTooLarge, Settle, Results
  <2> QED  BY <1>3, <2>2 DEF TypeOK, FileTooLarge, locals, fileEnv, server
<1>4. CASE EncryptFile
  <2>1. disk[FileName] \in Contents
    BY <1>0, <1>4 DEF TypeOK, EncryptFile, BytesRead
  <2> QED  BY <1>0, <1>4, <2>1 DEF TypeOK, EncryptFile, BytesRead, fileEnv, server
<1> QED  BY <1>1, <1>2, <1>3, <1>4 DEF Encrypt

LEMMA SendTyped == TypeOK /\ Send => TypeOK'
<1> SUFFICES ASSUME TypeOK, Send PROVE TypeOK'
  OBVIOUS
<1> USE DEF Labels, Ended, Threw, Sending, Receiving
<1>0. idx \in DOMAIN SelectedFiles /\ fileData \in Contents
  BY DEF TypeOK, Send, SendFails, SendPacket, SendSuccess, SendFailure, SendError
<1>1. CASE SendFails
  BY <1>1 DEF TypeOK, SendFails, locals, fileEnv, server
<1>2. CASE SendPacket
  <2>1. toServer' \in Seq(Request)
    <3>1. PacketOf(packet) \in Request
      BY <1>0, PacketTyped DEF Request
    <3> QED  BY <1>2, <3>1, TransmitTyped DEF SendPacket
  <2>2. SizeSent \in Int
    <3>1. SizeOf[fileData] \in Nat /\ packet \in Int
      BY <1>0, UploadAssumption DEF TypeOK
    <3> QED  BY <3>1, LengthsTyped DEF SizeSent
  <2>3. encryptedFileSize' \in Int /\ pc' \in {"send", "verify"} /\ packet' \in Nat \ {0}
    BY <1>2, <2>2 DEF SendPacket, TypeOK
  <2> QED  BY <1>0, <1>2, <2>1, <2>3 DEF TypeOK, SendPacket, fileEnv, server
<1>3. CASE SendSuccess
  <2>1. toServer' \in Seq(Request)
    BY <1>0, <1>3, StatusTyped, TransmitTyped DEF SendSuccess, StatusCodes
  <2> QED  BY <1>0, <1>3, <2>1 DEF TypeOK, SendSuccess, locals, fileEnv, server
<1>4. CASE SendFailure
  <2>1. toServer' \in Seq(Request)
    BY <1>0, <1>4, StatusTyped, TransmitTyped DEF SendFailure, StatusCodes
  <2> QED  BY <1>0, <1>4, <2>1 DEF TypeOK, SendFailure, locals, fileEnv, server
<1>5. CASE SendError
  <2>1. toServer' \in Seq(Request)
    BY <1>0, <1>5, StatusTyped, TransmitTyped DEF SendError, StatusCodes
  <2> QED  BY <1>0, <1>5, <2>1 DEF TypeOK, SendError, locals, fileEnv, server
<1> QED  BY <1>1, <1>2, <1>3, <1>4, <1>5 DEF Send

LEMMA VerifyTyped == TypeOK /\ Verify => TypeOK'
<1> SUFFICES ASSUME TypeOK, Verify PROVE TypeOK'
  OBVIOUS
<1> USE DEF Labels, Ended, Threw, Sending, Receiving
<1>0. idx \in DOMAIN SelectedFiles /\ fileData \in Contents
  BY DEF TypeOK, Verify, ReceiveFails, VerifyRejected, VerifyThrows, VerifyMatches, VerifyMismatches
<1>1. CASE ReceiveFails
  BY <1>1 DEF TypeOK, ReceiveFails, locals, fileEnv, server
<1>2. CASE VerifyRejected
  <2>1. toClient' \in Seq(Reply)
    BY <1>2, AnswerTyped DEF VerifyRejected
  <2>2. fileData \in Contents \cup {Missing} /\ tries \in Nat
    BY DEF TypeOK
  <2>3. /\ outcomes' \in Seq(Outcome) /\ idx' \in 1 .. Len(SelectedFiles) + 1
        /\ pc' = "next_file"
    BY <1>0, <1>2, <2>2, TellTyped DEF VerifyRejected, Settle, Results
  <2> QED  BY <1>2, <2>1, <2>3 DEF TypeOK, VerifyRejected, locals, fileEnv, server
<1>3. CASE VerifyThrows
  <2>1. toClient' \in Seq(Reply)
    BY <1>3, AnswerTyped DEF VerifyThrows
  <2> QED  BY <1>3, <2>1 DEF TypeOK, VerifyThrows, locals, fileEnv, server
<1>4. CASE VerifyMatches
  <2>1. toClient' \in Seq(Reply)
    BY <1>4, AnswerTyped DEF VerifyMatches
  <2> QED  BY <1>0, <1>4, <2>1 DEF TypeOK, VerifyMatches, fileEnv, server
<1>5. CASE VerifyMismatches
  <2>1. toClient' \in Seq(Reply)
    BY <1>5, AnswerTyped DEF VerifyMismatches
  <2> QED  BY <1>0, <1>5, <2>1 DEF TypeOK, VerifyMismatches, fileEnv, server
<1> QED  BY <1>1, <1>2, <1>3, <1>4, <1>5 DEF Verify

LEMMA AckTyped == TypeOK /\ Ack => TypeOK'
<1> SUFFICES ASSUME TypeOK, Ack PROVE TypeOK'
  OBVIOUS
<1> USE DEF Labels, Ended, Threw, Sending, Receiving
<1>0. idx \in DOMAIN SelectedFiles /\ fileData \in Contents
  BY DEF TypeOK, Ack, ReadAck, AckThrows
<1>1. CASE ReadAck
  <2>1. toClient' \in Seq(Reply)
    BY <1>1, AnswerTyped DEF ReadAck
  <2>2. fileData \in Contents \cup {Missing} /\ tries \in Nat
    BY DEF TypeOK
  <2>3. /\ outcomes' \in Seq(Outcome) /\ idx' \in 1 .. Len(SelectedFiles) + 1
        /\ pc' = "next_file"
    BY <1>0, <1>1, <2>2, TellTyped DEF ReadAck, Settle, Results
  <2> QED  BY <1>1, <2>1, <2>3 DEF TypeOK, ReadAck, locals, fileEnv, server
<1>2. CASE AckThrows
  <2>1. toClient' \in Seq(Reply)
    BY <1>2, AnswerTyped DEF AckThrows
  <2> QED  BY <1>2, <2>1 DEF TypeOK, AckThrows, locals, fileEnv, server
<1> QED  BY <1>1, <1>2 DEF Ack

LEMMA ServerTyped == TypeOK /\ Server => TypeOK'
<1> SUFFICES ASSUME TypeOK, Server PROVE TypeOK'
  OBVIOUS
<1> DEFINE m == Head(toServer)
<1>1. /\ toServer \in Seq(Request) /\ toClient \in Seq(Reply) /\ upload \in Seq(PacketRequest)
      /\ received \in SUBSET Copy /\ stored \in SUBSET Copy
      /\ damages \in Nat /\ faults \in Nat
  BY DEF TypeOK
<1>2. ASSUME Take({"CREATE_BACKUP"})
      PROVE  toServer' \in Seq(Request) /\ m \in PacketRequest /\ Assembled(m) \in Seq(PacketRequest)
  <2>1. toServer' \in Seq(Request) /\ m \in PacketRequest
    BY <1>2, TakeTyped, PacketHead
  <2> QED  BY <1>1, <2>1 DEF Assembled
<1>3. ASSUME /\ UNCHANGED <<client, fileEnv, link>>
             /\ toServer' \in Seq(Request) /\ toClient' \in Seq(Reply)
             /\ upload' \in Seq(PacketRequest)
             /\ received' \in SUBSET Copy /\ stored' \in SUBSET Copy
             /\ damages' \in Nat /\ faults' \in Nat
      PROVE  TypeOK'
  BY <1>3 DEF TypeOK, client, locals, fileEnv
<1>4. CASE ServerTakesPacket
  <2>1. toServer' \in Seq(Request) /\ upload' \in Seq(PacketRequest)
    BY <1>4, <1>2 DEF ServerTakesPacket
  <2> QED  BY <1>1, <1>3, <1>4, <2>1 DEF ServerTakesPacket
<1>5. CASE ServerTakesLastPacket
  <2> DEFINE copy(sum) == [name |-> m.name, sum |-> sum]
             sound == IF Intact(Assembled(m)) THEN Crc[m.data] ELSE BadSum
  <2>1. /\ toServer' \in Seq(Request) /\ upload' \in Seq(PacketRequest)
        /\ m \in PacketRequest
    BY <1>5, <1>2 DEF ServerTakesLastPacket
  <2>2. m.name \in Names /\ m.data \in Contents /\ m.iv \in Nat /\ m.len \in Int
    BY <2>1 DEF PacketRequest
  <2>3. sound \in Sums /\ BadSum \in Sums
    BY <2>2, UploadAssumption
  <2>4. ReportedSize(m) \in Int
    BY <2>2, LengthsTyped, UploadAssumption DEF ReportedSize
  <2>5. ASSUME NEW sum \in Sums
        PROVE  copy(sum) \in Copy /\ Verdict(copy(sum), m.iv, ReportedSize(m)) \in Reply
    <3>1. copy(sum) \in Copy /\ copy(sum).sum = sum
      BY <2>2 DEF Copy
    <3> HIDE DEF copy
    <3> QED  BY <3>1, <2>2, <2>4, UploadAssumption DEF Verdict, Reply, ReplyCodes
  <2>6. Plain("UPLOAD_REJECTED_TOO_LARGE", m.iv) \in Reply
    BY <2>2, PlainTyped DEF ReplyCodes
  <2>7. /\ received' \in SUBSET Copy /\ damages' \in Nat
        /\ \E r \in Reply : Answers(r)
    <3> HIDE DEF copy, sound
    <3> QED  BY <1>1, <1>5, <2>3, <2>5, <2>6 DEF ServerTakesLastPacket, copy, sound
  <2>8. toClient' \in Seq(Reply) /\ faults' \in Nat
    BY <2>7, AnswersTyped
  <2>9. UNCHANGED <<client, fileEnv, link, stored>>
    BY <1>5 DEF ServerTakesLastPacket
  <2> QED  BY <1>1, <1>3, <2>1, <2>7, <2>8, <2>9
<1>6. CASE ServerTakesSuccess
  <2>1. toServer' \in Seq(Request)
    BY <1>6, TakeTyped DEF ServerTakesSuccess
  <2>2. Plain(IF received = {} THEN "FAILED" ELSE "ACK", LastIv) \in Reply
    BY PlainTyped, LastIvTyped DEF ReplyCodes
  <2>3. toClient' \in Seq(Reply) /\ faults' \in Nat
    BY <1>6, <2>2, AnswersTyped DEF ServerTakesSuccess
  <2> QED  BY <1>1, <1>3, <1>6, <2>1, <2>3 DEF ServerTakesSuccess
<1>7. CASE ServerTakesFailure
  <2>1. toServer' \in Seq(Request)
    BY <1>7, TakeTyped DEF ServerTakesFailure
  <2>2. Plain("ACK", LastIv) \in Reply
    BY PlainTyped, LastIvTyped DEF ReplyCodes
  <2>3. toClient' \in Seq(Reply) /\ faults' \in Nat
    BY <1>7, <2>2, AnswersTyped DEF ServerTakesFailure
  <2> QED  BY <1>1, <1>3, <1>7, <2>1, <2>3 DEF ServerTakesFailure
<1>8. CASE ServerTakesError
  <2>1. toServer' \in Seq(Request)
    BY <1>8, TakeTyped DEF ServerTakesError
  <2> QED  BY <1>1, <1>3, <1>8, <2>1 DEF ServerTakesError
<1> QED  BY <1>4, <1>5, <1>6, <1>7, <1>8 DEF Server

LEMMA SurroundingsTyped == TypeOK /\ Surroundings => TypeOK'
<1> SUFFICES ASSUME TypeOK, Surroundings PROVE TypeOK'
  OBVIOUS
<1>1. CASE EditFile
  BY <1>1, UploadAssumption DEF TypeOK, EditFile, locals, server
<1>2. CASE LinkBreaks
  <2>1. toServer' \in Seq(Request) /\ toClient' \in Seq(Reply) /\ link' = "down"
    BY <1>2 DEF LinkBreaks
  <2> QED  BY <1>2, <2>1 DEF TypeOK, LinkBreaks, locals, fileEnv, server
<1> QED  BY <1>1, <1>2 DEF Surroundings

LEMMA StutterTyped == TypeOK /\ UNCHANGED vars => TypeOK'
BY DEF TypeOK, vars, locals, fileEnv, server

LEMMA TypeStep == TypeOK /\ [Next]_vars => TypeOK'
BY LoopTyped, EncryptTyped, SendTyped, VerifyTyped, AckTyped, ServerTyped,
   SurroundingsTyped, StutterTyped DEF Next, Client, Over

\* Every variable keeps its type, for any selection of files, any server limit
\* and any number of edits, damaged uploads and wrong responses.
THEOREM TypeCorrect == Spec => []TypeOK
<1>1. Init => TypeOK
  BY TypeInit
<1>2. TypeOK /\ [Next]_vars => TypeOK'
  BY TypeStep
<1> QED  BY <1>1, <1>2, PTL DEF Spec

-----------------------------------------------------------------------------
(* The retry budget *)

\* What RetryBudget says of one settled file.
WithinBudget(o) ==
    /\ o.tries =< CrcTrialsCount
    /\ o.result = "gave_up" => o.tries = CrcTrialsCount
    /\ o.result \in {"saved", "rejected"} => o.tries > 0

LEMMA TellBudget ==
    ASSUME TypeOK, RetryBudget,
           NEW result, NEW data, NEW n \in Nat, Tell(result, data, n),
           n =< CrcTrialsCount,
           result = "gave_up" => n = CrcTrialsCount,
           result \in {"saved", "rejected"} => n > 0
    PROVE  RetryBudget'
<1> DEFINE o == [name |-> FileName, result |-> result, data |-> data, tries |-> n]
<1>1. outcomes \in Seq(Outcome) /\ outcomes' = Append(outcomes, o) /\ pc' = "next_file"
  BY DEF TypeOK, Tell
<1>2. \A i \in DOMAIN outcomes : WithinBudget(outcomes[i])
  BY DEF RetryBudget, WithinBudget
<1>3. WithinBudget(o)
  BY DEF WithinBudget
<1>4. \A i \in DOMAIN outcomes' : WithinBudget(outcomes'[i])
  <2> HIDE DEF o
  <2>1. SUFFICES ASSUME NEW i \in DOMAIN outcomes' PROVE WithinBudget(outcomes'[i])
    OBVIOUS
  <2>2. CASE i \in DOMAIN outcomes
    BY <1>1, <1>2, <2>2
  <2>3. CASE i = Len(outcomes) + 1
    BY <1>1, <1>3, <2>3
  <2> QED  BY <1>1, <2>1, <2>2, <2>3
<1> QED  BY <1>1, <1>4 DEF RetryBudget, WithinBudget

LEMMA RetryStep == TypeOK /\ RetryInv /\ [Next]_vars => RetryInv'
<1> SUFFICES ASSUME TypeOK, RetryInv, [Next]_vars PROVE RetryInv'
  OBVIOUS
<1> USE DEF Ended, Threw, Sending, Receiving
<1>0. /\ crcFailures \in Nat /\ tries \in Nat /\ CrcTrialsCount \in Nat \ {0}
      /\ RetryBudget
  BY UploadAssumption DEF TypeOK, RetryInv
<1>1. ASSUME NEW result, NEW data, NEW n \in Nat, Tell(result, data, n),
             n =< CrcTrialsCount,
             result = "gave_up" => n = CrcTrialsCount,
             result \in {"saved", "rejected"} => n > 0
      PROVE  RetryInv'
  <2>1. RetryBudget' /\ pc' = "next_file"
    BY <1>0, <1>1, TellBudget DEF Tell
  <2> QED  BY <2>1 DEF RetryInv
<1>2. ASSUME UNCHANGED outcomes, pc' \in Ended
      PROVE  RetryInv'
  BY <1>0, <1>2 DEF RetryInv, RetryBudget
<1>3. ASSUME UNCHANGED <<pc, crcFailures, tries, outcomes>> PROVE RetryInv'
  BY <1>3 DEF RetryInv, RetryBudget
<1>4. CASE Loop
  <2>1. CASE SkipFile
    BY <1>0, <1>1, <2>1 DEF SkipFile
  <2>2. CASE StartFile
    BY <1>0, <2>2 DEF StartFile, FirstFailureCount, RetryInv, RetryBudget
  <2>3. CASE Return
    BY <1>2, <2>3 DEF Return
  <2> QED  BY <1>4, <2>1, <2>2, <2>3 DEF Loop
<1>5. CASE Encrypt
  <2>1. CASE OpenFails \/ ReadFails
    BY <1>2, <2>1 DEF OpenFails, ReadFails
  <2>2. CASE FileTooLarge
    <3>1. tries =< CrcTrialsCount
      BY <1>0, <2>2 DEF RetryInv, FileTooLarge
    <3> QED  BY <1>0, <1>1, <2>2, <3>1 DEF FileTooLarge, Settle
  <2>3. CASE EncryptFile
    BY <1>0, <2>3 DEF EncryptFile, BytesRead, RetryInv, RetryBudget
  <2> QED  BY <1>5, <2>1, <2>2, <2>3 DEF Encrypt
<1>6. CASE Send
  <2>1. CASE SendFails
    BY <1>2, <2>1 DEF SendFails
  <2>2. CASE SendPacket
    BY <1>0, <2>2 DEF SendPacket, RetryInv, RetryBudget
  <2>3. CASE SendSuccess
    BY <1>0, <2>3 DEF SendSuccess, locals, RetryInv, RetryBudget
  <2>4. CASE SendFailure
    BY <1>0, <2>4 DEF SendFailure, locals, RetryInv, RetryBudget
  <2>5. CASE SendError
    BY <1>0, <2>5 DEF SendError, locals, RetryInv, RetryBudget
  <2> QED  BY <1>6, <2>1, <2>2, <2>3, <2>4, <2>5 DEF Send
<1>7. CASE Verify
  <2>1. CASE ReceiveFails \/ VerifyThrows
    BY <1>2, <2>1 DEF ReceiveFails, VerifyThrows
  <2>2. CASE VerifyRejected
    <3>1. tries =< CrcTrialsCount /\ tries > 0
      BY <1>0, <2>2 DEF RetryInv, VerifyRejected
    <3> QED  BY <1>0, <1>1, <2>2, <3>1 DEF VerifyRejected, Settle
  <2>3. CASE VerifyMatches
    BY <1>0, <2>3 DEF VerifyMatches, RetryInv, RetryBudget
  <2>4. CASE VerifyMismatches
    BY <1>0, <2>4 DEF VerifyMismatches, RetryInv, RetryBudget
  <2> QED  BY <1>7, <2>1, <2>2, <2>3, <2>4 DEF Verify
<1>8. CASE Ack
  <2>1. CASE ReadAck
    <3>1. tries =< CrcTrialsCount /\ tries > 0 /\ (pc = "ack_failure" => tries = CrcTrialsCount)
      BY <1>0, <2>1 DEF RetryInv, ReadAck
    <3> QED  BY <1>0, <1>1, <2>1, <3>1 DEF ReadAck, Settle
  <2>2. CASE AckThrows
    BY <1>2, <2>2 DEF AckThrows
  <2> QED  BY <1>8, <2>1, <2>2 DEF Ack
<1>9. CASE Server
  BY <1>3, <1>9 DEF Server, ServerTakesPacket, ServerTakesLastPacket, ServerTakesSuccess,
                    ServerTakesFailure, ServerTakesError, client, locals
<1>10. CASE Surroundings
  BY <1>3, <1>10 DEF Surroundings, EditFile, LinkBreaks, locals
<1>11. CASE UNCHANGED vars
  BY <1>3, <1>11 DEF vars, locals
<1> QED  BY <1>4, <1>5, <1>6, <1>7, <1>8, <1>9, <1>10, <1>11 DEF Next, Client, Over

\* No file is uploaded more than CRC_TRIALS_COUNT times, and none is given up
\* before, whatever the server answers and in whatever order.
THEOREM RetriesBounded == Spec => []RetryBudget
<1>1. Init => RetryInv
  BY UploadAssumption DEF Init, RetryInv, RetryBudget, Ended, Threw
<1>2. RetryInv => RetryBudget
  BY DEF RetryInv
<1> QED  BY <1>1, <1>2, RetryStep, TypeCorrect, PTL DEF Spec
-----------------------------------------------------------------------------
(* The upload in progress *)

LEMMA SendInvStep == TypeOK /\ SendInv /\ [Next]_vars => SendInv'
<1> SUFFICES ASSUME TypeOK, SendInv, [Next]_vars PROVE SendInv'
  OBVIOUS
<1> USE DEF Sending, Receiving
<1>1. ASSUME pc' \notin Sending \cup Receiving PROVE SendInv'
  BY <1>1 DEF SendInv
<1>2. ASSUME UNCHANGED <<pc, fileData, packet>> PROVE SendInv'
  BY <1>2 DEF SendInv, Total
<1>3. ASSUME UNCHANGED fileData, pc \in Sending \cup Receiving, pc' # "send"
      PROVE  SendInv'
  BY <1>3 DEF SendInv
<1>4. CASE Loop
  BY <1>1, <1>4 DEF Loop, SkipFile, StartFile, Return, Tell
<1>5. CASE Encrypt
  <2>1. CASE OpenFails \/ ReadFails \/ FileTooLarge
    BY <1>1, <2>1 DEF OpenFails, ReadFails, FileTooLarge, Settle, Tell
  <2>2. CASE EncryptFile
    <3>1. idx \in DOMAIN SelectedFiles
      BY <2>2 DEF EncryptFile, BytesRead, TypeOK, Ended, Threw
    <3>2. disk[FileName] \in Contents
      BY <2>2, <3>1, UploadAssumption DEF EncryptFile, BytesRead, TypeOK, FileName
    <3>3. SizeOf[fileData'] \in FileSizes
      BY <2>2, <3>2, UploadAssumption, ConstantTypes DEF EncryptFile, BytesRead, FileSizes
    <3>4. Total' \in Nat \ {0}
      BY <3>3, TotalPacketsCeil DEF Total
    <3> QED  BY <2>2, <3>3, <3>4 DEF EncryptFile, BytesRead, SendInv
  <2> QED  BY <1>5, <2>1, <2>2 DEF Encrypt
<1>6. CASE Send
  <2>1. CASE SendPacket
    <3>1. SizeOf[fileData] \in FileSizes /\ packet \in 1 .. Total
      BY <2>1 DEF SendInv, SendPacket
    <3>2. Total \in Nat \ {0}
      BY <3>1, TotalPacketsCeil DEF Total
    <3> QED  BY <2>1, <3>1, <3>2 DEF SendInv, SendPacket, Total
  <2> QED  BY <1>1, <1>3, <1>6, <2>1 DEF Send, SendFails, SendSuccess, SendFailure, SendError, locals
<1>7. CASE Verify
  BY <1>1, <1>3, <1>7 DEF Verify, ReceiveFails, VerifyRejected, VerifyThrows, VerifyMatches,
                          VerifyMismatches, Settle, Tell
<1>8. CASE Ack
  BY <1>1, <1>8 DEF Ack, ReadAck, AckThrows, Settle, Tell
<1>9. CASE Server
  BY <1>2, <1>9 DEF Server, ServerTakesPacket, ServerTakesLastPacket, ServerTakesSuccess,
                    ServerTakesFailure, ServerTakesError, client, locals
<1>10. CASE Surroundings
  BY <1>2, <1>10 DEF Surroundings, EditFile, LinkBreaks, locals
<1>11. CASE UNCHANGED vars
  BY <1>2, <1>11 DEF vars, locals
<1> QED  BY <1>4, <1>5, <1>6, <1>7, <1>8, <1>9, <1>10, <1>11 DEF Next, Client, Over

-----------------------------------------------------------------------------
(* Client and server in step *)

\* Outside an exchange the connection carries at most CRC_ERROR requests.
LEMMA QuietChannels ==
    ASSUME InStep, faults = 0, pc \notin {"send"} \cup Receiving
    PROVE  /\ toClient = <<>>
           /\ \A i \in 1 .. Len(toServer) :
                  toServer[i].code \notin {"CREATE_BACKUP", "CRC_SUCCESS", "CRC_FAILURE"}
BY DEF InStep, InFlight, Receiving

\* A client step that leaves the connection alone.
LEMMA QuietStep ==
    ASSUME InStep, faults' = faults, UNCHANGED <<link, toServer, toClient>>,
           pc \notin {"send"} \cup Receiving,
           pc' \notin Receiving \cup {"send_success", "send_failure", "send_error", "failed_server"}
    PROVE  InStep'
<1>1. CASE faults = 0
  <2>1. /\ toClient' = <<>>
        /\ \A i \in 1 .. Len(toServer') :
               toServer'[i].code \notin {"CREATE_BACKUP", "CRC_SUCCESS", "CRC_FAILURE"}
    BY <1>1, QuietChannels
  <2>2. \A i \in 1 .. Len(toServer') : InFlight(i)'
    BY <2>1 DEF InFlight
  <2> QED  BY <1>1, <2>1, <2>2 DEF InStep, Receiving
<1>2. CASE faults # 0
  BY <1>2 DEF InStep
<1> QED  BY <1>1, <1>2

LEMMA InStepLoop == InStep /\ Loop => InStep'
<1> USE DEF Receiving
<1> QED  BY QuietStep DEF Loop, SkipFile, StartFile, Return, Tell, server

LEMMA InStepEncrypt == InStep /\ Encrypt => InStep'
<1> USE DEF Receiving
<1> QED  BY QuietStep DEF Encrypt, OpenFails, ReadFails, FileTooLarge, EncryptFile, BytesRead, Settle, Tell, server

\* The connection is down: a request is lost and no answer will come.
LEMMA DownStep ==
    ASSUME InStep, link = "down", UNCHANGED <<link, toServer, toClient, faults, upload, iv>>,
           pc' # "failed_server",
           pc' \in {"send_success", "send_failure", "send_error"} => LastIv = iv
    PROVE  InStep'
<1>1. toServer' = <<>> /\ toClient' = <<>>
  BY DEF InStep
<1>2. LastIv' = LastIv /\ iv' = iv
  BY DEF LastIv
<1> QED  BY <1>1, <1>2 DEF InStep

\* Sending a request when nothing else is under way.
LEMMA InStepStatus ==
    ASSUME TypeOK, InStep, pc \in {"send_success", "send_failure", "send_error"},
           SendSuccess \/ SendFailure \/ SendError
    PROVE  InStep'
<1>1. UNCHANGED <<link, toClient, faults, upload, iv, received, idx, fileData>>
  BY DEF SendSuccess, SendFailure, SendError, locals, server
<1>2. CASE link = "down"
  <2>1. UNCHANGED toServer
    BY <1>2 DEF SendSuccess, SendFailure, SendError, Transmit
  <2>2. pc' \in {"ack_success", "ack_failure", "encrypt"}
    BY DEF SendSuccess, SendFailure, SendError
  <2> QED  BY <1>1, <1>2, <2>1, <2>2, DownStep
<1>3. CASE link # "down" /\ faults # 0
  BY <1>1, <1>3 DEF InStep
<1>4. CASE link # "down" /\ faults = 0
  <2>1. toServer = <<>> /\ toClient = <<>> /\ LastIv = iv /\ link = "up"
    BY <1>4 DEF InStep, Receiving, TypeOK
  <2>2. LastIv' = iv' /\ toClient' = <<>> /\ link' = "up" /\ faults' = 0 /\ ThisCopy' = ThisCopy
    BY <1>1, <1>4, <2>1 DEF LastIv, ThisCopy, FileName
  <2>3. CASE SendSuccess
    <3>1. received' = {ThisCopy}
      BY <1>1, <1>4, <2>1, <2>3 DEF InStep, SendSuccess
    <3>2. toServer' = <<Status("CRC_SUCCESS")>>
      BY <2>1, <2>3 DEF SendSuccess, Transmit
    <3>3. pc' = "ack_success"
      BY <2>3 DEF SendSuccess
    <3>4. InFlight(1)'
      BY <3>2, <3>3 DEF InFlight, Status
    <3>5. AwaitsAck("CRC_SUCCESS")'
      BY <2>2, <3>1, <3>2 DEF AwaitsAck, Status
    <3> QED  BY <2>2, <3>2, <3>3, <3>4, <3>5 DEF InStep, Receiving
  <2>4. CASE SendFailure
    <3>2. toServer' = <<Status("CRC_FAILURE")>>
      BY <2>1, <2>4 DEF SendFailure, Transmit
    <3>3. pc' = "ack_failure"
      BY <2>4 DEF SendFailure
    <3>4. InFlight(1)'
      BY <3>2, <3>3 DEF InFlight, Status
    <3>5. AwaitsAck("CRC_FAILURE")'
      BY <2>2, <3>2 DEF AwaitsAck, Status
    <3> QED  BY <2>2, <3>2, <3>3, <3>4, <3>5 DEF InStep, Receiving
  <2>5. CASE SendError
    <3>2. toServer' = <<Status("CRC_ERROR")>>
      BY <2>1, <2>5 DEF SendError, Transmit
    <3>3. pc' = "encrypt"
      BY <2>5 DEF SendError
    <3>4. InFlight(1)'
      BY <3>2, <3>3 DEF InFlight, Status
    <3> QED  BY <2>2, <3>2, <3>3, <3>4 DEF InStep, Receiving
  <2> QED  BY <2>3, <2>4, <2>5
<1> QED  BY <1>2, <1>3, <1>4
\* The packet numbers of the upload in progress fit their fields, so that the
\* server sees the last packet, and only that one, as the last.
LEMMA LastPacketNumbered ==
    ASSUME TypeOK, SendInv, pc = "send"
    PROVE  /\ packet \in Nat /\ Total \in Nat
           /\ (PacketOf(packet).num = PacketOf(packet).total) <=> packet = Total
<1>1. SizeOf[fileData] \in FileSizes /\ packet \in 1 .. Total
  BY DEF SendInv, Sending
<1>2. NumbersFit(SizeOf[fileData])
  BY <1>1, PacketsNumbered
<1>3. Total \in 1 .. PacketField - 1 /\ packet % PacketField = packet
  BY <1>1, <1>2 DEF NumbersFit, Total
<1>4. Total % PacketField = Total
  <2>1. Total \in 1 .. Total
    BY <1>3, ConstantTypes
  <2> QED  BY <1>2, <2>1 DEF NumbersFit, Total
<1> QED  BY <1>1, <1>3, <1>4, ConstantTypes DEF PacketOf, TotalPacketsField, Total

LEMMA InStepPacket ==
    ASSUME TypeOK, SendInv, InStep, SendPacket
    PROVE  InStep'
<1> DEFINE n == Len(toServer)
           m == PacketOf(packet)
<1>1. /\ UNCHANGED <<link, toClient, faults, upload, iv, received, idx>>
      /\ pc = "send" /\ pc' \in {"send", "verify"} /\ Transmit(m)
      /\ pc' = "verify" <=> packet = Total
  BY DEF SendPacket, server
<1>2. CASE link = "down"
  <2>1. UNCHANGED toServer
    BY <1>1, <1>2 DEF Transmit
  <2> QED  BY <1>1, <1>2, <2>1, DownStep
<1>3. CASE link # "down" /\ faults # 0
  BY <1>1, <1>3 DEF InStep
<1>4. CASE link # "down" /\ faults = 0
  <2>1. /\ toServer \in Seq(Request) /\ n \in Nat /\ link = "up" /\ toClient = <<>>
        /\ \A i \in 1 .. n : InFlight(i)
    BY <1>1, <1>4 DEF InStep, Receiving, TypeOK
  <2>2. toServer' = Append(toServer, m)
    BY <1>1, <2>1 DEF Transmit
  <2>3. m.code = "CREATE_BACKUP" /\ m.name = FileName /\ m.iv = iv
    BY DEF PacketOf
  <2>4. (m.num = m.total) <=> (pc' = "verify")
    BY <1>1, LastPacketNumbered
  <2> HIDE DEF m
  <2>5. Len(toServer') = n + 1 /\ toServer'[n + 1] = m
    BY <2>1, <2>2
  <2>6. ASSUME NEW i \in 1 .. n + 1 PROVE InFlight(i)'
    <3>1. CASE i = n + 1
      BY <1>1, <2>3, <2>4, <2>5, <3>1 DEF InFlight, FileName
    <3>2. CASE i # n + 1
      <4>1. i \in 1 .. n /\ toServer'[i] = toServer[i] /\ i # Len(toServer')
        BY <2>1, <2>2, <2>5, <3>2
      <4>2. InFlight(i)
        BY <2>1, <4>1
      <4> QED  BY <1>1, <4>1, <4>2 DEF InFlight, FileName
    <3> QED  BY <3>1, <3>2
  <2>7. toServer' # <<>> /\ toServer'[Len(toServer')].code = "CREATE_BACKUP" /\ toClient' = <<>>
    BY <1>1, <2>1, <2>2, <2>3, <2>5
  <2>8. AwaitsVerdict'
    BY <2>7 DEF AwaitsVerdict
  <2> QED  BY <1>1, <1>4, <2>1, <2>5, <2>6, <2>7, <2>8 DEF InStep, Receiving
<1> QED  BY <1>2, <1>3, <1>4

LEMMA InStepSend == TypeOK /\ SendInv /\ InStep /\ Send => InStep'
<1> SUFFICES ASSUME TypeOK, SendInv, InStep, Send PROVE InStep'
  OBVIOUS
<1>1. CASE SendFails
  BY <1>1, DownStep DEF SendFails, server, locals
<1>2. CASE SendPacket
  BY <1>2, InStepPacket
<1>3. CASE SendSuccess \/ SendFailure \/ SendError
  BY <1>3, InStepStatus DEF SendSuccess, SendFailure, SendError
<1> QED  BY <1>1, <1>2, <1>3 DEF Send

-----------------------------------------------------------------------------
(* Reading the answer *)

\* When a response is there to be read, it is the only thing under way.
LEMMA AnswerAlone ==
    ASSUME TypeOK, InStep, faults = 0, pc \in Receiving, toClient # <<>>
    PROVE  /\ link = "up" /\ toServer = <<>> /\ Len(toClient) = 1 /\ Tail(toClient) = <<>>
           /\ pc = "verify" => AwaitsVerdict
           /\ pc = "ack_success" => AwaitsAck("CRC_SUCCESS")
           /\ pc = "ack_failure" => AwaitsAck("CRC_FAILURE")
<1>1. link = "up"
  BY DEF InStep, TypeOK
<1>2. /\ pc = "verify" => AwaitsVerdict
      /\ pc = "ack_success" => AwaitsAck("CRC_SUCCESS")
      /\ pc = "ack_failure" => AwaitsAck("CRC_FAILURE")
  BY <1>1 DEF InStep
<1>3. toServer = <<>> /\ Len(toClient) = 1
  BY <1>2 DEF AwaitsVerdict, AwaitsAck, Receiving
<1>4. Tail(toClient) = <<>>
  <2>1. Tail(toClient) \in Seq(Reply) /\ Len(Tail(toClient)) = 0
    BY <1>3 DEF TypeOK
  <2> QED  BY <2>1, EmptySeq
<1> QED  BY <1>1, <1>2, <1>3, <1>4

\* A step that reads the last response and leaves nothing under way.
LEMMA ReadStep ==
    ASSUME TypeOK, InStep, pc \in Receiving, Receive,
           UNCHANGED <<link, toServer, faults, upload>>,
           pc' \notin {"send"} \cup Receiving,
           faults = 0 => pc' # "failed_server",
           pc' \in {"send_success", "send_failure", "send_error"} /\ faults = 0 =>
               LastIv = iv /\ UNCHANGED iv,
           pc' = "send_success" /\ faults = 0 =>
               UNCHANGED <<received, idx, fileData>> /\ received = {ThisCopy}
    PROVE  InStep'
<1>1. CASE link = "down"
  <2>1. toClient = <<>>
    BY <1>1 DEF InStep
  <2> QED  BY <2>1 DEF Receive
<1>2. CASE link # "down" /\ faults # 0
  BY <1>2 DEF InStep
<1>3. CASE link # "down" /\ faults = 0
  <2>1. link' = "up" /\ toServer' = <<>> /\ toClient' = <<>> /\ faults' = 0
    BY <1>3, AnswerAlone DEF Receive
  <2>2. pc' \in {"send_success", "send_failure", "send_error"} => LastIv' = iv'
    BY <1>3 DEF LastIv
  <2>3. pc' = "send_success" => received' = {ThisCopy'}
    BY <1>3 DEF ThisCopy, FileName
  <2> QED  BY <1>3, <2>1, <2>2, <2>3 DEF InStep, Receiving
<1> QED  BY <1>1, <1>2, <1>3

LEMMA InStepVerify == TypeOK /\ InStep /\ Verify => InStep'
<1> SUFFICES ASSUME TypeOK, InStep, Verify PROVE InStep'
  OBVIOUS
<1> USE DEF Receiving
<1>1. ASSUME pc = "verify", Receive, faults = 0
      PROVE  /\ LastIv = iv
             /\ \/ Answer.code = "UPLOAD_REJECTED_TOO_LARGE"
                \/ GoodVerdict(Answer) /\ received = {[name |-> FileName, sum |-> Answer.sum]}
  BY <1>1, AnswerAlone DEF Receive, AwaitsVerdict
<1>2. CASE ReceiveFails
  BY <1>2, DownStep DEF ReceiveFails, server, locals
<1>3. CASE VerifyRejected
  BY <1>3, ReadStep DEF VerifyRejected, Settle, Tell, server, locals
<1>4. CASE VerifyThrows
  BY <1>1, <1>4, ReadStep DEF VerifyThrows, server, locals
<1>5. CASE VerifyMatches
  <2>1. faults = 0 => received = {ThisCopy} /\ LastIv = iv
    BY <1>1, <1>5 DEF VerifyMatches, GoodVerdict, Mismatch, LocalChecksum, ThisCopy
  <2> QED  BY <1>5, <2>1, ReadStep DEF VerifyMatches, server
<1>6. CASE VerifyMismatches
  BY <1>1, <1>6, ReadStep DEF VerifyMismatches, server
<1> QED  BY <1>2, <1>3, <1>4, <1>5, <1>6 DEF Verify

LEMMA InStepAck == TypeOK /\ InStep /\ Ack => InStep'
<1> SUFFICES ASSUME TypeOK, InStep, Ack PROVE InStep'
  OBVIOUS
<1> USE DEF Receiving
<1>1. CASE ReadAck
  BY <1>1, ReadStep DEF ReadAck, Settle, Tell, server, locals
<1>2. CASE AckThrows
  <2>1. faults = 0 => GoodAck(Answer)
    BY <1>2, AnswerAlone DEF AckThrows, Receive, AwaitsAck
  <2> QED  BY <1>2, <2>1, ReadStep DEF AckThrows, server, locals
<1> QED  BY <1>1, <1>2 DEF Ack
-----------------------------------------------------------------------------
(* The server *)

LEMMA TakeShifts ==
    ASSUME TypeOK, NEW codes, Take(codes)
    PROVE  /\ Len(toServer) \in Nat \ {0} /\ Len(toServer') = Len(toServer) - 1
           /\ Head(toServer) = toServer[1]
           /\ \A i \in 1 .. Len(toServer') : toServer'[i] = toServer[i + 1]
           /\ Len(toServer) = 1 => toServer' = <<>>
<1>1. toServer \in Seq(Request) /\ toServer # <<>> /\ toServer' = Tail(toServer)
  BY DEF TypeOK, Take
<1>2. /\ Len(toServer) \in Nat \ {0} /\ Len(toServer') = Len(toServer) - 1
      /\ Head(toServer) = toServer[1]
      /\ \A i \in 1 .. Len(toServer') : toServer'[i] = toServer[i + 1]
  BY <1>1
<1>3. Len(toServer) = 1 => toServer' = <<>>
  <2>1. toServer' \in Seq(Request)
    BY <1>1
  <2> QED  BY <1>2, <2>1, EmptySeq
<1> QED  BY <1>2, <1>3

\* A response that is right is the only one sent.
LEMMA AnswersRight ==
    ASSUME TypeOK, NEW r, Answers(r), faults' = 0
    PROVE  faults = 0 /\ toClient' = Append(toClient, r)
BY DEF Answers, TypeOK

LEMMA AssembledLast ==
    ASSUME TypeOK, NEW m \in PacketRequest, upload' = Assembled(m)
    PROVE  LastIv' = m.iv
<1>1. upload \in Seq(PacketRequest)
  BY DEF TypeOK
<1>2. upload' # <<>> /\ upload'[Len(upload')] = m
  <2>1. CASE m.num = 1
    BY <2>1 DEF Assembled
  <2>2. CASE m.num # 1
    BY <1>1, <2>2 DEF Assembled
  <2> QED  BY <2>1, <2>2
<1> QED  BY <1>2 DEF LastIv

\* A request that is not answered is taken from in front of others.
LEMMA TakeStep ==
    ASSUME TypeOK, InStep, NEW codes, Take(codes), UNCHANGED <<client, link, toClient, faults>>,
           codes \in {{"CREATE_BACKUP"}, {"CRC_ERROR"}},
           Head(toServer).code = "CREATE_BACKUP" => Head(toServer).num # Head(toServer).total
    PROVE  InStep'
<1> DEFINE m == Head(toServer)
           n == Len(toServer)
<1>1. /\ n \in Nat \ {0} /\ Len(toServer') = n - 1 /\ m = toServer[1]
      /\ \A i \in 1 .. Len(toServer') : toServer'[i] = toServer[i + 1]
      /\ link = "up" /\ m.code \in {"CREATE_BACKUP", "CRC_ERROR"} /\ toServer # <<>>
  BY TakeShifts DEF Take
<1>2. UNCHANGED <<pc, idx, iv, fileData, FileName>>
  BY DEF client, locals, FileName
<1>3. CASE faults # 0
  BY <1>1, <1>3 DEF InStep
<1>4. CASE faults = 0
  <2>1. \A i \in 1 .. n : InFlight(i)
    BY <1>4 DEF InStep
  <2>2. ASSUME NEW i \in 1 .. Len(toServer') PROVE InFlight(i)'
    <3>1. i + 1 \in 1 .. n /\ n # 1 /\ toServer'[i] = toServer[i + 1]
      BY <1>1
    <3>2. InFlight(i + 1)
      BY <2>1, <3>1
    <3>3. i + 1 = n <=> i = Len(toServer')
      BY <1>1, <3>1
    <3> QED  BY <1>2, <3>1, <3>2, <3>3 DEF InFlight
  <2>3. InFlight(1)
    BY <1>1, <2>1
  <2>4. pc \notin {"send_success", "send_failure", "send_error"}
    BY <1>1, <1>4 DEF InStep
  <2>5. pc \notin {"ack_success", "ack_failure"}
    BY <1>1, <1>4 DEF InStep, AwaitsAck
  <2>6. pc = "verify" => AwaitsVerdict'
    <3>1. SUFFICES ASSUME pc = "verify" PROVE AwaitsVerdict'
      OBVIOUS
    <3>2. toClient = <<>> /\ toServer[n].code = "CREATE_BACKUP"
      BY <1>1, <1>4, <3>1 DEF InStep, AwaitsVerdict
    <3>3. n # 1
      BY <1>1, <2>3, <3>1, <3>2 DEF InFlight
    <3>4. Len(toServer') \in Nat \ {0} /\ toServer'[Len(toServer')] = toServer[n]
      BY <1>1, <3>3
    <3>5. toServer' # <<>>
      BY <3>4
    <3> QED  BY <3>2, <3>4, <3>5 DEF AwaitsVerdict
  <2>7. pc \notin Receiving => toClient' = <<>>
    BY <1>4 DEF InStep
  <2>8. pc' # "failed_server"
    BY <1>2, <1>4 DEF InStep
  <2> QED  BY <1>1, <1>2, <1>4, <2>2, <2>4, <2>5, <2>6, <2>7, <2>8 DEF InStep
<1> QED  BY <1>3, <1>4

\* A request that is answered was the only one under way.
LEMMA AnswerStep ==
    ASSUME TypeOK, InStep, NEW codes, Take(codes), UNCHANGED <<client, link>>,
           NEW r, Answers(r), r.iv = iv, Len(toServer) = 1, pc \in Receiving,
           faults = 0 => toClient = <<>>,
           pc = "verify" /\ faults = 0 =>
               /\ LastIv' = iv
               /\ \/ r.code = "UPLOAD_REJECTED_TOO_LARGE"
                  \/ GoodVerdict(r) /\ received' = {[name |-> FileName, sum |-> r.sum]},
           pc \in {"ack_success", "ack_failure"} /\ faults = 0 => GoodAck(r),
           pc = "ack_success" /\ faults = 0 => ThisCopy \in stored'
    PROVE  InStep'
<1>1. toServer' = <<>> /\ link' = "up"
  BY TakeShifts DEF Take
<1>2. UNCHANGED <<pc, iv, FileName, ThisCopy>>
  BY DEF client, locals, FileName, ThisCopy
<1>3. CASE faults' # 0
  BY <1>1, <1>3 DEF InStep
<1>4. CASE faults' = 0
  <2>1. faults = 0 /\ toClient' = <<r>>
    BY <1>4, AnswersRight
  <2>2. Len(toClient') = 1 /\ Answer' = r
    BY <2>1 DEF Answer
  <2>3. pc' = "verify" => AwaitsVerdict'
    BY <1>1, <1>2, <2>1, <2>2 DEF AwaitsVerdict, GoodVerdict
  <2>4. pc' = "ack_success" => AwaitsAck("CRC_SUCCESS")'
    BY <1>1, <1>2, <2>1, <2>2 DEF AwaitsAck, GoodAck
  <2>5. pc' = "ack_failure" => AwaitsAck("CRC_FAILURE")'
    BY <1>1, <1>2, <2>1, <2>2 DEF AwaitsAck, GoodAck
  <2> QED  BY <1>1, <1>2, <1>4, <2>3, <2>4, <2>5 DEF InStep, Receiving
<1> QED  BY <1>3, <1>4
LEMMA InStepServer == TypeOK /\ InStep /\ Server => InStep'
<1> SUFFICES ASSUME TypeOK, InStep, Server PROVE InStep'
  OBVIOUS
<1> DEFINE m == Head(toServer)
<1>1. link = "up" /\ link' = "up" /\ faults \in Nat
  BY DEF Server, ServerTakesPacket, ServerTakesLastPacket, ServerTakesSuccess,
         ServerTakesFailure, ServerTakesError, Take, TypeOK
<1>2. CASE faults # 0
  <2>1. faults' # 0
    BY <1>1, <1>2 DEF Server, ServerTakesPacket, ServerTakesLastPacket, ServerTakesSuccess,
                      ServerTakesFailure, ServerTakesError, Answers
  <2> QED  BY <1>1, <2>1 DEF InStep
<1>3. CASE faults = 0
  <2>1. ASSUME NEW codes, Take(codes)
        PROVE  InFlight(1) /\ m = toServer[1] /\ m.code \in codes /\ Len(toServer) \in Nat \ {0}
    <3>1. Len(toServer) \in Nat \ {0} /\ m = toServer[1] /\ m.code \in codes
      BY <2>1, TakeShifts DEF Take
    <3> QED  BY <1>3, <3>1 DEF InStep
  <2>2. CASE ServerTakesPacket
    <3>1. /\ Take({"CREATE_BACKUP"}) /\ m.num # m.total
          /\ UNCHANGED <<client, link, toClient, faults>>
      BY <2>2 DEF ServerTakesPacket
    <3> QED  BY <3>1, TakeStep
  <2>3. CASE ServerTakesLastPacket
    <3> DEFINE copy(sum) == [name |-> m.name, sum |-> sum]
               sound == IF Intact(Assembled(m)) THEN Crc[m.data] ELSE BadSum
    <3>1. /\ Take({"CREATE_BACKUP"}) /\ m.num = m.total /\ upload' = Assembled(m)
          /\ UNCHANGED <<client, link>>
      BY <2>3 DEF ServerTakesLastPacket
    <3>2. /\ pc = "verify" /\ Len(toServer) = 1 /\ m.name = FileName /\ m.iv = iv
      BY <2>1, <3>1 DEF InFlight
    <3>3. m \in PacketRequest
      BY <3>1, PacketHead
    <3>4. LastIv' = iv
      BY <3>1, <3>2, <3>3, AssembledLast
    <3>5. toClient = <<>>
      BY <1>1, <1>3, <2>1, <3>1, <3>2 DEF InStep, AwaitsVerdict
    <3>6. ASSUME NEW sum, received' = {copy(sum)}, Answers(Verdict(copy(sum), m.iv, ReportedSize(m)))
          PROVE  InStep'
      <4> DEFINE r == Verdict(copy(sum), m.iv, ReportedSize(m))
      <4>1. r.iv = iv /\ GoodVerdict(r) /\ received' = {[name |-> FileName, sum |-> r.sum]}
        BY <3>2, <3>6 DEF Verdict, GoodVerdict
      <4>2. Answers(r)
        BY <3>6
      <4> HIDE DEF r
      <4> QED  BY <3>1, <3>2, <3>4, <3>5, <4>1, <4>2, AnswerStep DEF Receiving
    <3>7. ASSUME Answers(Plain("UPLOAD_REJECTED_TOO_LARGE", m.iv)) PROVE InStep'
      <4> DEFINE r == Plain("UPLOAD_REJECTED_TOO_LARGE", m.iv)
      <4>1. r.iv = iv /\ r.code = "UPLOAD_REJECTED_TOO_LARGE"
        BY <3>2 DEF Plain
      <4>2. Answers(r)
        BY <3>7
      <4> HIDE DEF r
      <4> QED  BY <3>1, <3>2, <3>4, <3>5, <4>1, <4>2, AnswerStep DEF Receiving
    <3> HIDE DEF sound, copy
    <3>8. \/ Answers(Plain("UPLOAD_REJECTED_TOO_LARGE", m.iv))
          \/ \E sum : received' = {copy(sum)} /\ Answers(Verdict(copy(sum), m.iv, ReportedSize(m)))
      BY <2>3 DEF ServerTakesLastPacket, sound, copy
    <3> QED  BY <3>6, <3>7, <3>8
  <2>4. CASE ServerTakesSuccess
    <3>1. /\ Take({"CRC_SUCCESS"}) /\ UNCHANGED <<client, link>>
          /\ stored' = stored \cup received
      BY <2>4 DEF ServerTakesSuccess
    <3>2. pc = "ack_success" /\ Len(toServer) = 1
      BY <2>1, <3>1 DEF InFlight
    <3>3. received = {ThisCopy} /\ LastIv = iv /\ toClient = <<>>
      BY <1>1, <1>3, <2>1, <3>1, <3>2 DEF InStep, AwaitsAck
    <3> DEFINE r == Plain("ACK", LastIv)
    <3>4. Answers(r)
      BY <2>4, <3>3 DEF ServerTakesSuccess
    <3>5. r.iv = iv /\ GoodAck(r)
      BY <3>3 DEF Plain, GoodAck
    <3>6. ThisCopy \in stored'
      BY <3>1, <3>3
    <3> HIDE DEF r
    <3> QED  BY <3>1, <3>2, <3>3, <3>4, <3>5, <3>6, AnswerStep DEF Receiving
  <2>5. CASE ServerTakesFailure
    <3>1. Take({"CRC_FAILURE"}) /\ UNCHANGED <<client, link>>
      BY <2>5 DEF ServerTakesFailure
    <3>2. pc = "ack_failure" /\ Len(toServer) = 1
      BY <2>1, <3>1 DEF InFlight
    <3>3. LastIv = iv /\ toClient = <<>>
      BY <1>1, <1>3, <2>1, <3>1, <3>2 DEF InStep, AwaitsAck
    <3> DEFINE r == Plain("ACK", LastIv)
    <3>4. Answers(r)
      BY <2>5 DEF ServerTakesFailure
    <3>5. r.iv = iv /\ GoodAck(r)
      BY <3>3 DEF Plain, GoodAck
    <3> HIDE DEF r
    <3> QED  BY <3>1, <3>2, <3>3, <3>4, <3>5, AnswerStep DEF Receiving
  <2>6. CASE ServerTakesError
    <3>1. Take({"CRC_ERROR"}) /\ UNCHANGED <<client, link, toClient, faults>>
      BY <2>6 DEF ServerTakesError
    <3>2. m.code # "CREATE_BACKUP"
      BY <2>1, <3>1
    <3> QED  BY <3>1, <3>2, TakeStep
  <2> QED  BY <2>2, <2>3, <2>4, <2>5, <2>6 DEF Server
<1> QED  BY <1>2, <1>3

LEMMA InStepSurroundings == InStep /\ Surroundings => InStep'
<1> SUFFICES ASSUME InStep, Surroundings PROVE InStep'
  OBVIOUS
<1>1. CASE EditFile
  <2>1. UNCHANGED <<pc, idx, iv, fileData, link, toServer, toClient, upload, received, stored, faults>>
    BY <1>1 DEF EditFile, locals, server
  <2> QED  BY <2>1 DEF InStep, InFlight, AwaitsVerdict, AwaitsAck, LastIv, ThisCopy, FileName, Answer
<1>2. CASE LinkBreaks
  <2>1. UNCHANGED <<pc, iv, upload, faults>> /\ toServer' = <<>> /\ toClient' = <<>> /\ link' = "down"
    BY <1>2 DEF LinkBreaks, locals, server
  <2> QED  BY <2>1 DEF InStep, LastIv
<1> QED  BY <1>1, <1>2 DEF Surroundings

LEMMA InStepStep == TypeOK /\ SendInv /\ InStep /\ [Next]_vars => InStep'
<1> SUFFICES ASSUME InStep, UNCHANGED vars PROVE InStep'
  BY InStepLoop, InStepEncrypt, InStepSend, InStepVerify, InStepAck, InStepServer,
     InStepSurroundings DEF Next, Client, Over
<1>1. UNCHANGED <<pc, idx, iv, fileData, link, toServer, toClient, upload, received, stored, faults>>
  BY DEF vars, locals, server
<1> QED  BY <1>1 DEF InStep, InFlight, AwaitsVerdict, AwaitsAck, LastIv, ThisCopy, FileName, Answer

LEMMA InStepAlways == Spec => [](TypeOK /\ SendInv /\ InStep)
<1>1. Init => SendInv /\ InStep
  BY DEF Init, SendInv, InStep, Sending, Receiving
<1> QED  BY <1>1, TypeCorrect, SendInvStep, InStepStep, PTL DEF Spec

\* As long as the server answers every request once and with the right kind of
\* response, what the client reads is the answer to what it sent last.
THEOREM RepliesPaired == Spec => []PairedReplies
<1>1. TypeOK /\ InStep => PairedReplies
  <2> SUFFICES ASSUME TypeOK, InStep, faults = 0
               PROVE  /\ Len(toClient) =< 1
                      /\ toClient # <<>> =>
                             /\ toServer = <<>> /\ Answer.iv = iv
                             /\ \/ /\ pc = "verify"
                                   /\ Answer.code \in {"UPLOAD_RECEIVED", "UPLOAD_REJECTED_TOO_LARGE"}
                                \/ pc \in {"ack_success", "ack_failure"} /\ Answer.code = "ACK"
    BY DEF PairedReplies
  <2>1. CASE toClient = <<>>
    BY <2>1
  <2>2. CASE toClient # <<>>
    <3>1. pc \in Receiving
      BY <2>2 DEF InStep
    <3>2. /\ toServer = <<>> /\ Len(toClient) = 1
          /\ pc = "verify" => AwaitsVerdict
          /\ pc = "ack_success" => AwaitsAck("CRC_SUCCESS")
          /\ pc = "ack_failure" => AwaitsAck("CRC_FAILURE")
      BY <2>2, <3>1, AnswerAlone
    <3>3. CASE pc = "verify"
      BY <2>2, <3>2, <3>3 DEF AwaitsVerdict, GoodVerdict
    <3>4. CASE pc = "ack_success"
      BY <2>2, <3>2, <3>4 DEF AwaitsAck, GoodAck
    <3>5. CASE pc = "ack_failure"
      BY <2>2, <3>2, <3>5 DEF AwaitsAck, GoodAck
    <3> QED  BY <3>1, <3>3, <3>4, <3>5 DEF Receiving
  <2> QED  BY <2>1, <2>2
<1> QED  BY <1>1, InStepAlways, PTL

\* The copies the server confirmed are never withdrawn, a wrong response stays
\* counted, and a connection that is lost stays lost.
LEMMA StoredGrows ==
    ASSUME TypeOK, [Next]_vars
    PROVE  /\ stored \subseteq stored' /\ (link' = "up" => link = "up")
           /\ faults \in Nat /\ faults' \in Nat /\ faults =< faults'
<1>1. faults \in Nat
  BY DEF TypeOK
<1>2. CASE Client \/ Surroundings \/ Over \/ UNCHANGED vars
  BY <1>1, <1>2 DEF Client, Loop, SkipFile, StartFile, Return, Encrypt, OpenFails, ReadFails,
              FileTooLarge, EncryptFile, Send, SendFails, SendPacket, SendSuccess, SendFailure,
              SendError, Verify, ReceiveFails, VerifyRejected, VerifyThrows, VerifyMatches,
              VerifyMismatches, Ack, ReadAck, AckThrows, Surroundings, EditFile, LinkBreaks, Over,
              vars, server
<1>3. CASE Server
  BY <1>1, <1>3 DEF Server, ServerTakesPacket, ServerTakesLastPacket, ServerTakesSuccess,
                    ServerTakesFailure, ServerTakesError, Answers
<1> QED  BY <1>2, <1>3 DEF Next

-----------------------------------------------------------------------------
(* No retry without damage: the packets of one encryption *)

\* The numbers in the packets of the upload in progress.
LEMMA PacketNumbers ==
    ASSUME SendInv, pc \in Sending \cup Receiving
    PROVE  /\ Total \in Nat \ {0}
           /\ \A p \in 1 .. Total : PacketOf(p).num = p /\ PacketOf(p).total = Total
           /\ SizeOf[fileData] \in FileSizes
<1>1. SizeOf[fileData] \in FileSizes
  BY DEF SendInv
<1>2. NumbersFit(SizeOf[fileData])
  BY <1>1, PacketsNumbered
<1>3. Total \in 1 .. PacketField - 1 /\ \A p \in 1 .. Total : p % PacketField = p
  BY <1>2 DEF NumbersFit, Total
<1>4. Total \in 1 .. Total
  BY <1>3, ConstantTypes
<1>5. Total % PacketField = Total
  BY <1>3, <1>4
<1>6. \A p \in 1 .. Total : PacketOf(p).num = p /\ PacketOf(p).total = Total
  BY <1>3, <1>5 DEF PacketOf, TotalPacketsField, Total
<1> QED  BY <1>1, <1>3, <1>6, ConstantTypes

LEMMA PacketFields ==
    ASSUME NEW p
    PROVE  /\ PacketOf(p).code = "CREATE_BACKUP" /\ PacketOf(p).iv = iv
           /\ PacketOf(p).data = fileData
           /\ PacketOf(p).len = ChunkLength(SizeOf[fileData], p)
BY DEF PacketOf

\* All the packets of one encryption, in order: that is what the server needs.
LEMMA AllPacketsIntact ==
    ASSUME SendInv, pc \in Sending \cup Receiving,
           NEW u, u = [j \in 1 .. Total |-> PacketOf(j)]
    PROVE  Intact(u)
<1>1. /\ Total \in Nat \ {0} /\ SizeOf[fileData] \in FileSizes
      /\ \A p \in 1 .. Total : PacketOf(p).num = p /\ PacketOf(p).total = Total
  BY PacketNumbers
<1>2. Len(u) = Total /\ \A p \in 1 .. Total : u[p] = PacketOf(p)
  BY <1>1
<1>3. 1 \in 1 .. Total /\ Total \in 1 .. Total
  BY <1>1
<1>4. \A p \in 1 .. Total : u[p].num = p /\ u[p].iv = u[1].iv /\ u[p].total = Total
  BY <1>1, <1>2, <1>3, PacketFields
<1>5. u[Total].data = fileData /\ u[Total].len = ChunkLength(SizeOf[fileData], Total)
  BY <1>2, <1>3, PacketFields
<1>6. StartOffset(SizeOf[fileData], Total) + ChunkLength(SizeOf[fileData], Total)
        = EncryptedSize(SizeOf[fileData])
  <2>1. Contiguous(SizeOf[fileData])
    BY <1>1, PacketsCoverFile
  <2> QED  BY <2>1 DEF Contiguous, Total
<1> QED  BY <1>2, <1>4, <1>5, <1>6 DEF Intact

-----------------------------------------------------------------------------
(* No retry without damage: the client *)

\* Damage and faults are never undone.
LEMMA CleanBefore ==
    ASSUME TypeOK, [Next]_vars, Clean'
    PROVE  Clean
<1>1. damages \in Nat /\ faults' = 0 /\ damages' = 0 /\ ServerReports = "last_chunk"
  BY DEF TypeOK, Clean
<1>2. faults = 0
  BY <1>1, StoredGrows
<1>3. damages = 0
  <2>1. CASE Client \/ Surroundings \/ Over \/ UNCHANGED vars
    BY <1>1, <2>1
       DEF Client, Loop, SkipFile, StartFile, Return, Encrypt, OpenFails, ReadFails, FileTooLarge,
           EncryptFile, Send, SendFails, SendPacket, SendSuccess, SendFailure, SendError,
           Verify, ReceiveFails, VerifyRejected, VerifyThrows, VerifyMatches, VerifyMismatches,
           Ack, ReadAck, AckThrows, Surroundings, EditFile, LinkBreaks, Over, vars, server
  <2>2. CASE Server
    BY <1>1, <2>2 DEF Server, ServerTakesPacket, ServerTakesLastPacket, ServerTakesSuccess,
                      ServerTakesFailure, ServerTakesError
  <2> QED  BY <2>1, <2>2 DEF Next
<1> QED  BY <1>1, <1>2, <1>3 DEF Clean

\* Outside an upload there is little to show.
LEMMA OutsideUpload ==
    ASSUME crcFailures' = 0,
           pc' \notin {"send", "verify", "send_failure", "send_error", "ack_failure"},
           \A i \in 1 .. Len(toServer') : toServer'[i].code # "CRC_ERROR"
    PROVE  NoRetry' /\ PacketsInOrder' /\ VerdictMatches'
BY DEF NoRetry, PacketsInOrder, VerdictMatches

LEMMA CleanLoop ==
    ASSUME NoRetry, Loop
    PROVE  NoRetry' /\ PacketsInOrder' /\ VerdictMatches'
<1>1. /\ crcFailures' = 0 /\ UNCHANGED toServer
      /\ pc' \notin {"send", "verify", "send_failure", "send_error", "ack_failure"}
  BY DEF NoRetry, Loop, SkipFile, StartFile, Return, FirstFailureCount, Tell, locals
<1> QED  BY <1>1, OutsideUpload DEF NoRetry

\* An upload starts with nothing under way.
LEMMA CleanEncrypt ==
    ASSUME TypeOK, InStep, Clean, NoRetry, Encrypt
    PROVE  NoRetry' /\ PacketsInOrder' /\ VerdictMatches'
<1>1. CASE OpenFails \/ ReadFails \/ FileTooLarge
  <2>1. /\ crcFailures' = 0 /\ UNCHANGED toServer
        /\ pc' \notin {"send", "verify", "send_failure", "send_error", "ack_failure"}
    BY <1>1 DEF NoRetry, OpenFails, ReadFails, FileTooLarge, Settle, Tell, locals
  <2> QED  BY <2>1, OutsideUpload DEF NoRetry
<1>2. CASE EncryptFile
  <2>1. /\ pc = "encrypt" /\ pc' = "send" /\ packet' = 1
        /\ UNCHANGED <<crcFailures, toServer, toClient, link>>
    BY <1>2 DEF EncryptFile
  <2>2. toServer = <<>>
    <3>1. toServer \in Seq(Request)
      BY DEF TypeOK
    <3>2. SUFFICES ASSUME Len(toServer) # 0 PROVE FALSE
      BY <3>1, EmptySeq
    <3>3. 1 \in 1 .. Len(toServer) /\ toServer[1] \in Request
      BY <3>1, <3>2
    <3>4. InFlight(1)
      BY <3>3 DEF InStep, Clean
    <3>5. toServer[1].code \in {"CREATE_BACKUP", "CRC_SUCCESS", "CRC_FAILURE", "CRC_ERROR"}
      BY <3>3 DEF Request, PacketRequest, StatusRequest, StatusCodes
    <3> QED  BY <2>1, <3>3, <3>4, <3>5 DEF InFlight, NoRetry
  <2>3. Len(toServer') = 0 /\ Taken' = 0
    <3>1. toServer' = <<>> /\ Len(toServer') = 0
      BY <2>1, <2>2, EmptySeq
    <3>2. packet' - 1 - 0 = 0
      BY <2>1
    <3> QED  BY <3>1, <3>2 DEF Taken
  <2> QED  BY <2>1, <2>3 DEF NoRetry, PacketsInOrder, VerdictMatches
<1> QED  BY <1>1, <1>2 DEF Encrypt

\* The next packet goes out behind the others.
LEMMA CleanSendPacket ==
    ASSUME TypeOK, SendInv, InStep, Clean, NoRetry, PacketsInOrder, SendPacket
    PROVE  NoRetry' /\ PacketsInOrder' /\ VerdictMatches'
<1> DEFINE n == Len(toServer)
           m == PacketOf(packet)
<1>1. /\ pc = "send" /\ pc' \in {"send", "verify"} /\ packet' = packet + 1
      /\ UNCHANGED <<idx, iv, fileData, crcFailures, link, toClient, upload>>
      /\ Transmit(m)
      /\ pc' = "verify" => packet = Total /\ encryptedFileSize' = ChunkLength(SizeOf[fileData], packet)
  BY DEF SendPacket, server, SizeSent
<1>2. toClient = <<>> /\ toClient' = <<>> /\ packet \in Nat /\ n \in Nat /\ toServer \in Seq(Request)
  BY <1>1 DEF InStep, Clean, Receiving, TypeOK
<1>3. Total' = Total /\ \A p : PacketOf(p)' = PacketOf(p)
  BY <1>1 DEF Total, PacketOf, FileName
<1>4. VerdictMatches'
  BY <1>1, <1>2, <1>3 DEF VerdictMatches
<1>5. m.code # "CRC_ERROR"
  BY PacketFields
<1>6. CASE link # "up"
  <2>1. UNCHANGED toServer
    BY <1>1, <1>6 DEF Transmit
  <2> QED  BY <1>1, <1>4, <1>6, <2>1 DEF NoRetry, PacketsInOrder
<1>7. CASE link = "up"
  <2>1. toServer' = Append(toServer, m)
    BY <1>1, <1>7 DEF Transmit
  <2> HIDE DEF m
  <2>2. /\ Len(toServer') = n + 1 /\ toServer'[n + 1] = m
        /\ \A i \in 1 .. n : toServer'[i] = toServer[i]
    BY <1>2, <2>1
  <2>3. NoRetry'
    <3>1. \A i \in 1 .. n + 1 : toServer'[i].code # "CRC_ERROR"
      <4>1. SUFFICES ASSUME NEW i \in 1 .. n + 1 PROVE toServer'[i].code # "CRC_ERROR"
        OBVIOUS
      <4>2. CASE i = n + 1
        BY <1>5, <2>2, <4>2
      <4>3. CASE i \in 1 .. n
        BY <2>2, <4>3 DEF NoRetry
      <4> QED  BY <1>2, <4>2, <4>3
    <3> QED  BY <1>1, <2>2, <3>1 DEF NoRetry
  <2>4. Taken \in Nat /\ Taken = packet - 1 - n /\ Taken' = Taken
    <3>1. Taken' = packet + 1 - 1 - (n + 1)
      <4>1. Taken' = packet' - 1 - Len(toServer')
        BY DEF Taken
      <4> QED  BY <1>1, <1>2, <2>2, <4>1
    <3>2. Taken \in Nat /\ Taken = packet - 1 - n
      BY <1>1, <1>2, <1>7 DEF PacketsInOrder, Taken
    <3> QED  BY <1>2, <3>1, <3>2
  <2>5. \A i \in 1 .. n + 1 : toServer'[i] = PacketOf(Taken + i)
    <3>1. SUFFICES ASSUME NEW i \in 1 .. n + 1 PROVE toServer'[i] = PacketOf(Taken + i)
      OBVIOUS
    <3>2. CASE i = n + 1
      <4>1. Taken + i = packet
        BY <1>2, <2>4, <3>2
      <4> QED  BY <2>2, <3>2, <4>1 DEF m
    <3>3. CASE i \in 1 .. n
      BY <1>1, <1>2, <1>7, <2>2, <3>3 DEF PacketsInOrder
    <3> QED  BY <1>2, <3>2, <3>3
  <2>6. Taken # 0 => upload = [j \in 1 .. Taken |-> PacketOf(j)]
    BY <1>1, <1>2, <1>7 DEF PacketsInOrder
  <2>7. Taken # 0 => upload' = [j \in 1 .. Taken' |-> PacketOf(j)']
    <3>1. [j \in 1 .. Taken' |-> PacketOf(j)'] = [j \in 1 .. Taken |-> PacketOf(j)]
      BY <1>3, <2>4
    <3> QED  BY <1>1, <2>6, <3>1
  <2>8. \A i \in 1 .. Len(toServer') : toServer'[i] = PacketOf(Taken + i)'
    <3>1. \A i : PacketOf(Taken + i)' = PacketOf(Taken' + i)
      BY <1>1 DEF PacketOf, FileName
    <3> QED  BY <2>2, <2>4, <2>5, <3>1
  <2>9. PacketsInOrder'
    BY <2>4, <2>7, <2>8 DEF PacketsInOrder
  <2> QED  BY <1>4, <2>3, <2>9
<1> QED  BY <1>6, <1>7

LEMMA CleanSend ==
    ASSUME TypeOK, SendInv, InStep, Clean, NoRetry, PacketsInOrder, Send
    PROVE  NoRetry' /\ PacketsInOrder' /\ VerdictMatches'
<1>1. CASE SendFails
  <2>1. UNCHANGED <<crcFailures, toServer>> /\ pc' = "failed_link"
    BY <1>1 DEF SendFails, locals
  <2> QED  BY <2>1, OutsideUpload DEF NoRetry
<1>2. CASE SendPacket
  BY <1>2, CleanSendPacket
<1>3. CASE SendSuccess
  <2>1. /\ UNCHANGED crcFailures /\ pc' = "ack_success"
        /\ Transmit(Status("CRC_SUCCESS")) /\ toServer \in Seq(Request)
    BY <1>3 DEF SendSuccess, locals, TypeOK
  <2>2. \A i \in 1 .. Len(toServer') : toServer'[i].code # "CRC_ERROR"
    <3>1. Status("CRC_SUCCESS").code # "CRC_ERROR"
      BY DEF Status
    <3>2. CASE toServer' = toServer
      BY <3>2 DEF NoRetry
    <3>3. CASE toServer' = Append(toServer, Status("CRC_SUCCESS"))
      <4> DEFINE m == Status("CRC_SUCCESS")
      <4> HIDE DEF m
      <4>1. /\ Len(toServer') = Len(toServer) + 1 /\ toServer'[Len(toServer) + 1] = m
            /\ \A i \in 1 .. Len(toServer) : toServer'[i] = toServer[i]
            /\ Len(toServer) \in Nat
        BY <2>1, <3>3 DEF m
      <4>2. SUFFICES ASSUME NEW i \in 1 .. Len(toServer) + 1 PROVE toServer'[i].code # "CRC_ERROR"
        BY <4>1
      <4>3. CASE i = Len(toServer) + 1
        BY <3>1, <4>1, <4>3 DEF m
      <4>4. CASE i \in 1 .. Len(toServer)
        BY <4>1, <4>4 DEF NoRetry
      <4> QED  BY <4>1, <4>3, <4>4
    <3> QED  BY <2>1, <3>2, <3>3 DEF Transmit
  <2> QED  BY <2>1, <2>2, OutsideUpload DEF NoRetry
<1>4. CASE SendFailure \/ SendError
  BY <1>4 DEF NoRetry, SendFailure, SendError
<1> QED  BY <1>1, <1>2, <1>3, <1>4 DEF Send

\* The comparison finds no mismatch.
LEMMA CleanVerify ==
    ASSUME NoRetry, VerdictMatches, Verify \/ Ack
    PROVE  NoRetry' /\ PacketsInOrder' /\ VerdictMatches'
<1>1. ~VerifyMismatches
  BY DEF VerifyMismatches, VerdictMatches, Receive, GoodVerdict
<1>2. /\ UNCHANGED <<crcFailures, toServer>>
      /\ pc' \notin {"send", "verify", "send_failure", "send_error", "ack_failure"}
  BY <1>1 DEF NoRetry, Verify, ReceiveFails, VerifyRejected, VerifyThrows, VerifyMatches,
              Ack, ReadAck, AckThrows, Settle, Tell, locals
<1> QED  BY <1>2, OutsideUpload DEF NoRetry

-----------------------------------------------------------------------------
(* No retry without damage: the server *)

\* The server takes the packet that follows those it has.
LEMMA PacketTaken ==
    ASSUME TypeOK, SendInv, InStep, Clean, PacketsInOrder, VerdictMatches,
           Take({"CREATE_BACKUP"}), upload' = Assembled(Head(toServer)), UNCHANGED client
    PROVE  /\ pc \in {"send", "verify"} /\ toClient = <<>> /\ link = "up"
           /\ Taken \in Nat /\ Taken' = Taken + 1 /\ Taken + 1 \in 1 .. Total
           /\ Head(toServer) = PacketOf(Taken + 1)
           /\ upload' = [j \in 1 .. Taken + 1 |-> PacketOf(j)]
           /\ \A i \in 1 .. Len(toServer') : toServer'[i] = PacketOf(Taken + 1 + i)
<1> DEFINE m == Head(toServer)
           n == Len(toServer)
           k == Taken
<1>1. /\ n \in Nat \ {0} /\ Len(toServer') = n - 1 /\ m = toServer[1] /\ link = "up"
      /\ \A i \in 1 .. Len(toServer') : toServer'[i] = toServer[i + 1]
      /\ m.code = "CREATE_BACKUP" /\ toServer # <<>>
  BY TakeShifts DEF Take
<1>2. pc \in {"send", "verify"} /\ toClient = <<>>
  <2>1. InFlight(1)
    BY <1>1 DEF InStep, Clean
  <2>2. pc \in {"send", "verify"}
    BY <1>1, <2>1 DEF InFlight
  <2>3. toClient = <<>>
    BY <1>1, <2>2, AnswerAlone DEF InStep, Clean, Receiving
  <2> QED  BY <2>2, <2>3
<1>3. /\ k \in Nat /\ \A i \in 1 .. n : toServer[i] = PacketOf(k + i)
      /\ k # 0 => upload = [j \in 1 .. k |-> PacketOf(j)]
  BY <1>1, <1>2 DEF PacketsInOrder
<1>4. /\ Total \in Nat \ {0}
      /\ \A p \in 1 .. Total : PacketOf(p).num = p /\ PacketOf(p).total = Total
  BY <1>2, PacketNumbers DEF Sending, Receiving
<1>5. packet \in Nat /\ packet - 1 =< Total
  BY <1>2, <1>4 DEF SendInv, VerdictMatches, TypeOK
<1>6. k = packet - 1 - n
  BY DEF Taken
<1>7. k + 1 \in 1 .. Total
  BY <1>1, <1>3, <1>4, <1>5, <1>6
<1>8. Taken' = k + 1
  <2>1. Taken' = packet' - 1 - Len(toServer') /\ packet' = packet
    BY DEF Taken, client, locals
  <2> QED  BY <1>1, <1>5, <1>6, <2>1
<1> HIDE DEF k
<1>9. m = PacketOf(k + 1) /\ m.num = k + 1
  BY <1>1, <1>3, <1>4, <1>7
<1>10. upload' = [j \in 1 .. k + 1 |-> PacketOf(j)]
  <2>1. CASE k = 0
    <3>1. upload' = <<m>>
      BY <1>9, <2>1 DEF Assembled
    <3>2. <<m>> = [j \in 1 .. 1 |-> m]
      OBVIOUS
    <3>3. \A j \in 1 .. 1 : PacketOf(j) = m
      BY <1>9, <2>1
    <3>4. [j \in 1 .. 1 |-> m] = [j \in 1 .. 1 |-> PacketOf(j)]
      BY <3>3
    <3> QED  BY <2>1, <3>1, <3>2, <3>4
  <2>2. CASE k # 0
    <3>1. upload' = Append(upload, m)
      BY <1>3, <1>9, <2>2 DEF Assembled
    <3>2. upload \in Seq(PacketRequest) /\ Len(upload) = k
          /\ \A j \in 1 .. k : upload[j] = PacketOf(j)
      BY <1>3, <2>2 DEF TypeOK
    <3>3. m \in PacketRequest
      BY PacketHead
    <3>4. /\ upload' \in Seq(PacketRequest) /\ Len(upload') = k + 1
          /\ upload'[k + 1] = m /\ \A j \in 1 .. k : upload'[j] = PacketOf(j)
      <4>1. upload \in Seq(PacketRequest) /\ Len(upload) = k /\ k \in Nat
        BY <1>3, <3>2
      <4>2. /\ upload' \in Seq(PacketRequest) /\ Len(upload') = k + 1
            /\ upload'[k + 1] = m /\ \A j \in 1 .. k : upload'[j] = upload[j]
        BY <3>1, <3>3, <4>1, AppendProperties
      <4> QED  BY <3>2, <4>2
    <3>5. \A j \in 1 .. k + 1 : upload'[j] = PacketOf(j)
      BY <1>3, <1>9, <3>4
    <3>6. upload' = [j \in 1 .. k + 1 |-> upload'[j]]
      BY <3>4
    <3> QED  BY <3>5, <3>6
  <2> QED  BY <2>1, <2>2
<1>11. \A i \in 1 .. Len(toServer') : toServer'[i] = PacketOf(k + 1 + i)
  <2>1. SUFFICES ASSUME NEW i \in 1 .. Len(toServer') PROVE toServer'[i] = PacketOf(k + 1 + i)
    OBVIOUS
  <2>2. i + 1 \in 1 .. n /\ k + (i + 1) = k + 1 + i /\ toServer'[i] = toServer[i + 1]
    BY <1>1, <1>3
  <2>3. toServer[i + 1] = PacketOf(k + (i + 1))
    BY <1>3, <2>2
  <2> QED  BY <2>2, <2>3
<1> QED  BY <1>1, <1>2, <1>3, <1>7, <1>8, <1>9, <1>10, <1>11 DEF k

\* What leaves the queue takes no CRC_ERROR into it.
LEMMA NoErrorTaken ==
    ASSUME TypeOK, NoRetry, NEW codes, Take(codes), UNCHANGED client
    PROVE  NoRetry' /\ Head(toServer).code # "CRC_ERROR"
<1>1. /\ Len(toServer) \in Nat \ {0} /\ Len(toServer') = Len(toServer) - 1
      /\ Head(toServer) = toServer[1]
      /\ \A i \in 1 .. Len(toServer') : toServer'[i] = toServer[i + 1]
  BY TakeShifts
<1>2. \A i \in 1 .. Len(toServer') : toServer'[i].code # "CRC_ERROR"
  BY <1>1 DEF NoRetry
<1>3. UNCHANGED <<pc, crcFailures>>
  BY DEF client, locals
<1> QED  BY <1>1, <1>2, <1>3 DEF NoRetry

LEMMA CleanPacket ==
    ASSUME TypeOK, SendInv, InStep, Clean, NoRetry, PacketsInOrder, VerdictMatches,
           ServerTakesPacket
    PROVE  NoRetry' /\ PacketsInOrder' /\ VerdictMatches'
<1>1. /\ Take({"CREATE_BACKUP"}) /\ upload' = Assembled(Head(toServer))
      /\ UNCHANGED <<client, link, toClient>>
  BY DEF ServerTakesPacket
<1>2. UNCHANGED <<pc, idx, iv, fileData, packet, encryptedFileSize>>
  BY <1>1 DEF client, locals
<1>3. Total' = Total /\ \A p : PacketOf(p)' = PacketOf(p)
  BY <1>2 DEF Total, PacketOf, FileName
<1>4. VerdictMatches'
  BY <1>1, <1>2, <1>3 DEF VerdictMatches, Answer, Mismatch, LocalChecksum
<1>5. /\ Taken \in Nat /\ Taken' = Taken + 1
      /\ upload' = [j \in 1 .. Taken + 1 |-> PacketOf(j)]
      /\ \A i \in 1 .. Len(toServer') : toServer'[i] = PacketOf(Taken + 1 + i)
  BY <1>1, PacketTaken
<1>6. PacketsInOrder'
  <2>1. \A i : PacketOf(Taken' + i) = PacketOf(Taken + i)'
    BY <1>2 DEF PacketOf, FileName
  <2>2. \A i \in 1 .. Len(toServer') : toServer'[i] = PacketOf(Taken + i)'
    BY <1>5, <2>1
  <2>3. [j \in 1 .. Taken' |-> PacketOf(j)'] = [j \in 1 .. Taken + 1 |-> PacketOf(j)]
    BY <1>3, <1>5
  <2> QED  BY <1>5, <2>2, <2>3 DEF PacketsInOrder
<1> QED  BY <1>1, <1>4, <1>6, NoErrorTaken

\* All packets are there: the checksum the server answers with is that of the bytes
\* the client read, and the size is the one the client compares with.
LEMMA CleanLastPacket ==
    ASSUME TypeOK, SendInv, InStep, Clean, Clean', NoRetry, PacketsInOrder, VerdictMatches,
           ServerTakesLastPacket
    PROVE  NoRetry' /\ PacketsInOrder' /\ VerdictMatches'
<1> DEFINE m == Head(toServer)
           copy(sum) == [name |-> m.name, sum |-> sum]
           sound == IF Intact(Assembled(m)) THEN Crc[m.data] ELSE BadSum
<1>1. /\ Take({"CREATE_BACKUP"}) /\ upload' = Assembled(m) /\ m.num = m.total
      /\ UNCHANGED <<client, link>>
  BY DEF ServerTakesLastPacket
<1>2. UNCHANGED <<pc, idx, iv, fileData, packet, encryptedFileSize>>
  BY <1>1 DEF client, locals
<1>3. /\ pc \in {"send", "verify"} /\ toClient = <<>>
      /\ Taken + 1 \in 1 .. Total /\ m = PacketOf(Taken + 1)
      /\ upload' = [j \in 1 .. Taken + 1 |-> PacketOf(j)]
  BY <1>1, PacketTaken
<1>4. /\ Total \in Nat \ {0}
      /\ \A p \in 1 .. Total : PacketOf(p).num = p /\ PacketOf(p).total = Total
  BY <1>3, PacketNumbers DEF Sending, Receiving
<1>5. Taken + 1 = Total
  BY <1>1, <1>3, <1>4
<1>6. m.data = fileData /\ m.len = ChunkLength(SizeOf[fileData], Total)
  BY <1>3, <1>5, PacketFields
<1>7. sound = Crc[fileData]
  <2>1. Intact(Assembled(m))
    BY <1>1, <1>3, <1>5, AllPacketsIntact DEF Sending, Receiving
  <2> QED  BY <1>6, <2>1
<1>8. ReportedSize(m) = m.len
  BY DEF Clean, ReportedSize
<1> HIDE DEF m
<1>9. /\ toClient' # <<>>
      /\ Answer'.code = "UPLOAD_RECEIVED" =>
             Answer'.sum = Crc[fileData] /\ Answer'.size = ChunkLength(SizeOf[fileData], Total)
  <2>1. faults' = 0 /\ damages' = 0 /\ damages = 0
    BY DEF Clean
  <2>2. \E r : /\ Answers(r)
               /\ r.code = "UPLOAD_RECEIVED" =>
                      r.sum = Crc[fileData] /\ r.size = ChunkLength(SizeOf[fileData], Total)
    <3>1. \/ Answers(Plain("UPLOAD_REJECTED_TOO_LARGE", m.iv))
          \/ Answers(Verdict(copy(sound), m.iv, ReportedSize(m)))
      BY <2>1 DEF ServerTakesLastPacket, m
    <3>2. Plain("UPLOAD_REJECTED_TOO_LARGE", m.iv).code # "UPLOAD_RECEIVED"
      BY DEF Plain
    <3>3. /\ Verdict(copy(sound), m.iv, ReportedSize(m)).sum = Crc[fileData]
          /\ Verdict(copy(sound), m.iv, ReportedSize(m)).size
               = ChunkLength(SizeOf[fileData], Total)
      BY <1>6, <1>7, <1>8 DEF Verdict
    <3> QED  BY <3>1, <3>2, <3>3
  <2>3. PICK r : /\ Answers(r)
                 /\ r.code = "UPLOAD_RECEIVED" =>
                        r.sum = Crc[fileData] /\ r.size = ChunkLength(SizeOf[fileData], Total)
    BY <2>2
  <2>4. toClient' = <<r>>
    BY <1>3, <2>1, <2>3, AnswersRight
  <2> QED  BY <2>3, <2>4 DEF Answer
<1>10. VerdictMatches'
  <2>1. pc' = "verify" => /\ packet' = Total' + 1
                          /\ encryptedFileSize' = ChunkLength(SizeOf[fileData'], Total')
                          /\ encryptedFileSize = ChunkLength(SizeOf[fileData], Total)
    BY <1>2 DEF VerdictMatches, Total
  <2> QED  BY <1>2, <1>9, <2>1 DEF VerdictMatches, Mismatch, LocalChecksum
<1>11. PacketsInOrder'
  BY <1>9 DEF PacketsInOrder
<1> QED  BY <1>1, <1>10, <1>11, NoErrorTaken

LEMMA CleanServer ==
    ASSUME TypeOK, SendInv, InStep, Clean, Clean', NoRetry, PacketsInOrder, VerdictMatches, Server
    PROVE  NoRetry' /\ PacketsInOrder' /\ VerdictMatches'
<1>1. CASE ServerTakesPacket
  BY <1>1, CleanPacket
<1>2. CASE ServerTakesLastPacket
  BY <1>2, CleanLastPacket
<1>3. ASSUME NEW codes, Take(codes), codes \in {{"CRC_SUCCESS"}, {"CRC_FAILURE"}}, UNCHANGED client
      PROVE  NoRetry' /\ PacketsInOrder' /\ VerdictMatches'
  <2>1. /\ Len(toServer) \in Nat \ {0} /\ Head(toServer) = toServer[1]
        /\ Head(toServer).code \in {"CRC_SUCCESS", "CRC_FAILURE"}
    BY <1>3, TakeShifts DEF Take
  <2>2. InFlight(1)
    BY <2>1 DEF InStep, Clean
  <2>3. pc \in {"ack_success", "ack_failure"} /\ pc' = pc
    BY <1>3, <2>1, <2>2 DEF InFlight, client
  <2> QED  BY <1>3, <2>3, NoErrorTaken DEF PacketsInOrder, VerdictMatches
<1>4. CASE ServerTakesSuccess
  BY <1>3, <1>4 DEF ServerTakesSuccess
<1>5. CASE ServerTakesFailure
  BY <1>3, <1>5 DEF ServerTakesFailure
<1>6. CASE ServerTakesError
  <2>1. Take({"CRC_ERROR"}) /\ UNCHANGED client
    BY <1>6 DEF ServerTakesError
  <2>2. Head(toServer).code = "CRC_ERROR"
    BY <2>1 DEF Take
  <2> QED  BY <2>1, <2>2, NoErrorTaken
<1> QED  BY <1>1, <1>2, <1>4, <1>5, <1>6 DEF Server

LEMMA CleanRest ==
    ASSUME NoRetry, PacketsInOrder, VerdictMatches, Surroundings \/ UNCHANGED vars
    PROVE  NoRetry' /\ PacketsInOrder' /\ VerdictMatches'
<1>1. CASE LinkBreaks
  <2>1. /\ UNCHANGED <<pc, idx, crcFailures, fileData, encryptedFileSize, packet>>
        /\ link' = "down" /\ toServer' = <<>> /\ toClient' = <<>>
    BY <1>1 DEF LinkBreaks, locals
  <2>2. Len(toServer') = 0
    BY <2>1, EmptySeq
  <2> QED  BY <2>1, <2>2 DEF NoRetry, PacketsInOrder, VerdictMatches, Total
<1>2. CASE EditFile \/ UNCHANGED vars
  <2>1. UNCHANGED <<pc, idx, crcFailures, fileData, encryptedFileSize, packet, iv, link, toServer,
                    toClient, upload>>
    BY <1>2 DEF EditFile, vars, locals, server
  <2> QED  BY <2>1 DEF NoRetry, PacketsInOrder, VerdictMatches, Total, Taken, PacketOf, FileName,
                       Answer, Mismatch, LocalChecksum
<1> QED  BY <1>1, <1>2 DEF Surroundings

LEMMA CleanStep == TypeOK /\ SendInv /\ InStep /\ CleanInv /\ [Next]_vars => CleanInv'
<1> SUFFICES ASSUME TypeOK, SendInv, InStep, CleanInv, [Next]_vars, Clean'
             PROVE  NoRetry' /\ PacketsInOrder' /\ VerdictMatches'
  BY DEF CleanInv
<1>1. Clean /\ NoRetry /\ PacketsInOrder /\ VerdictMatches
  BY CleanBefore DEF CleanInv
<1>2. CASE Client
  BY <1>1, <1>2, CleanLoop, CleanEncrypt, CleanSend, CleanVerify DEF Client
<1>3. CASE Server
  BY <1>1, <1>3, CleanServer
<1>4. CASE Surroundings \/ Over \/ UNCHANGED vars
  BY <1>1, <1>4, CleanRest DEF Over
<1> QED  BY <1>2, <1>3, <1>4 DEF Next

\* As long as no upload is damaged and no response wrong, no upload is repeated:
\* for files of every size that is let through, in any number, while the user edits
\* them and wherever the connection breaks. The ciphertext is cut into packets whose
\* numbers fit their fields, the server puts them together again, and the checksum
\* and the size it answers with are compared with those of the same attempt.
THEOREM NoRetryWithoutDamage == Spec => []NoSpuriousRetry
<1>1. Init => CleanInv
  BY EmptySeq DEF Init, CleanInv, NoRetry, PacketsInOrder, VerdictMatches
<1>2. InStep /\ CleanInv => NoSpuriousRetry
  BY DEF InStep, CleanInv, Clean, NoRetry, NoSpuriousRetry
<1> QED  BY <1>1, <1>2, CleanStep, InStepAlways, PTL DEF Spec

-----------------------------------------------------------------------------
(* No read waits for ever *)

\* The request sent last is one that the server answers.
LEMMA RequestSent ==
    ASSUME TypeOK, NEW m, Transmit(m), link = "up" => Answered(m), UNCHANGED link
    PROVE  ReadAnswered'
<1>1. CASE link # "up"
  BY <1>1 DEF ReadAnswered
<1>2. CASE link = "up"
  <2>1. toServer' = Append(toServer, m) /\ toServer \in Seq(Request) /\ Len(toServer) \in Nat
    BY <1>2 DEF Transmit, TypeOK
  <2>2. Len(toServer') = Len(toServer) + 1 /\ toServer'[Len(toServer) + 1] = m
    BY <2>1
  <2>3. PICK i \in 1 .. Len(toServer') : toServer'[i] = m
    BY <2>1, <2>2
  <2>4. Answered(toServer'[i])
    BY <1>2, <2>3
  <2> QED  BY <2>3, <2>4 DEF ReadAnswered
<1> QED  BY <1>1, <1>2

\* A request that is not answered is taken from in front of one that is.
LEMMA RequestLeft ==
    ASSUME TypeOK, ReadAnswered, NEW codes, Take(codes), ~Answered(Head(toServer)),
           UNCHANGED <<pc, link, toClient>>
    PROVE  ReadAnswered'
<1> SUFFICES ASSUME pc \in Receiving, link = "up", toClient = <<>>
             PROVE  \E i \in 1 .. Len(toServer') : Answered(toServer'[i])
  BY DEF ReadAnswered
<1>1. PICK i \in 1 .. Len(toServer) : Answered(toServer[i])
  BY DEF ReadAnswered
<1>2. /\ Len(toServer) \in Nat \ {0} /\ Len(toServer') = Len(toServer) - 1
      /\ Head(toServer) = toServer[1]
      /\ \A j \in 1 .. Len(toServer') : toServer'[j] = toServer[j + 1]
  BY TakeShifts
<1>3. i # 1
  BY <1>1, <1>2
<1>4. PICK j \in 1 .. Len(toServer') : j + 1 = i
  <2>1. i - 1 \in 1 .. Len(toServer') /\ (i - 1) + 1 = i
    BY <1>1, <1>2, <1>3
  <2> QED  BY <2>1
<1>5. Answered(toServer'[j])
  BY <1>1, <1>2, <1>4
<1> QED  BY <1>4, <1>5

\* Whatever the answer, there is one.
LEMMA AnswerGiven ==
    ASSUME TypeOK, NEW r, Answers(r)
    PROVE  toClient' # <<>>
<1>1. PICK s \in Seq(Reply) : s = toClient
  BY DEF TypeOK
<1>2. ASSUME NEW a PROVE Append(s, a) # <<>>
  <2>1. Len(Append(s, a)) = Len(s) + 1 /\ Len(s) \in Nat
    BY <1>1
  <2>2. Append(s, a) = <<>> => Len(Append(s, a)) = 0
    OBVIOUS
  <2> QED  BY <2>1, <2>2
<1>3. ASSUME NEW a, NEW b PROVE Append(Append(s, a), b) # <<>>
  <2>1. PICK S : S = Reply \cup {a, b}
    OBVIOUS
  <2>2. Append(s, a) \in Seq(S)
    BY <1>1, <2>1
  <2>3. Len(Append(Append(s, a), b)) = Len(Append(s, a)) + 1 /\ Len(Append(s, a)) \in Nat
    BY <2>2
  <2>4. Append(Append(s, a), b) = <<>> => Len(Append(Append(s, a), b)) = 0
    OBVIOUS
  <2> QED  BY <2>3, <2>4
<1> QED  BY <1>1, <1>2, <1>3 DEF Answers

LEMMA ReadAnsweredStep == TypeOK /\ SendInv /\ ReadAnswered /\ [Next]_vars => ReadAnswered'
<1> SUFFICES ASSUME TypeOK, SendInv, ReadAnswered, [Next]_vars PROVE ReadAnswered'
  OBVIOUS
<1> USE DEF Receiving
<1>1. ASSUME pc' \notin Receiving PROVE ReadAnswered'
  BY <1>1 DEF ReadAnswered
<1>2. ASSUME UNCHANGED <<pc, link, toServer, toClient>> PROVE ReadAnswered'
  BY <1>2 DEF ReadAnswered
<1>3. CASE Loop
  BY <1>1, <1>3 DEF Loop, SkipFile, StartFile, Return, Tell
<1>4. CASE Encrypt
  BY <1>1, <1>4 DEF Encrypt, OpenFails, ReadFails, FileTooLarge, EncryptFile, Settle, Tell
<1>5. CASE Send
  <2>1. CASE SendFails \/ SendError
    BY <1>1, <2>1 DEF SendFails, SendError
  <2>2. CASE SendPacket
    <3>1. CASE packet # Total
      BY <1>1, <2>2, <3>1 DEF SendPacket
    <3>2. CASE packet = Total
      <4>1. PacketOf(packet).num = PacketOf(packet).total
        BY <2>2, <3>2, LastPacketNumbered DEF SendPacket
      <4>2. Answered(PacketOf(packet))
        BY <4>1 DEF Answered, IsLast, PacketOf
      <4> QED  BY <2>2, <4>2, RequestSent DEF SendPacket
    <3> QED  BY <3>1, <3>2
  <2>3. CASE SendSuccess
    <3>1. Answered(Status("CRC_SUCCESS"))
      BY DEF Answered, Status
    <3> QED  BY <2>3, <3>1, RequestSent DEF SendSuccess
  <2>4. CASE SendFailure
    <3>1. Answered(Status("CRC_FAILURE"))
      BY DEF Answered, Status
    <3> QED  BY <2>4, <3>1, RequestSent DEF SendFailure
  <2> QED  BY <1>5, <2>1, <2>2, <2>3, <2>4 DEF Send
<1>6. CASE Verify
  BY <1>1, <1>6 DEF Verify, ReceiveFails, VerifyRejected, VerifyThrows, VerifyMatches,
                    VerifyMismatches, Settle, Tell
<1>7. CASE Ack
  BY <1>1, <1>7 DEF Ack, ReadAck, AckThrows, Settle, Tell
<1>8. CASE Server
  <2>1. ASSUME NEW r, Answers(r) PROVE ReadAnswered'
    BY <2>1, AnswerGiven DEF ReadAnswered
  <2>2. CASE ServerTakesPacket
    <3>1. ~Answered(Head(toServer))
      BY <2>2 DEF ServerTakesPacket, Take, Answered, IsLast
    <3> QED  BY <2>2, <3>1, RequestLeft DEF ServerTakesPacket, client
  <2>3. CASE ServerTakesLastPacket
    BY <2>1, <2>3 DEF ServerTakesLastPacket
  <2>4. CASE ServerTakesSuccess
    BY <2>1, <2>4 DEF ServerTakesSuccess
  <2>5. CASE ServerTakesFailure
    BY <2>1, <2>5 DEF ServerTakesFailure
  <2>6. CASE ServerTakesError
    <3>1. ~Answered(Head(toServer))
      BY <2>6 DEF ServerTakesError, Take, Answered, IsLast
    <3> QED  BY <2>6, <3>1, RequestLeft DEF ServerTakesError, client
  <2> QED  BY <1>8, <2>2, <2>3, <2>4, <2>5, <2>6 DEF Server
<1>9. CASE Surroundings
  <2>1. CASE EditFile
    BY <1>2, <2>1 DEF EditFile
  <2>2. CASE LinkBreaks
    BY <2>2 DEF LinkBreaks, ReadAnswered
  <2> QED  BY <1>9, <2>1, <2>2 DEF Surroundings
<1>10. CASE UNCHANGED vars
  BY <1>2, <1>10 DEF vars
<1> QED  BY <1>3, <1>4, <1>5, <1>6, <1>7, <1>8, <1>9, <1>10 DEF Next, Client, Over

\* Nothing is read that will not come: for any number of wrong, misdirected or
\* repeated responses and of damaged uploads, a read on a connection that is up finds
\* a response, or the server has a request to answer. backup_file reads nothing after
\* CRC_ERROR, and a response after everything else that it sends.
THEOREM NoReadUnanswered == Spec => []ReadAnswered
<1>1. Init => SendInv /\ ReadAnswered
  BY DEF Init, SendInv, ReadAnswered, Sending, Receiving
<1> QED  BY <1>1, SendInvStep, ReadAnsweredStep, TypeCorrect, PTL DEF Spec

-----------------------------------------------------------------------------
(* Every step of the client leaves less to do *)

\* A tuple of four comes before another when its first, second, third or last
\* component is smaller and those before it are the same.
LEMMA Comparing ==
    ASSUME NEW a1 \in Nat, NEW a2 \in Nat, NEW a3 \in Nat, NEW a4 \in Nat,
           NEW b1 \in Nat, NEW b2 \in Nat, NEW b3 \in Nat, NEW b4 \in Nat,
           \/ a1 < b1
           \/ a1 = b1 /\ a2 < b2
           \/ a1 = b1 /\ a2 = b2 /\ a3 < b3
           \/ a1 = b1 /\ a2 = b2 /\ a3 = b3 /\ a4 < b4
    PROVE  Less(<<a1, a2, a3, a4>>, <<b1, b2, b3, b4>>)
<1>1. CASE a1 < b1
  <2>1. \A j \in 1 .. (1 - 1) : FALSE
    OBVIOUS
  <2> QED  BY <1>1, <2>1 DEF Less
<1>2. CASE a1 = b1 /\ a2 < b2
  <2>1. \A j \in 1 .. (2 - 1) : j = 1
    OBVIOUS
  <2> QED  BY <1>2, <2>1 DEF Less
<1>3. CASE a1 = b1 /\ a2 = b2 /\ a3 < b3
  <2>1. \A j \in 1 .. (3 - 1) : j = 1 \/ j = 2
    OBVIOUS
  <2> QED  BY <1>3, <2>1 DEF Less
<1>4. CASE a1 = b1 /\ a2 = b2 /\ a3 = b3 /\ a4 < b4
  <2>1. \A j \in 1 .. (4 - 1) : j = 1 \/ j = 2 \/ j = 3
    OBVIOUS
  <2> QED  BY <1>4, <2>1 DEF Less
<1> QED  BY <1>1, <1>2, <1>3, <1>4

\* What is kept of the count of mismatches after a file is settled.
FailuresBounded == crcFailures =< CrcTrialsCount

LEMMA FailuresStep ==
    TypeOK /\ RetryInv /\ FailuresBounded /\ [Next]_vars => FailuresBounded'
<1> SUFFICES ASSUME TypeOK, RetryInv, FailuresBounded, [Next]_vars
             PROVE  FailuresBounded'
  OBVIOUS
<1>1. crcFailures \in Nat /\ CrcTrialsCount \in Nat \ {0}
  BY UploadAssumption DEF TypeOK
<1>2. CASE UNCHANGED crcFailures
  BY <1>2 DEF FailuresBounded
<1>3. CASE StartFile
  BY <1>1, <1>3 DEF StartFile, FirstFailureCount, FailuresBounded
<1>4. CASE VerifyMismatches
  BY <1>1, <1>4 DEF VerifyMismatches, RetryInv, FailuresBounded
<1>5. CASE Client /\ ~StartFile /\ ~VerifyMismatches
  BY <1>2, <1>5 DEF Client, Loop, Encrypt, Send, Verify, Ack, SkipFile, Return, OpenFails,
     ReadFails, FileTooLarge, EncryptFile, SendFails, SendPacket, SendSuccess, SendFailure,
     SendError, ReceiveFails, VerifyRejected, VerifyThrows, VerifyMatches, ReadAck, AckThrows,
     locals
<1>6. CASE Server \/ Surroundings \/ UNCHANGED vars
  BY <1>2, <1>6 DEF Server, ServerTakesPacket, ServerTakesLastPacket, ServerTakesSuccess,
     ServerTakesFailure, ServerTakesError, Surroundings, EditFile, LinkBreaks, vars, client,
     locals
<1> QED  BY <1>3, <1>4, <1>5, <1>6 DEF Next, Over

FilesLeft == Len(SelectedFiles) + 1 - idx

LEMMA WorkTyped ==
    ASSUME TypeOK, SendInv, FailuresBounded
    PROVE  /\ FilesLeft \in Nat /\ UploadsLeft \in Nat /\ StepsLeft \in Nat
           /\ PacketsLeft \in Nat
           /\ Work = <<FilesLeft, UploadsLeft, StepsLeft, PacketsLeft>>
<1>1. FilesLeft \in Nat
  BY UploadAssumption DEF TypeOK, FilesLeft
<1>2. UploadsLeft \in Nat
  BY UploadAssumption DEF TypeOK, FailuresBounded, UploadsLeft
<1>3. StepsLeft \in Nat
  BY DEF StepsLeft
<1>4. PacketsLeft \in Nat
  <2>1. CASE pc = "send"
    <3>1. Total \in Nat /\ packet \in 1 .. Total
      BY <2>1, LastPacketNumbered DEF SendInv
    <3> QED  BY <2>1, <3>1 DEF PacketsLeft
  <2> QED  BY <2>1 DEF PacketsLeft
<1> QED  BY <1>1, <1>2, <1>3, <1>4 DEF Work, FilesLeft

\* How a step of the client leaves less: a file, an upload, a step or a packet less.
OneLess ==
    \/ FilesLeft' < FilesLeft
    \/ FilesLeft' = FilesLeft /\ UploadsLeft' < UploadsLeft
    \/ FilesLeft' = FilesLeft /\ UploadsLeft' = UploadsLeft /\ StepsLeft' < StepsLeft
    \/ /\ FilesLeft' = FilesLeft /\ UploadsLeft' = UploadsLeft /\ StepsLeft' = StepsLeft
       /\ PacketsLeft' < PacketsLeft

LEMMA WorkStep ==
    ASSUME TypeOK, SendInv, RetryInv, FailuresBounded, Client
    PROVE  OneLess
<1> USE DEF Receiving, Sending, Ended, Threw
<1>1. /\ idx \in Nat /\ crcFailures \in Nat /\ CrcTrialsCount \in Nat \ {0}
      /\ Len(SelectedFiles) \in Nat
  BY UploadAssumption DEF TypeOK
<1>2. ASSUME NEW r, NEW d, NEW n, Tell(r, d, n) PROVE OneLess
  BY <1>1, <1>2 DEF Tell, OneLess, FilesLeft
<1>3. ASSUME UNCHANGED <<idx, crcFailures>>, pc # "next_file", pc' # "next_file",
             StepsLeft' < StepsLeft
      PROVE  OneLess
  BY <1>3 DEF OneLess, FilesLeft, UploadsLeft
<1>4. ASSUME UNCHANGED <<idx, crcFailures>>, pc # "next_file", pc' \in Ended,
             pc \notin Ended
      PROVE  OneLess
  <2>1. StepsLeft' < StepsLeft
    BY <1>4 DEF StepsLeft, TypeOK, Labels
  <2> QED  BY <1>3, <1>4, <2>1
<1>5. CASE Loop
  <2>1. CASE SkipFile
    BY <1>2, <2>1 DEF SkipFile
  <2>2. CASE StartFile
    BY <1>1, <2>2 DEF StartFile, FirstFailureCount, OneLess, FilesLeft, UploadsLeft
  <2>3. CASE Return
    BY <1>1, <2>3 DEF Return, locals, OneLess, FilesLeft, UploadsLeft
  <2> QED  BY <1>5, <2>1, <2>2, <2>3 DEF Loop
<1>6. CASE Encrypt
  <2>1. CASE OpenFails \/ ReadFails
    BY <1>4, <2>1 DEF OpenFails, ReadFails, locals
  <2>2. CASE FileTooLarge
    BY <1>2, <2>2 DEF FileTooLarge, Settle
  <2>3. CASE EncryptFile
    <3>1. StepsLeft' < StepsLeft
      BY <2>3 DEF EncryptFile, StepsLeft
    <3> QED  BY <1>3, <2>3, <3>1 DEF EncryptFile
  <2> QED  BY <1>6, <2>1, <2>2, <2>3 DEF Encrypt
<1>7. CASE Send
  <2>1. CASE SendFails
    BY <1>4, <2>1 DEF SendFails, locals
  <2>2. CASE SendPacket
    <3>1. packet \in Nat /\ Total \in Nat
      BY <2>2, LastPacketNumbered DEF SendPacket
    <3>2. CASE packet = Total
      <4>1. StepsLeft' < StepsLeft
        BY <2>2, <3>2 DEF SendPacket, StepsLeft
      <4> QED  BY <1>3, <2>2, <3>2, <4>1 DEF SendPacket
    <3>3. CASE packet # Total
      <4>1. pc = "send" /\ pc' = "send" /\ packet' = packet + 1
            /\ UNCHANGED <<idx, crcFailures, fileData>>
        BY <2>2, <3>3 DEF SendPacket
      <4>2. PacketsLeft' < PacketsLeft
        BY <3>1, <4>1 DEF PacketsLeft, Total
      <4> QED  BY <4>1, <4>2 DEF OneLess, FilesLeft, UploadsLeft, StepsLeft
    <3> QED  BY <3>2, <3>3
  <2>3. CASE SendSuccess \/ SendFailure \/ SendError
    <3>1. StepsLeft' < StepsLeft
      BY <2>3 DEF SendSuccess, SendFailure, SendError, StepsLeft
    <3> QED  BY <1>3, <2>3, <3>1 DEF SendSuccess, SendFailure, SendError, locals
  <2> QED  BY <1>7, <2>1, <2>2, <2>3 DEF Send
<1>8. CASE Verify
  <2>1. CASE ReceiveFails \/ VerifyThrows
    BY <1>4, <2>1 DEF ReceiveFails, VerifyThrows, locals
  <2>2. CASE VerifyRejected
    BY <1>2, <2>2 DEF VerifyRejected, Settle
  <2>3. CASE VerifyMatches
    <3>1. StepsLeft' < StepsLeft
      BY <2>3 DEF VerifyMatches, StepsLeft
    <3> QED  BY <1>3, <2>3, <3>1 DEF VerifyMatches
  <2>4. CASE VerifyMismatches
    BY <1>1, <2>4 DEF VerifyMismatches, OneLess, FilesLeft, UploadsLeft
  <2> QED  BY <1>8, <2>1, <2>2, <2>3, <2>4 DEF Verify
<1>9. CASE Ack
  <2>1. CASE ReadAck
    BY <1>2, <2>1 DEF ReadAck, Settle
  <2>2. CASE AckThrows
    BY <1>4, <2>2 DEF AckThrows, locals
  <2> QED  BY <1>9, <2>1, <2>2 DEF Ack
<1> QED  BY <1>5, <1>6, <1>7, <1>8, <1>9 DEF Client

\* backup_files cannot go round in circles: for any selection of files, whatever the
\* server answers and the user edits, every step of the client leaves fewer files, or
\* fewer uploads of this file, or fewer steps of this upload, or fewer packets, and
\* nobody else's step changes what is left.
THEOREM BackupAdvances == Spec => UploadAdvances
<1> DEFINE Inv == TypeOK /\ SendInv /\ RetryInv /\ FailuresBounded
           Advances == IF Client THEN Less(Work', Work) ELSE Work' = Work
           WorkIsNat == \A i \in 1 .. 4 : Work[i] \in Nat
           Typed ==
               /\ FilesLeft \in Nat /\ UploadsLeft \in Nat /\ StepsLeft \in Nat
               /\ PacketsLeft \in Nat
               /\ Work = <<FilesLeft, UploadsLeft, StepsLeft, PacketsLeft>>
<1>1. Init => SendInv /\ RetryInv /\ FailuresBounded
  BY UploadAssumption DEF Init, SendInv, Sending, Receiving, RetryInv, RetryBudget, Ended,
     Threw, FailuresBounded
<1>2. Inv /\ [Next]_vars => Inv'
  BY TypeStep, SendInvStep, RetryStep, FailuresStep
<1>3. Inv => Typed
  BY WorkTyped
<1>4. Inv' => Typed'
  BY <1>3, PTL
<1>5. Inv => WorkIsNat
  <2>1. SUFFICES ASSUME Inv, NEW i \in 1 .. 4 PROVE Work[i] \in Nat
    OBVIOUS
  <2>2. i = 1 \/ i = 2 \/ i = 3 \/ i = 4
    OBVIOUS
  <2> QED  BY <1>3, <2>1, <2>2
<1>6. Inv /\ Inv' /\ [Next]_vars => Advances
  <2> SUFFICES ASSUME Inv, Inv', [Next]_vars PROVE Advances
    OBVIOUS
  <2>1. CASE Client
    <3>1. OneLess
      BY <2>1, WorkStep
    <3>2. Typed /\ Typed'
      BY <1>3, <1>4
    <3>3. Less(<<FilesLeft', UploadsLeft', StepsLeft', PacketsLeft'>>,
               <<FilesLeft, UploadsLeft, StepsLeft, PacketsLeft>>)
      BY <3>1, <3>2, Comparing DEF OneLess
    <3> QED  BY <2>1, <3>2, <3>3
  <2>2. CASE ~Client
    <3>1. UNCHANGED <<pc, idx, crcFailures, packet, fileData>>
      BY <2>2 DEF Next, Over, Server, ServerTakesPacket, ServerTakesLastPacket,
         ServerTakesSuccess, ServerTakesFailure, ServerTakesError, Surroundings, EditFile,
         LinkBreaks, vars, client, locals
    <3>2. Work' = Work
      BY <3>1 DEF Work, UploadsLeft, StepsLeft, PacketsLeft, Total
    <3> QED  BY <2>2, <3>2
  <2> QED  BY <2>1, <2>2
<1> QED  BY <1>1, <1>2, <1>5, <1>6, TypeInit, PTL DEF Spec, UploadAdvances

-----------------------------------------------------------------------------
(* Where the comments on the code hold *)

\* The last packet is the whole ciphertext when it is the only one.
LEMMA LastIsWhole ==
    ASSUME NEW n \in FileSizes
    PROVE  ChunkLength(n, TotalPackets(n)) = EncryptedSize(n) <=> TotalPackets(n) = 1
<1>1. PICK t \in Nat \ {0} : t = TotalPackets(n)
  BY TotalPacketsCeil
<1>2. PICK c \in Nat \ {0} : c = ChunkSize(n)
  BY SizesTyped
<1>3. PICK e \in Nat : e = EncryptedSize(n)
  BY SizesTyped
<1>4. PICK l \in Nat : l = ChunkLength(n, t)
  <2>1. t \in 1 .. TotalPackets(n) /\ ChunkLength(n, t) \in 1 .. ChunkSize(n)
    BY <1>1, PacketsCoverFile DEF Contiguous
  <2> QED  BY <1>2, <2>1
<1>5. (t - 1) * c + l = e
  BY <1>1, <1>2, <1>3, <1>4, PacketsCoverFile DEF Contiguous, StartOffset
<1>6. (t - 1) * c = 0 <=> t = 1
  <2>1. CASE t # 1
    <3>1. c =< (t - 1) * c
      <4>1. 1 * c =< (t - 1) * c
        BY <2>1, MulMonotone
      <4> QED  BY <4>1
    <3> QED  BY <2>1, <3>1
  <2> QED  BY <2>1
<1>7. PICK o \in Int : o = (t - 1) * c
  OBVIOUS
<1>8. l = e <=> o = 0
  BY <1>5, <1>7
<1> QED  BY <1>1, <1>3, <1>4, <1>6, <1>7, <1>8

\* What encrypted_file_size_ is when the verdict is compared with it.
LastSizeKept ==
    pc = "verify" => encryptedFileSize = ChunkLength(SizeOf[fileData], Total)

LEMMA LastSizeStep == TypeOK /\ LastSizeKept /\ [Next]_vars => LastSizeKept'
<1> SUFFICES ASSUME TypeOK, LastSizeKept, [Next]_vars PROVE LastSizeKept'
  OBVIOUS
<1>1. CASE SendPacket
  BY <1>1 DEF SendPacket, SizeSent, LastSizeKept, Total
<1>2. ASSUME pc' # "verify" PROVE LastSizeKept'
  BY <1>2 DEF LastSizeKept
<1>3. CASE Client /\ ~SendPacket
  BY <1>2, <1>3 DEF Client, Loop, Encrypt, Send, Verify, Ack, SkipFile, StartFile, Return,
     OpenFails, ReadFails, FileTooLarge, EncryptFile, SendFails, SendSuccess, SendFailure,
     SendError, ReceiveFails, VerifyRejected, VerifyThrows, VerifyMatches, VerifyMismatches,
     ReadAck, AckThrows, Settle, Tell
<1>4. CASE Server \/ Surroundings \/ UNCHANGED vars
  <2>1. UNCHANGED <<pc, fileData, encryptedFileSize>>
    BY <1>4 DEF Server, ServerTakesPacket, ServerTakesLastPacket, ServerTakesSuccess,
       ServerTakesFailure, ServerTakesError, Surroundings, EditFile, LinkBreaks, vars, client,
       locals
  <2> QED  BY <2>1 DEF LastSizeKept, Total
<1> QED  BY <1>1, <1>3, <1>4 DEF Next, Over

\* The declaration that encrypted_file_size_ is the total size of the encrypted file is
\* right for the files that are sent in one packet, and for no others.
THEOREM SizeIsTotalOfOnePacket ==
    Spec => [](pc = "verify" => (EncryptedSizeIsTotal <=> Total = 1))
<1>1. Init => SendInv /\ LastSizeKept
  BY DEF Init, SendInv, LastSizeKept, Sending, Receiving
<1>2. SendInv /\ LastSizeKept => (pc = "verify" => (EncryptedSizeIsTotal <=> Total = 1))
  BY LastIsWhole DEF SendInv, LastSizeKept, EncryptedSizeIsTotal, Total, Receiving
<1> QED  BY <1>1, <1>2, SendInvStep, LastSizeStep, TypeCorrect, PTL DEF Spec

\* A file that was found is still there when nobody edits the files.
FoundInv ==
    edits = 0 =>
        /\ pc # "failed_open"
        /\ pc \notin Ended \cup {"next_file"} => disk[FileName] # Missing

LEMMA FoundStep == TypeOK /\ FoundInv /\ [Next]_vars => FoundInv'
<1> SUFFICES ASSUME TypeOK, FoundInv, [Next]_vars PROVE FoundInv'
  OBVIOUS
<1> USE DEF Ended, Threw
<1>1. CASE EditFile
  BY <1>1 DEF EditFile, FoundInv, TypeOK
<1>2. ASSUME UNCHANGED fileEnv, pc' \in {"next_file", "done", "failed_read", "failed_link",
                                         "failed_server"}
      PROVE  FoundInv'
  BY <1>2 DEF FoundInv, fileEnv
<1>3. ASSUME UNCHANGED <<fileEnv, idx>>, pc \notin Ended \cup {"next_file"},
             pc' # "failed_open"
      PROVE  FoundInv'
  BY <1>3 DEF FoundInv, fileEnv, FileName
<1>4. ASSUME UNCHANGED <<fileEnv, idx, pc>> PROVE FoundInv'
  BY <1>4 DEF FoundInv, fileEnv, FileName
<1>5. CASE Loop
  <2>1. CASE SkipFile \/ Return
    BY <1>2, <2>1 DEF SkipFile, Return, Tell
  <2>2. CASE StartFile
    BY <2>2 DEF StartFile, FoundInv, FileName, fileEnv
  <2> QED  BY <1>5, <2>1, <2>2 DEF Loop
<1>6. CASE Encrypt
  <2>1. CASE OpenFails
    BY <2>1 DEF OpenFails, FoundInv, fileEnv
  <2>2. CASE ReadFails \/ FileTooLarge
    BY <1>2, <2>2 DEF ReadFails, FileTooLarge, Settle, Tell
  <2>3. CASE EncryptFile
    BY <1>3, <2>3 DEF EncryptFile
  <2> QED  BY <1>6, <2>1, <2>2, <2>3 DEF Encrypt
<1>7. CASE Send
  <2>1. CASE SendFails
    BY <1>2, <2>1 DEF SendFails
  <2>2. CASE SendPacket
    BY <1>3, <2>2 DEF SendPacket
  <2>3. CASE SendSuccess \/ SendFailure \/ SendError
    BY <1>3, <2>3 DEF SendSuccess, SendFailure, SendError
  <2> QED  BY <1>7, <2>1, <2>2, <2>3 DEF Send
<1>8. CASE Verify
  <2>1. CASE ReceiveFails \/ VerifyRejected \/ VerifyThrows
    BY <1>2, <2>1 DEF ReceiveFails, VerifyRejected, VerifyThrows, Settle, Tell
  <2>2. CASE VerifyMatches \/ VerifyMismatches
    BY <1>3, <2>2 DEF VerifyMatches, VerifyMismatches
  <2> QED  BY <1>8, <2>1, <2>2 DEF Verify
<1>9. CASE Ack
  BY <1>2, <1>9 DEF Ack, ReadAck, AckThrows, Settle, Tell
<1>10. CASE Server \/ LinkBreaks \/ UNCHANGED vars
  BY <1>4, <1>10 DEF Server, ServerTakesPacket, ServerTakesLastPacket, ServerTakesSuccess,
     ServerTakesFailure, ServerTakesError, LinkBreaks, vars, client
<1> QED  BY <1>1, <1>5, <1>6, <1>7, <1>8, <1>9, <1>10 DEF Next, Client, Over, Surroundings

\* A missing file is skipped, as the comment on backup_files says, as long as nobody edits
\* the directory during the backup: only a file that goes between fs::exists and the
\* opening of the stream, or between two uploads, ends the backup.
THEOREM MissingSkippedUnlessEdited == Spec => [](edits = 0 => MissingIsSkipped)
<1>1. Init => FoundInv
  BY DEF Init, FoundInv
<1>2. FoundInv => (edits = 0 => MissingIsSkipped)
  BY DEF FoundInv, MissingIsSkipped
<1> QED  BY <1>1, <1>2, FoundStep, TypeCorrect, PTL DEF Spec
=============================================================================

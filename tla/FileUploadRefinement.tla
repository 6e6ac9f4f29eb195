------------------------ MODULE FileUploadRefinement ------------------------
(***************************************************************************)
(* FileUpload when one response of the server may be wrong or come twice.  *)
(* The client is then in step with the server or reads the answer to its   *)
(* last request but one, and in neither case takes for a success what is   *)
(* none. So FileUpload implements BackupPromise: every step of the         *)
(* detailed specification is a step of the promise or leaves it alone.     *)
(***************************************************************************)
EXTENDS FileUploadProofs

-----------------------------------------------------------------------------
(* The requests under way *)

\* The server takes the first request: the others move up.
LEMMA UnansweredShift ==
    ASSUME TypeOK, NEW codes, Take(codes)
    PROVE  /\ \A i \in Unanswered' : i + 1 \in Unanswered /\ toServer'[i] = toServer[i + 1]
           /\ \A i \in Unanswered : i # 1 =>
                  i - 1 \in Unanswered' /\ toServer'[i - 1] = toServer[i]
           /\ 1 \in Unanswered <=> IsLast(Head(toServer))
           /\ Unanswered \subseteq Nat \ {0} /\ Unanswered' \subseteq Nat \ {0}
<1>1. /\ Len(toServer) \in Nat \ {0} /\ Len(toServer') = Len(toServer) - 1
      /\ Head(toServer) = toServer[1]
      /\ \A i \in 1 .. Len(toServer') : toServer'[i] = toServer[i + 1]
  BY TakeShifts
<1>2. \A i \in 2 .. Len(toServer) : i - 1 \in 1 .. Len(toServer') /\ toServer'[i - 1] = toServer[i]
  <2> TAKE i \in 2 .. Len(toServer)
  <2>1. i - 1 \in 1 .. Len(toServer') /\ (i - 1) + 1 = i
    BY <1>1
  <2> QED  BY <1>1, <2>1
<1> QED  BY <1>1, <1>2 DEF Unanswered, IsLast

\* The client sends a request: it comes last.
LEMMA UnansweredAppend ==
    ASSUME TypeOK, NEW m, toServer' = Append(toServer, m)
    PROVE  /\ Len(toServer) \in Nat /\ Len(toServer') = Len(toServer) + 1
           /\ toServer'[Len(toServer) + 1] = m
           /\ \A i \in 1 .. Len(toServer) : toServer'[i] = toServer[i]
           /\ Unanswered' = Unanswered \cup {i \in {Len(toServer) + 1} : IsLast(m)}
<1>1. toServer \in Seq(Request)
  BY DEF TypeOK
<1>2. /\ Len(toServer) \in Nat /\ Len(toServer') = Len(toServer) + 1
      /\ toServer'[Len(toServer) + 1] = m
      /\ \A i \in 1 .. Len(toServer) : toServer'[i] = toServer[i]
  BY <1>1
<1>3. 1 .. Len(toServer') = 1 .. Len(toServer) \cup {Len(toServer) + 1}
  BY <1>2
<1> QED  BY <1>2, <1>3 DEF Unanswered, IsLast

\* A response is read: the others move up.
LEMMA ReceiveShifts ==
    ASSUME TypeOK, Receive
    PROVE  /\ Len(toClient) \in Nat \ {0} /\ Len(toClient') = Len(toClient) - 1
           /\ Answer = toClient[1]
           /\ \A k \in 1 .. Len(toClient') : toClient'[k] = toClient[k + 1]
           /\ toClient' = <<>> <=> Len(toClient) = 1
           /\ toClient' # <<>> => Answer' = toClient[2]
<1>1. toClient \in Seq(Reply) /\ toClient # <<>> /\ toClient' = Tail(toClient)
  BY DEF TypeOK, Receive
<1>2. /\ Len(toClient) \in Nat \ {0} /\ Len(toClient') = Len(toClient) - 1
      /\ Answer = toClient[1]
      /\ \A k \in 1 .. Len(toClient') : toClient'[k] = toClient[k + 1]
  BY <1>1 DEF Answer
<1>3. toClient' \in Seq(Reply)
  BY <1>1
<1>4. toClient' = <<>> <=> Len(toClient) = 1
  BY <1>2, <1>3, EmptySeq
<1>5. toClient' # <<>> => Answer' = toClient'[1] /\ Len(toClient') \in Nat \ {0}
  BY <1>3 DEF Answer
<1> QED  BY <1>2, <1>4, <1>5
-----------------------------------------------------------------------------
(* The client is one response behind *)

\* A step that leaves the connection alone, outside the reads.
LEMMA BehindQuiet ==
    ASSUME OneBehind, UNCHANGED <<toServer, toClient, faults>>,
           pc \in {"next_file", "encrypt", "send"},
           pc' \in {"next_file", "encrypt", "send"}
    PROVE  OneBehind'
BY DEF OneBehind, Unanswered, Answer

LEMMA BehindLoop == OneBehind /\ Loop /\ pc' \notin Ended => OneBehind'
BY BehindQuiet DEF Loop, SkipFile, StartFile, Return, Tell, server, Ended

LEMMA BehindEncrypt == OneBehind /\ Encrypt /\ pc' \notin Ended => OneBehind'
BY BehindQuiet DEF Encrypt, OpenFails, ReadFails, FileTooLarge, EncryptFile, Settle, Tell, server,
                   Ended, Threw

LEMMA BehindSend ==
    ASSUME TypeOK, SendInv, OneBehind, Send, link = "up"
    PROVE  OneBehind'
<1> DEFINE n == Len(toServer)
<1>1. UNCHANGED <<toClient, faults>>
  BY DEF Send, SendFails, SendPacket, SendSuccess, SendFailure, SendError, server
<1>2. CASE SendPacket
  <2> DEFINE m == PacketOf(packet)
  <2>1. /\ toServer' = Append(toServer, m) /\ m.code = "CREATE_BACKUP"
        /\ pc = "send" /\ pc' \in {"send", "verify"} /\ (pc' = "verify" => packet = Total)
    BY <1>2 DEF SendPacket, Transmit, PacketOf
  <2>2. pc' = "verify" => IsLast(m)
    BY <2>1, LastPacketNumbered DEF IsLast
  <2> HIDE DEF m
  <2>3. /\ n \in Nat /\ Len(toServer') = n + 1 /\ toServer'[n + 1] = m
        /\ \A i \in 1 .. n : toServer'[i] = toServer[i]
        /\ Unanswered' = Unanswered \cup {i \in {n + 1} : IsLast(m)}
        /\ Unanswered \subseteq 1 .. n
    BY <2>1, UnansweredAppend DEF Unanswered
  <2>4. \A i \in 1 .. Len(toServer') : toServer'[i].code \notin {"CRC_SUCCESS", "CRC_FAILURE"}
    BY <2>1, <2>3 DEF OneBehind
  <2>5. toClient' = <<>> => Unanswered' # {}
    BY <1>1, <2>3 DEF OneBehind
  <2>6. pc' = "verify" => n + 1 \in Unanswered'
    BY <2>2, <2>3
  <2>7. pc' = "verify" /\ toClient' = <<>> => \E i, j \in Unanswered' : i # j
    <3>1. SUFFICES ASSUME pc' = "verify", toClient' = <<>> PROVE \E i, j \in Unanswered' : i # j
      OBVIOUS
    <3>2. PICK i \in Unanswered : TRUE
      BY <1>1, <3>1 DEF OneBehind
    <3>3. i \in Unanswered' /\ i # n + 1
      BY <2>3, <3>2
    <3> QED  BY <2>6, <3>1, <3>3
  <2>8. Answer' = Answer
    BY <1>1 DEF Answer
  <2> QED  BY <1>1, <2>1, <2>4, <2>5, <2>6, <2>7, <2>8 DEF OneBehind
<1>3. CASE SendSuccess \/ SendFailure \/ SendError
  <2>1. PICK code \in StatusCodes :
           /\ toServer' = Append(toServer, Status(code))
           /\ pc \in {"send_success", "send_failure", "send_error"}
           /\ code = "CRC_ERROR" => pc' = "encrypt"
           /\ code # "CRC_ERROR" => pc' \in {"ack_success", "ack_failure"}
    BY <1>3 DEF SendSuccess, SendFailure, SendError, Transmit, StatusCodes
  <2>2. ~IsLast(Status(code)) /\ Status(code).code = code
    BY DEF IsLast, Status, StatusCodes
  <2>3. /\ n \in Nat /\ Len(toServer') = n + 1 /\ toServer'[n + 1] = Status(code)
        /\ \A i \in 1 .. n : toServer'[i] = toServer[i]
        /\ Unanswered' = Unanswered
    BY <2>1, <2>2, UnansweredAppend
  <2>4. \A i \in 1 .. Len(toServer') : toServer'[i].code \in {"CRC_SUCCESS", "CRC_FAILURE"} =>
            pc' \in {"ack_success", "ack_failure"} /\ i = Len(toServer')
    <3> TAKE i \in 1 .. Len(toServer')
    <3>1. CASE i = n + 1
      BY <2>1, <2>2, <2>3, <3>1 DEF StatusCodes
    <3>2. CASE i # n + 1
      BY <2>1, <2>3, <3>2 DEF OneBehind
    <3> QED  BY <3>1, <3>2
  <2>5. Answer' = Answer
    BY <1>1 DEF Answer
  <2> QED  BY <1>1, <2>1, <2>3, <2>4, <2>5 DEF OneBehind
<1>4. CASE SendFails
  BY <1>4 DEF SendFails
<1> QED  BY <1>2, <1>3, <1>4 DEF Send

\* At verify another response stays outstanding, and it is no ACK.
LEMMA BehindVerify ==
    ASSUME TypeOK, OneBehind, Verify, link = "up", pc' \notin Ended
    PROVE  OneBehind'
<1>1. /\ pc = "verify" /\ Receive /\ UNCHANGED <<toServer, faults>>
      /\ pc' \in {"next_file", "send_success", "send_error", "send_failure"}
  BY DEF Verify, ReceiveFails, VerifyRejected, VerifyThrows, VerifyMatches, VerifyMismatches,
         Settle, Tell, server, Ended, Threw
<1>2. Unanswered' = Unanswered /\ toClient # <<>>
  BY <1>1 DEF Unanswered, Receive
<1>3. /\ Len(toClient) \in Nat \ {0} /\ Len(toClient') = Len(toClient) - 1
      /\ \A k \in 1 .. Len(toClient') : toClient'[k] = toClient[k + 1]
      /\ toClient' = <<>> <=> Len(toClient) = 1
      /\ toClient' # <<>> => Answer' = toClient[2]
  BY <1>1, ReceiveShifts
<1>4. toClient' = <<>> => Unanswered' # {}
  <2>1. Len(toClient) > 1 \/ Unanswered # {}
    BY <1>1, <1>2 DEF OneBehind
  <2>2. CASE Len(toClient) > 1
    <3>1. Len(toClient) # 1
      BY <1>3, <2>2
    <3> QED  BY <1>3, <3>1
  <2>3. CASE Unanswered # {}
    BY <1>2, <2>3
  <2> QED  BY <2>1, <2>2, <2>3
<1>5. \A k \in 2 .. Len(toClient) : toClient[k].code # "ACK"
  BY <1>1 DEF OneBehind
<1>6. \A k \in 2 .. Len(toClient') : toClient'[k].code # "ACK"
  <2> TAKE k \in 2 .. Len(toClient')
  <2>1. k + 1 \in 2 .. Len(toClient) /\ toClient'[k] = toClient[k + 1]
    BY <1>3
  <2> QED  BY <1>5, <2>1
<1>7. toClient' # <<>> => Answer'.code # "ACK"
  BY <1>3, <1>5
<1>8. \A i \in 1 .. Len(toServer') : toServer'[i].code \notin {"CRC_SUCCESS", "CRC_FAILURE"}
  BY <1>1 DEF OneBehind
<1> QED  BY <1>1, <1>4, <1>6, <1>7, <1>8 DEF OneBehind

\* No ACK is read where one is awaited.
LEMMA BehindAck == OneBehind /\ Ack => AckThrows
BY DEF OneBehind, Ack, ReadAck, Receive, GoodAck

\* The second fault has not come: this response is right.
LEMMA AnswersOnce ==
    ASSUME TypeOK, NEW r, Answers(r), faults = 1, faults' =< 1
    PROVE  /\ faults' = 1 /\ Len(toClient) \in Nat /\ Len(toClient') = Len(toClient) + 1
           /\ toClient'[Len(toClient) + 1] = r
           /\ \A k \in 1 .. Len(toClient) : toClient'[k] = toClient[k]
           /\ toClient' # <<>> /\ Answer' = IF toClient = <<>> THEN r ELSE Answer
<1>1. toClient \in Seq(Reply)
  BY DEF TypeOK
<1>2. toClient' = Append(toClient, r) /\ faults' = 1
  BY DEF Answers
<1> QED  BY <1>1, <1>2 DEF Answer

\* The part of OneBehind about the requests under way.
LEMMA BehindTake ==
    ASSUME TypeOK, OneBehind, NEW codes, Take(codes), UNCHANGED pc
    PROVE  \A i \in 1 .. Len(toServer') :
               toServer'[i].code \in {"CRC_SUCCESS", "CRC_FAILURE"} =>
                   pc' \in {"ack_success", "ack_failure"} /\ i = Len(toServer')
<1> TAKE i \in 1 .. Len(toServer')
<1>1. i + 1 \in 1 .. Len(toServer) /\ toServer'[i] = toServer[i + 1]
      /\ Len(toServer') = Len(toServer) - 1 /\ Len(toServer) \in Nat
  BY TakeShifts
<1> QED  BY <1>1 DEF OneBehind

LEMMA BehindServer ==
    ASSUME TypeOK, OneBehind, Server, faults' =< 1
    PROVE  OneBehind'
<1> DEFINE m == Head(toServer)
<1>1. UNCHANGED pc /\ faults = 1
  BY DEF Server, ServerTakesPacket, ServerTakesLastPacket, ServerTakesSuccess,
         ServerTakesFailure, ServerTakesError, client, OneBehind
<1>2. ASSUME NEW codes, Take(codes), ~IsLast(m), UNCHANGED <<toClient, faults>>
      PROVE  OneBehind'
  <2>1. \A i \in Unanswered : i - 1 \in Unanswered'
    BY <1>2, UnansweredShift
  <2>2. Unanswered # {} => Unanswered' # {}
    BY <2>1
  <2>3. (\E i, j \in Unanswered : i # j) => \E i, j \in Unanswered' : i # j
    <3>1. SUFFICES ASSUME NEW i \in Unanswered, NEW j \in Unanswered, i # j
                   PROVE  i - 1 # j - 1
      BY <2>1
    <3>2. i \in Nat /\ j \in Nat
      BY <1>2, UnansweredShift
    <3> QED  BY <3>1, <3>2
  <2>4. Answer' = Answer
    BY <1>2 DEF Answer
  <2> HIDE DEF m
  <2> QED  BY <1>1, <1>2, <2>2, <2>3, <2>4, BehindTake DEF OneBehind
<1>3. ASSUME NEW codes, Take(codes), IsLast(m), NEW r, Answers(r), r.code # "ACK"
      PROVE  OneBehind'
  <2>1. /\ faults' = 1 /\ Len(toClient) \in Nat /\ Len(toClient') = Len(toClient) + 1
        /\ toClient'[Len(toClient) + 1] = r
        /\ \A k \in 1 .. Len(toClient) : toClient'[k] = toClient[k]
        /\ toClient' # <<>> /\ Answer' = IF toClient = <<>> THEN r ELSE Answer
    BY <1>1, <1>3, AnswersOnce
  <2>2. \A i \in Unanswered : i # 1 => i - 1 \in Unanswered'
    BY <1>3, UnansweredShift
  <2>3. pc' = "verify" => Len(toClient') > 1 \/ Unanswered' # {}
    <3>1. SUFFICES ASSUME pc = "verify" PROVE Len(toClient') > 1 \/ Unanswered' # {}
      BY <1>1
    <3>2. CASE toClient = <<>>
      <4>1. PICK i, j \in Unanswered : i # j
        BY <3>1, <3>2 DEF OneBehind
      <4>2. PICK i0 \in {i, j} : i0 # 1
        BY <4>1
      <4> QED  BY <2>2, <4>1, <4>2
    <3>3. CASE toClient # <<>>
      <4>1. Len(toClient) # 0
        BY <3>3, EmptySeq DEF TypeOK
      <4> QED  BY <2>1, <4>1
    <3> QED  BY <3>2, <3>3
  <2>4. ASSUME pc \notin {"ack_success", "ack_failure"}, NEW k \in 2 .. Len(toClient')
        PROVE  toClient'[k].code # "ACK"
    <3>1. CASE k \in 2 .. Len(toClient)
      BY <2>1, <2>4, <3>1 DEF OneBehind
    <3>2. CASE k = Len(toClient) + 1
      BY <1>3, <2>1, <3>2
    <3> QED  BY <2>1, <3>1, <3>2
  <2>5. pc \notin {"next_file", "encrypt", "send", "verify"} => Answer'.code # "ACK"
    BY <1>3, <2>1 DEF OneBehind
  <2> HIDE DEF m
  <2> QED  BY <1>1, <1>3, <2>1, <2>3, <2>4, <2>5, BehindTake DEF OneBehind
<1>4. ASSUME NEW codes, Take(codes), m.code \in {"CRC_SUCCESS", "CRC_FAILURE"}, NEW r, Answers(r)
      PROVE  OneBehind'
  <2>1. /\ faults' = 1 /\ toClient' # <<>> /\ Answer' = IF toClient = <<>> THEN r ELSE Answer
    BY <1>1, <1>4, AnswersOnce
  <2>2. m = toServer[1] /\ 1 \in 1 .. Len(toServer)
    BY <1>4, TakeShifts
  <2>3. pc \in {"ack_success", "ack_failure"} /\ Len(toServer) = 1
    BY <1>4, <2>2 DEF OneBehind
  <2>4. ~IsLast(m)
    BY <1>4 DEF IsLast
  <2>5. Unanswered = {}
    BY <2>2, <2>3, <2>4 DEF Unanswered
  <2>6. toClient # <<>> /\ Answer' = Answer /\ Answer.code # "ACK"
    BY <2>1, <2>3, <2>5 DEF OneBehind
  <2> HIDE DEF m
  <2> QED  BY <1>1, <1>4, <2>1, <2>3, <2>6, BehindTake DEF OneBehind
<1>5. CASE ServerTakesPacket
  BY <1>2, <1>5 DEF ServerTakesPacket, IsLast
<1>6. CASE ServerTakesLastPacket
  <2>1. Take({"CREATE_BACKUP"}) /\ IsLast(m)
    BY <1>6 DEF ServerTakesLastPacket, Take, IsLast
  <2>2. PICK r : Answers(r) /\ r.code # "ACK"
    <3>1. \A c, size : Verdict(c, m.iv, size).code # "ACK"
      BY DEF Verdict
    <3>2. Plain("UPLOAD_REJECTED_TOO_LARGE", m.iv).code # "ACK"
      BY DEF Plain
    <3> QED  BY <1>6, <3>1, <3>2 DEF ServerTakesLastPacket
  <2> QED  BY <1>3, <2>1, <2>2
<1>7. CASE ServerTakesSuccess
  BY <1>4, <1>7 DEF ServerTakesSuccess, Take
<1>8. CASE ServerTakesFailure
  BY <1>4, <1>8 DEF ServerTakesFailure, Take
<1>9. CASE ServerTakesError
  BY <1>2, <1>9 DEF ServerTakesError, Take, IsLast
<1> QED  BY <1>5, <1>6, <1>7, <1>8, <1>9 DEF Server
-----------------------------------------------------------------------------
(* The client in step *)

\* A client step that leaves the connection alone, outside an exchange.
LEMMA SyncQuiet ==
    ASSUME InSync, UNCHANGED <<toServer, toClient>>,
           pc \in {"next_file", "encrypt"}, pc' \in {"next_file", "encrypt", "send"}
    PROVE  InSync'
<1>1. /\ toClient' = <<>>
      /\ \A i \in 1 .. Len(toServer') :
             toServer'[i].code \notin {"CREATE_BACKUP", "CRC_SUCCESS", "CRC_FAILURE"}
  BY DEF InSync, InFlight, Receiving
<1>2. \A i \in 1 .. Len(toServer') : InFlight(i)'
  BY <1>1 DEF InFlight
<1> QED  BY <1>1, <1>2 DEF InSync, Receiving

LEMMA SyncLoop == InSync /\ Loop /\ pc' \notin Ended => InSync'
BY SyncQuiet DEF Loop, SkipFile, StartFile, Return, Tell, Ended

LEMMA SyncEncrypt == InSync /\ Encrypt /\ pc' \notin Ended => InSync'
BY SyncQuiet DEF Encrypt, OpenFails, ReadFails, FileTooLarge, EncryptFile, Settle, Tell,
                 Ended, Threw

LEMMA SyncPacket ==
    ASSUME TypeOK, SendInv, InSync, SendPacket, link = "up"
    PROVE  InSync'
<1> DEFINE n == Len(toServer)
           m == PacketOf(packet)
<1>1. /\ UNCHANGED <<toClient, iv, FileName>>
      /\ pc = "send" /\ pc' \in {"send", "verify"} /\ (pc' = "verify" <=> packet = Total)
      /\ toServer' = Append(toServer, m)
      /\ m.code = "CREATE_BACKUP" /\ m.name = FileName /\ m.iv = iv
  BY DEF SendPacket, FileName, Transmit, PacketOf
<1>2. (m.num = m.total) <=> pc' = "verify"
  BY <1>1, LastPacketNumbered
<1> HIDE DEF m
<1>3. /\ n \in Nat /\ Len(toServer') = n + 1 /\ toServer'[n + 1] = m
      /\ \A i \in 1 .. n : toServer'[i] = toServer[i]
      /\ Unanswered' = Unanswered \cup {i \in {n + 1} : IsLast(m)}
  BY <1>1, UnansweredAppend
<1>4. \A i \in 1 .. n : InFlight(i)
  BY DEF InSync
<1>5. ASSUME NEW i \in 1 .. Len(toServer') PROVE InFlight(i)'
  <2>1. CASE i = n + 1
    BY <1>1, <1>2, <1>3, <2>1 DEF InFlight
  <2>2. CASE i # n + 1
    <3>1. i \in 1 .. n /\ i # Len(toServer')
      BY <1>3, <2>2
    <3>2. InFlight(i) /\ toServer'[i] = toServer[i]
      BY <1>3, <1>4, <3>1
    <3> QED  BY <1>1, <3>1, <3>2 DEF InFlight
  <2> QED  BY <2>1, <2>2
<1>6. toClient' = <<>>
  BY <1>1 DEF InSync, Receiving
<1>7. pc' = "verify" => Unanswered' # {}
  BY <1>1, <1>2, <1>3 DEF IsLast
<1> QED  BY <1>1, <1>5, <1>6, <1>7 DEF InSync, OwnVerdictComes, Receiving

LEMMA SyncStatus ==
    ASSUME InSync, link = "up", SendSuccess \/ SendFailure \/ SendError
    PROVE  InSync'
<1>1. PICK code \in StatusCodes :
         /\ toServer' = <<Status(code)>>
         /\ code = "CRC_SUCCESS" => pc = "send_success" /\ pc' = "ack_success"
         /\ code = "CRC_FAILURE" => pc = "send_failure" /\ pc' = "ack_failure"
         /\ code = "CRC_ERROR" => pc = "send_error" /\ pc' = "encrypt"
  <2>1. toServer = <<>>
    BY DEF SendSuccess, SendFailure, SendError, InSync
  <2>2. \A m : Transmit(m) => toServer' = <<m>>
    BY <2>1 DEF Transmit
  <2>3. CASE SendSuccess
    BY <2>2, <2>3 DEF SendSuccess, StatusCodes
  <2>4. CASE SendFailure
    BY <2>2, <2>4 DEF SendFailure, StatusCodes
  <2>5. CASE SendError
    BY <2>2, <2>5 DEF SendError, StatusCodes
  <2> QED  BY <2>3, <2>4, <2>5
<1>2. UNCHANGED <<toClient, received, ThisCopy>>
  BY DEF SendSuccess, SendFailure, SendError, locals, server, ThisCopy, FileName
<1>3. toClient' = <<>>
  BY <1>1, <1>2 DEF InSync, Receiving, StatusCodes
<1>4. toServer'[1].code = code /\ Len(toServer') = 1
  BY <1>1 DEF Status
<1>5. \A i \in 1 .. Len(toServer') : InFlight(i)'
  <2>1. \A i \in 1 .. Len(toServer') : toServer'[i].code = code
    BY <1>4
  <2> QED  BY <1>1, <1>4, <2>1 DEF InFlight, StatusCodes
<1>6. pc' \in {"ack_success", "ack_failure"} => OwnAckComes'
  BY <1>1, <1>2, <1>3, <1>4 DEF OwnAckComes, InSync, StatusCodes
<1> QED  BY <1>1, <1>3, <1>5, <1>6 DEF InSync, Receiving, StatusCodes

LEMMA SyncSend ==
    ASSUME TypeOK, SendInv, InSync, Send, link = "up"
    PROVE  InSync'
<1>1. ~SendFails
  BY DEF SendFails
<1> QED  BY <1>1, SyncPacket, SyncStatus DEF Send

\* The verdict on the client's own upload: a match means that the server has it.
LEMMA SyncVerify ==
    ASSUME TypeOK, InSync, Verify, link = "up", pc' \notin Ended
    PROVE  InSync'
<1>1. /\ pc = "verify" /\ Receive /\ UNCHANGED toServer
      /\ pc' \in {"next_file", "send_success", "send_error", "send_failure"}
  BY DEF Verify, ReceiveFails, VerifyRejected, VerifyThrows, VerifyMatches, VerifyMismatches,
         Settle, Tell, Ended, Threw
<1>2. /\ toServer = <<>> /\ Len(toClient) = 1
      /\ GoodVerdict(Answer) =>
             Answer.sum = BadSum \/ received = {[name |-> FileName, sum |-> Answer.sum]}
  BY <1>1 DEF InSync, OwnVerdictComes, Receive
<1>3. toServer' = <<>> /\ toClient' = <<>>
  BY <1>1, <1>2, ReceiveShifts
<1>4. pc' = "send_success" => received' = {ThisCopy'}
  <2>1. SUFFICES ASSUME pc' = "send_success" PROVE received' = {ThisCopy'}
    OBVIOUS
  <2>2. VerifyMatches
    BY <2>1 DEF Verify, ReceiveFails, VerifyRejected, VerifyThrows, VerifyMatches,
                VerifyMismatches, Settle, Tell
  <2>3. GoodVerdict(Answer) /\ Answer.sum = Crc[fileData]
    BY <2>2 DEF VerifyMatches, Mismatch, LocalChecksum
  <2>4. fileData \in Contents
    BY <1>1 DEF TypeOK, Receiving
  <2>5. Answer.sum # BadSum
    BY <2>3, <2>4, UploadAssumption
  <2>6. UNCHANGED <<received, ThisCopy>>
    BY <2>2 DEF VerifyMatches, server, ThisCopy, FileName
  <2> QED  BY <1>2, <2>3, <2>5, <2>6 DEF ThisCopy
<1> QED  BY <1>1, <1>3, <1>4 DEF InSync, Receiving

\* An acknowledgement that came twice leaves the second one behind.
LEMMA SyncAck ==
    ASSUME TypeOK, InSync, Ack, faults =< 1, pc' \notin Ended
    PROVE  /\ InSync' \/ OneBehind'
           /\ pc = "ack_success" => ThisCopy \in stored
<1>1. /\ pc \in {"ack_success", "ack_failure"} /\ Receive /\ UNCHANGED <<toServer, faults>>
      /\ pc' = "next_file"
  BY DEF Ack, ReadAck, AckThrows, Settle, Tell, server, Ended, Threw
<1>2. /\ toServer = <<>>
      /\ Len(toClient) = 1 \/ (Len(toClient) = 2 /\ faults = 1)
      /\ pc = "ack_success" => ThisCopy \in stored
  BY <1>1 DEF InSync, OwnAckComes, Receive
<1>3. CASE Len(toClient) = 1
  <2>1. toClient' = <<>> /\ toServer' = <<>>
    BY <1>1, <1>2, <1>3, ReceiveShifts
  <2>2. InSync'
    BY <1>1, <2>1 DEF InSync, Receiving
  <2> QED  BY <1>2, <2>2
<1>4. CASE Len(toClient) = 2 /\ faults = 1
  <2>1. toClient' # <<>> /\ Len(toClient') = 1 /\ toServer' = <<>> /\ faults' = 1
    BY <1>1, <1>2, <1>4, ReceiveShifts
  <2>2. OneBehind'
    BY <1>1, <2>1 DEF OneBehind
  <2> QED  BY <1>2, <2>2
<1> QED  BY <1>2, <1>3, <1>4

\* The answer to the only request under way: the right one, another one or twice.
LEMMA AnswersAlone ==
    ASSUME TypeOK, NEW r, Answers(r), toClient = <<>>, faults' =< 1
    PROVE  \/ toClient' = <<r>>
           \/ \E w \in WrongReplies : toClient' = <<w>>
           \/ /\ Len(toClient') = 2 /\ toClient'[1] = r /\ toClient'[2] = r
              /\ toClient' # <<>> /\ faults' = 1
<1>1. \A w : Append(toClient, w) = <<w>>
  OBVIOUS
<1>2. LET s == Append(<<r>>, r) IN Len(s) = 2 /\ s[1] = r /\ s[2] = r /\ s # <<>>
  OBVIOUS
<1> QED  BY <1>1, <1>2 DEF Answers, TypeOK

\* A request that is not answered is taken from in front of others.
LEMMA SyncTake ==
    ASSUME TypeOK, InSync, NEW codes, Take(codes), UNCHANGED <<client, toClient>>,
           codes \in {{"CREATE_BACKUP"}, {"CRC_ERROR"}}, ~IsLast(Head(toServer))
    PROVE  InSync'
<1> DEFINE m == Head(toServer)
           n == Len(toServer)
<1>1. /\ n \in Nat \ {0} /\ Len(toServer') = n - 1 /\ m = toServer[1]
      /\ \A i \in 1 .. Len(toServer') : toServer'[i] = toServer[i + 1]
      /\ m.code \in {"CREATE_BACKUP", "CRC_ERROR"} /\ toServer # <<>>
  BY TakeShifts DEF Take
<1>2. UNCHANGED <<pc, iv, FileName>>
  BY DEF client, locals, FileName
<1>3. \A i \in 1 .. n : InFlight(i)
  BY DEF InSync
<1>4. ASSUME NEW i \in 1 .. Len(toServer') PROVE InFlight(i)'
  <2>1. i + 1 \in 1 .. n /\ n # 1 /\ toServer'[i] = toServer[i + 1]
    BY <1>1
  <2>2. InFlight(i + 1)
    BY <1>3, <2>1
  <2>3. i + 1 = n <=> i = Len(toServer')
    BY <1>1, <2>1
  <2> QED  BY <1>2, <2>1, <2>2, <2>3 DEF InFlight
<1>5. pc \notin {"send_success", "send_failure", "send_error"}
  BY <1>1 DEF InSync
<1>6. pc \notin {"ack_success", "ack_failure"}
  <2>1. InFlight(1)
    BY <1>1, <1>3
  <2> QED  BY <1>1, <2>1 DEF InSync, OwnAckComes, InFlight
<1>7. pc = "verify" => OwnVerdictComes'
  <2>1. Unanswered # {} => Unanswered' # {}
    BY UnansweredShift
  <2> QED  BY <1>1, <2>1 DEF InSync, OwnVerdictComes
<1>8. pc \notin Receiving => toClient' = <<>>
  BY DEF InSync
<1> QED  BY <1>2, <1>4, <1>5, <1>6, <1>7, <1>8 DEF InSync

LEMMA SyncLastPacket ==
    ASSUME TypeOK, InSync, ServerTakesLastPacket, faults' =< 1
    PROVE  InSync' \/ OneBehind'
<1> DEFINE m == Head(toServer)
           copy(sum) == [name |-> m.name, sum |-> sum]
           sound == IF Intact(Assembled(m)) THEN Crc[m.data] ELSE BadSum
<1>1. /\ Take({"CREATE_BACKUP"}) /\ m.num = m.total /\ m.code = "CREATE_BACKUP"
      /\ UNCHANGED <<pc, FileName>>
  BY DEF ServerTakesLastPacket, Take, client, FileName
<1>2. PICK r : /\ Answers(r) /\ r.code # "ACK"
               /\ GoodVerdict(r) => received' = {[name |-> m.name, sum |-> r.sum]}
  <2>1. \A sum, size : LET v == Verdict(copy(sum), m.iv, size)
                       IN  v.code # "ACK" /\ [name |-> m.name, sum |-> v.sum] = copy(sum)
    BY DEF Verdict
  <2>2. LET p == Plain("UPLOAD_REJECTED_TOO_LARGE", m.iv)
        IN  p.code # "ACK" /\ ~GoodVerdict(p)
    BY DEF Plain, GoodVerdict
  <2> HIDE DEF copy, sound
  <2>3. \/ Answers(Plain("UPLOAD_REJECTED_TOO_LARGE", m.iv))
        \/ \E sum, size : /\ received' = {copy(sum)}
                          /\ Answers(Verdict(copy(sum), m.iv, size))
    BY DEF ServerTakesLastPacket, copy, sound
  <2> QED  BY <2>1, <2>2, <2>3
<1>3. m = toServer[1] /\ Len(toServer) \in Nat \ {0}
      /\ (Len(toServer) = 1 => toServer' = <<>>)
  BY <1>1, TakeShifts
<1>4. InFlight(1)
  BY <1>3 DEF InSync
<1>5. pc = "verify" /\ Len(toServer) = 1 /\ m.name = FileName
  BY <1>1, <1>3, <1>4 DEF InFlight
<1>6. toClient = <<>> /\ toServer' = <<>>
  BY <1>3, <1>5 DEF InSync, OwnVerdictComes
<1> HIDE DEF m
<1>7. \/ toClient' = <<r>>
      \/ \E w \in WrongReplies : toClient' = <<w>>
      \/ /\ Len(toClient') = 2 /\ toClient'[1] = r /\ toClient'[2] = r
         /\ toClient' # <<>> /\ faults' = 1
  BY <1>2, <1>6, AnswersAlone
<1>8. ASSUME NEW w, toClient' = <<w>>,
             GoodVerdict(w) => w.sum = BadSum \/ received' = {[name |-> m.name, sum |-> w.sum]}
      PROVE  InSync'
  <2>1. Answer' = w /\ Len(toClient') = 1
    BY <1>8 DEF Answer
  <2>2. OwnVerdictComes'
    BY <1>1, <1>5, <1>6, <1>8, <2>1 DEF OwnVerdictComes, GoodVerdict
  <2> QED  BY <1>1, <1>5, <1>6, <2>2 DEF InSync, Receiving
<1>9. CASE toClient' = <<r>>
  BY <1>2, <1>8, <1>9
<1>10. ASSUME NEW w \in WrongReplies, toClient' = <<w>> PROVE InSync'
  <2>1. w.sum = BadSum
    <3>1. PICK code \in ReplyCodes, u \in Uids : w = [Plain(code, 0) EXCEPT !.uid = u]
      BY <1>10 DEF WrongReplies
    <3> QED  BY <3>1 DEF Plain
  <2> QED  BY <1>8, <1>10, <2>1
<1>11. CASE /\ Len(toClient') = 2 /\ toClient'[1] = r /\ toClient'[2] = r
            /\ toClient' # <<>> /\ faults' = 1
  BY <1>1, <1>2, <1>5, <1>6, <1>11 DEF OneBehind
<1> QED  BY <1>7, <1>9, <1>10, <1>11

LEMMA SyncConfirm ==
    ASSUME TypeOK, InSync, ServerTakesSuccess \/ ServerTakesFailure, faults' =< 1
    PROVE  InSync'
<1> DEFINE m == Head(toServer)
<1>1. /\ UNCHANGED <<pc, ThisCopy>> /\ \E codes : Take(codes)
      /\ m.code \in {"CRC_SUCCESS", "CRC_FAILURE"}
      /\ m.code = "CRC_SUCCESS" => stored' = stored \cup received
      /\ \E r : Answers(r)
  BY DEF ServerTakesSuccess, ServerTakesFailure, Take, client, locals, ThisCopy, FileName
<1>2. m = toServer[1] /\ Len(toServer) \in Nat \ {0}
      /\ (Len(toServer) = 1 => toServer' = <<>>)
  BY <1>1, TakeShifts
<1>3. InFlight(1)
  BY <1>2 DEF InSync
<1>4. /\ Len(toServer) = 1 /\ pc \in {"ack_success", "ack_failure"}
      /\ pc = "ack_success" => m.code = "CRC_SUCCESS"
  BY <1>1, <1>2, <1>3 DEF InFlight
<1>5. toServer' = <<>>
  BY <1>2, <1>4
<1>6. toClient = <<>> /\ (pc = "ack_success" => received = {ThisCopy})
  BY <1>2, <1>4 DEF InSync, OwnAckComes
<1>7. Len(toClient') = 1 \/ (Len(toClient') = 2 /\ faults' = 1)
  <2>1. PICK r : Answers(r)
    BY <1>1
  <2>2. \A w : Len(<<w>>) = 1 /\ Len(<<w, w>>) = 2
    OBVIOUS
  <2> QED  BY <1>6, <2>1, <2>2, AnswersAlone
<1>8. pc = "ack_success" => ThisCopy' \in stored'
  BY <1>1, <1>4, <1>6
<1>9. OwnAckComes'
  BY <1>1, <1>5, <1>7, <1>8 DEF OwnAckComes
<1> QED  BY <1>1, <1>4, <1>5, <1>9 DEF InSync, Receiving

LEMMA SyncServer ==
    ASSUME TypeOK, InSync, Server, faults' =< 1
    PROVE  InSync' \/ OneBehind'
<1>1. CASE ServerTakesPacket
  BY <1>1, SyncTake DEF ServerTakesPacket, IsLast
<1>2. CASE ServerTakesError
  BY <1>2, SyncTake DEF ServerTakesError, Take, IsLast
<1> QED  BY <1>1, <1>2, SyncLastPacket, SyncConfirm DEF Server
-----------------------------------------------------------------------------
(* What the server confirms *)

LEMMA ConfirmAppend ==
    ASSUME TypeOK, ConfirmLast, NEW m, toServer' = Append(toServer, m),
           pc \in Sending, m.code = "CRC_SUCCESS" => pc' = "ack_success"
    PROVE  ConfirmLast'
<1>1. \A i \in 1 .. Len(toServer) : toServer[i].code # "CRC_SUCCESS"
  BY DEF ConfirmLast, Sending
<1>2. SUFFICES ASSUME NEW i \in 1 .. Len(toServer'), toServer'[i].code = "CRC_SUCCESS"
               PROVE  pc' = "ack_success" /\ i = Len(toServer')
  BY DEF ConfirmLast
<1>3. i = Len(toServer')
  BY <1>1, <1>2, UnansweredAppend
<1>4. toServer'[i] = m
  BY <1>3, UnansweredAppend
<1> QED  BY <1>2, <1>3, <1>4

LEMMA ConfirmStep ==
    ASSUME TypeOK, [Next]_vars, ConfirmLast, link' = "up",
           ReadAck => toServer = <<>>
    PROVE  ConfirmLast'
<1>1. link = "up"
  BY StoredGrows
<1>2. CASE UNCHANGED <<pc, toServer>>
  BY <1>2 DEF ConfirmLast
<1>3. CASE UNCHANGED toServer /\ pc \notin {"ack_success", "failed_server"}
  BY <1>3 DEF ConfirmLast
<1>4. CASE Loop
  BY <1>3, <1>4 DEF Loop, SkipFile, StartFile, Return
<1>5. CASE Encrypt
  BY <1>3, <1>5 DEF Encrypt, OpenFails, ReadFails, FileTooLarge, EncryptFile
<1>6. CASE Send
  <2> USE DEF Sending
  <2>1. CASE SendFails
    BY <1>1, <2>1 DEF SendFails
  <2>2. CASE SendPacket
    BY <1>1, <2>2, ConfirmAppend DEF SendPacket, Transmit, PacketOf
  <2>3. CASE SendSuccess \/ SendFailure \/ SendError
    BY <1>1, <2>3, ConfirmAppend DEF SendSuccess, SendFailure, SendError, Transmit, Status
  <2> QED  BY <1>6, <2>1, <2>2, <2>3 DEF Send
<1>7. CASE Verify
  BY <1>1, <1>3, <1>7 DEF Verify, ReceiveFails, VerifyRejected, VerifyThrows, VerifyMatches,
                          VerifyMismatches
<1>8. CASE Ack
  <2>1. CASE ReadAck
    <3>1. Len(toServer') = 0
      BY <2>1 DEF ReadAck
    <3> QED  BY <3>1 DEF ConfirmLast
  <2>2. CASE AckThrows
    BY <2>2 DEF AckThrows, ConfirmLast
  <2> QED  BY <1>8, <2>1, <2>2 DEF Ack
<1>9. ASSUME NEW codes, Take(codes), UNCHANGED pc PROVE ConfirmLast'
  <2>1. SUFFICES ASSUME NEW i \in 1 .. Len(toServer'), toServer'[i].code = "CRC_SUCCESS"
                 PROVE  pc' \in {"ack_success", "failed_server"} /\ i = Len(toServer')
    BY DEF ConfirmLast
  <2>2. /\ i + 1 \in 1 .. Len(toServer) /\ toServer'[i] = toServer[i + 1]
        /\ Len(toServer') = Len(toServer) - 1 /\ Len(toServer) \in Nat
    BY <1>9, TakeShifts
  <2> QED  BY <1>9, <2>1, <2>2 DEF ConfirmLast
<1>10. CASE Server
  BY <1>9, <1>10 DEF Server, ServerTakesPacket, ServerTakesLastPacket, ServerTakesSuccess,
                     ServerTakesFailure, ServerTakesError, client
<1>11. CASE Surroundings \/ Over \/ UNCHANGED vars
  BY <1>2, <1>11 DEF Surroundings, EditFile, LinkBreaks, Over, vars
<1> QED  BY <1>4, <1>5, <1>6, <1>7, <1>8, <1>10, <1>11 DEF Next, Client

\* The server keeps its upload, or drops it, or replaces it by the next one sent.
LEMMA OursServer ==
    ASSUME TypeOK, OursComesLast, Server
    PROVE  OursComesLast'
<1> DEFINE m == Head(toServer)
<1>1. UNCHANGED FileName
  BY DEF Server, ServerTakesPacket, ServerTakesLastPacket, ServerTakesSuccess,
         ServerTakesFailure, ServerTakesError, client, FileName
<1>2. PICK codes : Take(codes)
  BY DEF Server, ServerTakesPacket, ServerTakesLastPacket, ServerTakesSuccess,
         ServerTakesFailure, ServerTakesError
<1>3. CASE ~IsLast(m) /\ received' \subseteq received
  <2>1. CASE Unanswered = {} /\ \A c \in received : c.name = FileName
    <3>1. Unanswered' = {}
      BY <1>2, <2>1, UnansweredShift
    <3> QED  BY <1>1, <1>3, <2>1, <3>1 DEF OursComesLast
  <2>2. CASE \E i \in Unanswered : toServer[i].name = FileName /\ \A j \in Unanswered : j =< i
    <3>1. PICK i \in Unanswered : toServer[i].name = FileName /\ \A j \in Unanswered : j =< i
      BY <2>2
    <3>2. i - 1 \in Unanswered' /\ toServer'[i - 1] = toServer[i]
      BY <1>2, <1>3, UnansweredShift
    <3>3. \A j \in Unanswered' : j + 1 =< i /\ j \in Nat /\ i \in Nat
      BY <1>2, <3>1, UnansweredShift
    <3>4. \A j \in Unanswered' : j =< i - 1
      BY <3>3
    <3> QED  BY <1>1, <3>1, <3>2, <3>4 DEF OursComesLast
  <2> QED  BY <2>1, <2>2 DEF OursComesLast
<1>4. CASE IsLast(m) /\ \A c \in received' : c.name = m.name
  <2>1. 1 \in Unanswered /\ Unanswered \subseteq Nat \ {0} /\ m = toServer[1]
    BY <1>2, <1>4, UnansweredShift, TakeShifts
  <2>2. PICK i \in Unanswered : toServer[i].name = FileName /\ \A j \in Unanswered : j =< i
    BY <2>1 DEF OursComesLast
  <2>3. CASE i = 1
    <3>1. Unanswered' = {}
      <4>1. SUFFICES ASSUME NEW j \in Unanswered' PROVE FALSE
        OBVIOUS
      <4>2. j + 1 =< 1 /\ j \in Nat \ {0}
        BY <1>2, <2>2, <2>3, UnansweredShift
      <4> QED  BY <4>2
    <3> QED  BY <1>1, <1>4, <2>1, <2>2, <2>3, <3>1 DEF OursComesLast
  <2>4. CASE i # 1
    <3>2. i - 1 \in Unanswered' /\ toServer'[i - 1] = toServer[i]
      BY <1>2, <2>4, UnansweredShift
    <3>3. \A j \in Unanswered' : j + 1 =< i /\ j \in Nat /\ i \in Nat
      BY <1>2, <2>2, UnansweredShift
    <3>4. \A j \in Unanswered' : j =< i - 1
      BY <3>3
    <3> QED  BY <1>1, <2>2, <3>2, <3>4 DEF OursComesLast
  <2> QED  BY <2>3, <2>4
<1> HIDE DEF m
<1>5. CASE ServerTakesPacket
  BY <1>3, <1>5 DEF ServerTakesPacket, IsLast, m
<1>6. CASE ServerTakesLastPacket
  <2>1. IsLast(m)
    BY <1>6 DEF ServerTakesLastPacket, Take, IsLast, m
  <2>2. \A c \in received' : c.name = m.name
    BY <1>6 DEF ServerTakesLastPacket, m
  <2> QED  BY <1>4, <2>1, <2>2
<1>7. CASE ServerTakesSuccess \/ ServerTakesFailure \/ ServerTakesError
  BY <1>3, <1>7 DEF ServerTakesSuccess, ServerTakesFailure, ServerTakesError, Take, IsLast, m
<1> QED  BY <1>5, <1>6, <1>7 DEF Server

\* The client sends nothing between the end of an upload and its confirmation.
LEMMA OursSend ==
    ASSUME TypeOK, SendInv, Send, link = "up", pc' \in Uploaded,
           pc \in Uploaded => OursComesLast
    PROVE  OursComesLast'
<1> DEFINE n == Len(toServer)
<1>1. UNCHANGED <<FileName, received>>
  BY DEF Send, SendFails, SendPacket, SendSuccess, SendFailure, SendError, server, FileName
<1>2. CASE SendPacket
  <2> DEFINE m == PacketOf(packet)
  <2>1. /\ toServer' = Append(toServer, m) /\ m.name = FileName
        /\ pc = "send" /\ pc' = "verify" /\ packet = Total /\ m.code = "CREATE_BACKUP"
    BY <1>2 DEF SendPacket, Transmit, PacketOf, Uploaded, Receiving
  <2>2. IsLast(m)
    BY <2>1, LastPacketNumbered DEF IsLast
  <2> HIDE DEF m
  <2>3. /\ n \in Nat /\ toServer'[n + 1] = m /\ n + 1 \in Unanswered'
        /\ \A j \in Unanswered' : j =< n + 1
    BY <2>1, <2>2, UnansweredAppend DEF Unanswered
  <2> QED  BY <1>1, <2>1, <2>3 DEF OursComesLast
<1>3. CASE SendSuccess \/ SendFailure
  <2>1. PICK code \in {"CRC_SUCCESS", "CRC_FAILURE"} : toServer' = Append(toServer, Status(code))
    BY <1>3 DEF SendSuccess, SendFailure, Transmit
  <2>2. pc \in Uploaded
    BY <1>3 DEF SendSuccess, SendFailure, Uploaded
  <2>3. ~IsLast(Status(code))
    BY DEF IsLast, Status
  <2>4. /\ Unanswered' = Unanswered /\ \A i \in Unanswered : toServer'[i] = toServer[i]
    BY <2>1, <2>3, UnansweredAppend DEF Unanswered
  <2> QED  BY <1>1, <2>2, <2>4 DEF OursComesLast
<1>4. CASE SendFails
  BY <1>4 DEF SendFails
<1>5. CASE SendError
  BY <1>5 DEF SendError, Uploaded, Receiving
<1> QED  BY <1>2, <1>3, <1>4, <1>5 DEF Send

LEMMA OursStep ==
    ASSUME TypeOK, SendInv, [Next]_vars, link' = "up", pc' \in Uploaded,
           pc \in Uploaded => OursComesLast
    PROVE  OursComesLast'
<1>1. link = "up"
  BY StoredGrows
<1>2. CASE UNCHANGED <<toServer, received, idx>> /\ pc \in Uploaded
  BY <1>2 DEF OursComesLast, Unanswered, FileName
<1>3. CASE Loop \/ Encrypt
  BY <1>3 DEF Loop, SkipFile, StartFile, Return, Encrypt, OpenFails, ReadFails, FileTooLarge,
              EncryptFile, Settle, Tell, Uploaded, Receiving
<1>4. CASE Send
  BY <1>1, <1>4, OursSend
<1>5. CASE Verify \/ Ack
  BY <1>2, <1>5 DEF Verify, ReceiveFails, VerifyRejected, VerifyThrows, VerifyMatches,
                    VerifyMismatches, Ack, ReadAck, AckThrows, Settle, Tell, server, Uploaded,
                    Receiving
<1>6. CASE Server
  <2>1. UNCHANGED pc
    BY <1>6 DEF Server, ServerTakesPacket, ServerTakesLastPacket, ServerTakesSuccess,
                ServerTakesFailure, ServerTakesError, client
  <2> QED  BY <1>6, <2>1, OursServer
<1>7. CASE Surroundings \/ Over \/ UNCHANGED vars
  BY <1>2, <1>7 DEF Surroundings, EditFile, LinkBreaks, Over, vars, server
<1> QED  BY <1>3, <1>4, <1>5, <1>6, <1>7 DEF Next, Client

-----------------------------------------------------------------------------
(* The invariant *)

\* A success is read only where the server has the file.
LEMMA ReadAckStored ==
    ASSUME TypeOK, InStep, OneFaultInv, faults =< 1, ReadAck
    PROVE  /\ link = "up" /\ toServer = <<>>
           /\ pc = "ack_success" => ThisCopy \in stored
<1>1. pc \in {"ack_success", "ack_failure"} /\ toClient # <<>> /\ pc' = "next_file"
  BY DEF ReadAck, Receive, Settle, Tell
<1>2. link = "up"
  BY <1>1 DEF InStep, TypeOK
<1>3. InSync \/ OneBehind
  BY <1>1, <1>2 DEF OneFaultInv, Ended, Threw
<1>4. ~OneBehind
  BY <1>1 DEF ReadAck, OneBehind, GoodAck
<1>5. OwnAckComes
  BY <1>1, <1>3, <1>4 DEF InSync
<1> QED  BY <1>1, <1>2, <1>5 DEF OwnAckComes

\* In step, or one response behind.
LEMMA PairedStep ==
    ASSUME TypeOK, SendInv, [Next]_vars, faults' =< 1, faults \in Nat, link = "up", link' = "up",
           pc' \notin Ended, InSync \/ OneBehind
    PROVE  InSync' \/ OneBehind'
<1>1. faults =< 1
  BY StoredGrows DEF TypeOK
<1>2. CASE Loop
  BY <1>2, SyncLoop, BehindLoop
<1>3. CASE Encrypt
  BY <1>3, SyncEncrypt, BehindEncrypt
<1>4. CASE Send
  BY <1>4, SyncSend, BehindSend
<1>5. CASE Verify
  BY <1>5, SyncVerify, BehindVerify
<1>6. CASE Ack
  <2>1. ~AckThrows
    BY DEF AckThrows, Ended, Threw
  <2> QED  BY <1>1, <1>6, <2>1, SyncAck, BehindAck
<1>7. CASE Server
  BY <1>7, SyncServer, BehindServer
<1>8. CASE EditFile \/ UNCHANGED vars
  <2>1. UNCHANGED <<pc, idx, iv, fileData, toServer, toClient, received, stored, faults>>
    BY <1>8 DEF EditFile, vars, locals, server
  <2> QED  BY <2>1 DEF InSync, OneBehind, OwnVerdictComes, OwnAckComes, Unanswered, InFlight,
                       ThisCopy, FileName, Answer
<1>9. CASE LinkBreaks
  BY <1>9 DEF LinkBreaks
<1> QED  BY <1>2, <1>3, <1>4, <1>5, <1>6, <1>7, <1>8, <1>9 DEF Next, Client, Surroundings, Over

LEMMA EndedStep ==
    ASSUME TypeOK, [Next]_vars, pc \in Ended
    PROVE  UNCHANGED <<pc, idx>>
<1>1. ~Client
  BY DEF Client, Loop, SkipFile, StartFile, Return, Encrypt, OpenFails, ReadFails, FileTooLarge,
         EncryptFile, Send, SendFails, SendPacket, SendSuccess, SendFailure, SendError, Verify,
         ReceiveFails, VerifyRejected, VerifyThrows, VerifyMatches, VerifyMismatches, Ack, ReadAck,
         AckThrows, Sending, Receiving, Ended, Threw
<1> QED  BY <1>1 DEF Next, Server, ServerTakesPacket, ServerTakesLastPacket, ServerTakesSuccess,
               ServerTakesFailure, ServerTakesError, client, Surroundings, EditFile, LinkBreaks,
               Over, vars

LEMMA OneFaultStep ==
    TypeOK /\ SendInv /\ InStep /\ OneFaultInv /\ [Next]_vars => OneFaultInv'
<1> SUFFICES ASSUME TypeOK, SendInv, InStep, OneFaultInv, [Next]_vars, faults' =< 1, link' = "up"
             PROVE  /\ pc' \notin Ended => InSync' \/ OneBehind'
                    /\ pc' \in Uploaded => OursComesLast'
                    /\ pc' = "failed_server" => idx' \in DOMAIN SelectedFiles
                    /\ ConfirmLast'
  BY DEF OneFaultInv
<1>1. faults =< 1 /\ faults \in Nat /\ link = "up"
  BY StoredGrows DEF TypeOK
<1>2. /\ pc \notin Ended => InSync \/ OneBehind
      /\ pc \in Uploaded => OursComesLast
      /\ pc = "failed_server" => idx \in DOMAIN SelectedFiles
      /\ ConfirmLast
  BY <1>1 DEF OneFaultInv
<1>3. pc \in Ended => UNCHANGED <<pc, idx>>
  BY EndedStep
<1>4. pc' \notin Ended => InSync' \/ OneBehind'
  BY <1>1, <1>2, <1>3, PairedStep
<1>5. pc' \in Uploaded => OursComesLast'
  BY <1>2, OursStep
<1>6. pc' = "failed_server" => idx' \in DOMAIN SelectedFiles
  <2>1. CASE pc = "failed_server"
    BY <1>2, <1>3, <2>1 DEF Ended, Threw
  <2>2. CASE pc' = "failed_server" /\ pc # "failed_server"
    <3>1. VerifyThrows \/ AckThrows
      BY <2>2 DEF Next, Client, Loop, SkipFile, StartFile, Return, Encrypt, OpenFails, ReadFails,
             FileTooLarge, EncryptFile, Send, SendFails, SendPacket, SendSuccess, SendFailure,
             SendError, Verify, ReceiveFails, VerifyRejected, VerifyMatches, VerifyMismatches, Ack,
             ReadAck, Settle, Tell, Server, ServerTakesPacket, ServerTakesLastPacket,
             ServerTakesSuccess, ServerTakesFailure, ServerTakesError, client, Surroundings,
             EditFile, LinkBreaks, Over, vars
    <3>2. idx' = idx /\ pc \notin Ended \cup {"next_file"}
      BY <3>1 DEF VerifyThrows, AckThrows, Ended, Threw
    <3> QED  BY <3>2 DEF TypeOK
  <2> QED  BY <2>1, <2>2
<1>7. ConfirmLast'
  BY <1>1, <1>2, ConfirmStep, ReadAckStored
<1> QED  BY <1>4, <1>5, <1>6, <1>7

LEMMA OneFaultAlways == Spec => [](TypeOK /\ InStep /\ OneFaultInv)
<1>1. Init => OneFaultInv
  <2> SUFFICES ASSUME Init PROVE OneFaultInv
    OBVIOUS
  <2>1. pc = "next_file" /\ toServer = <<>> /\ toClient = <<>>
    BY DEF Init
  <2>2. Len(toServer) = 0
    BY <2>1
  <2>3. InSync /\ ConfirmLast
    BY <2>1, <2>2 DEF InSync, ConfirmLast, Receiving
  <2> QED  BY <2>1, <2>3 DEF OneFaultInv, Uploaded, Receiving
<1> QED  BY <1>1, InStepAlways, OneFaultStep, PTL DEF Spec

-----------------------------------------------------------------------------
(* No false success *)

\* Only ReadAck reports a success.
LEMMA OutcomesStep ==
    ASSUME TypeOK, [Next]_vars
    PROVE  \/ UNCHANGED outcomes
           \/ \E o : /\ outcomes' = Append(outcomes, o)
                     /\ o.result = "saved" =>
                            /\ ReadAck /\ pc = "ack_success"
                            /\ o.name = FileName /\ o.data = fileData
<1>1. ASSUME NEW result, NEW data, NEW n, Tell(result, data, n), result # "saved"
      PROVE  \E o : outcomes' = Append(outcomes, o) /\ o.result # "saved"
  <2> DEFINE o == [name |-> FileName, result |-> result, data |-> data, tries |-> n]
  <2>1. outcomes' = Append(outcomes, o) /\ o.result = result
    BY <1>1 DEF Tell
  <2> QED  BY <1>1, <2>1
<1>2. CASE Loop
  BY <1>1, <1>2 DEF Loop, SkipFile, StartFile, Return
<1>3. CASE Encrypt
  BY <1>1, <1>3 DEF Encrypt, OpenFails, ReadFails, FileTooLarge, EncryptFile, BytesRead, Settle
<1>4. CASE Send
  BY <1>4 DEF Send, SendFails, SendPacket, SendSuccess, SendFailure, SendError
<1>5. CASE Verify
  BY <1>1, <1>5 DEF Verify, ReceiveFails, VerifyRejected, VerifyThrows, VerifyMatches,
                    VerifyMismatches, Settle
<1>6. CASE Ack
  <2>1. CASE ReadAck
    <3> DEFINE o == [name |-> FileName, result |-> IF pc = "ack_success" THEN "saved" ELSE "gave_up",
                     data |-> fileData, tries |-> tries]
    <3>1. outcomes' = Append(outcomes, o)
      BY <2>1 DEF ReadAck, Settle, Tell
    <3>2. o.result = "saved" => pc = "ack_success" /\ o.name = FileName /\ o.data = fileData
      OBVIOUS
    <3> QED  BY <2>1, <3>1, <3>2
  <2>2. CASE AckThrows
    BY <2>2 DEF AckThrows
  <2> QED  BY <1>6, <2>1, <2>2 DEF Ack
<1>7. CASE Server \/ Surroundings \/ Over \/ UNCHANGED vars
  BY <1>7 DEF Server, ServerTakesPacket, ServerTakesLastPacket, ServerTakesSuccess,
              ServerTakesFailure, ServerTakesError, Surroundings, EditFile, LinkBreaks, Over,
              vars, client
<1> QED  BY <1>2, <1>3, <1>4, <1>5, <1>6, <1>7 DEF Next, Client

LEMMA SavedStep == TypeOK /\ InStep /\ OneFaultInv /\ SavedInv /\ [Next]_vars => SavedInv'
<1> SUFFICES ASSUME TypeOK, InStep, OneFaultInv, SavedInv, [Next]_vars, faults' =< 1
             PROVE  SavedIsStored'
  BY DEF SavedInv
<1> DEFINE Backed(o, s) == o.result = "saved" => [name |-> o.name, sum |-> Crc[o.data]] \in s
<1>1. faults =< 1 /\ stored \subseteq stored' /\ outcomes \in Seq(Outcome)
  BY StoredGrows DEF TypeOK
<1>2. \A i \in DOMAIN outcomes : Backed(outcomes[i], stored')
  BY <1>1 DEF SavedInv, SavedIsStored
<1>3. ASSUME NEW o, outcomes' = Append(outcomes, o), Backed(o, stored')
      PROVE  \A i \in DOMAIN outcomes' : Backed(outcomes'[i], stored')
  <2> HIDE DEF Backed
  <2>1. SUFFICES ASSUME NEW i \in DOMAIN outcomes' PROVE Backed(outcomes'[i], stored')
    OBVIOUS
  <2>2. CASE i \in DOMAIN outcomes
    BY <1>1, <1>2, <1>3, <2>2
  <2>3. CASE i = Len(outcomes) + 1
    BY <1>1, <1>3, <2>3
  <2> QED  BY <1>1, <1>3, <2>1, <2>2, <2>3
<1>4. ASSUME ReadAck, pc = "ack_success" PROVE ThisCopy \in stored
  BY <1>1, <1>4, ReadAckStored
<1>5. \A i \in DOMAIN outcomes' : Backed(outcomes'[i], stored')
  <2>1. CASE UNCHANGED outcomes
    BY <1>2, <2>1
  <2>2. CASE \E o : /\ outcomes' = Append(outcomes, o)
                    /\ o.result = "saved" =>
                           /\ ReadAck /\ pc = "ack_success"
                           /\ o.name = FileName /\ o.data = fileData
    <3>1. PICK o : /\ outcomes' = Append(outcomes, o)
                   /\ o.result = "saved" =>
                          /\ ReadAck /\ pc = "ack_success"
                          /\ o.name = FileName /\ o.data = fileData
      BY <2>2
    <3>2. Backed(o, stored')
      BY <1>1, <1>4, <3>1 DEF ThisCopy
    <3> QED  BY <1>3, <3>1, <3>2
  <2> QED  BY <2>1, <2>2, OutcomesStep
<1> QED  BY <1>5 DEF SavedIsStored

\* A file reported as sent is stored with the checksum of the bytes the client
\* read, for any number of damaged uploads, edits and a connection lost at any
\* moment, provided at most one response of the server is wrong or comes twice.
\* (With two such responses the model checker finds it violated.)
THEOREM NoFalseSuccess == Spec => [](faults =< 1 => SavedIsStored)
<1>1. Init => SavedInv
  BY DEF Init, SavedInv, SavedIsStored
<1>2. SavedInv <=> (faults =< 1 => SavedIsStored)
  BY DEF SavedInv
<1> QED  BY <1>1, <1>2, SavedStep, OneFaultAlways, PTL DEF Spec

-----------------------------------------------------------------------------
(* The variables of the promise, as FileUpload substitutes them *)

Settled    == [i \in DOMAIN outcomes |-> Entry(outcomes[i])]
CallStatus == IF pc = "done" THEN "returned" ELSE IF pc \in Threw THEN "threw" ELSE "running"

-----------------------------------------------------------------------------
(* The loop of backup_files settles the files in order *)

\* backup_files has told the user about the files before the one it is at.
Counted == Len(outcomes) = idx - 1

LEMMA CountedStep == TypeOK /\ Counted /\ [Next]_vars => Counted'
<1> SUFFICES ASSUME TypeOK, Counted, [Next]_vars PROVE Counted'
  OBVIOUS
<1>1. outcomes \in Seq(Outcome) /\ idx \in Nat
  BY UploadAssumption DEF TypeOK
<1>2. CASE UNCHANGED <<outcomes, idx>>
  BY <1>2 DEF Counted
<1>3. ASSUME NEW result, NEW data, NEW n, Tell(result, data, n) PROVE Counted'
  BY <1>1, <1>3 DEF Tell, Counted
<1>4. CASE Loop
  BY <1>2, <1>3, <1>4 DEF Loop, SkipFile, StartFile, Return
<1>5. CASE Encrypt
  BY <1>2, <1>3, <1>5 DEF Encrypt, OpenFails, ReadFails, FileTooLarge, EncryptFile, Settle
<1>6. CASE Send
  BY <1>2, <1>6 DEF Send, SendFails, SendPacket, SendSuccess, SendFailure, SendError
<1>7. CASE Verify
  BY <1>2, <1>3, <1>7 DEF Verify, ReceiveFails, VerifyRejected, VerifyThrows, VerifyMatches,
                         VerifyMismatches, Settle
<1>8. CASE Ack
  BY <1>2, <1>3, <1>8 DEF Ack, ReadAck, AckThrows, Settle
<1>9. CASE Server \/ Surroundings \/ Over \/ UNCHANGED vars
  BY <1>2, <1>9 DEF Server, ServerTakesPacket, ServerTakesLastPacket, ServerTakesSuccess,
              ServerTakesFailure, ServerTakesError, Surroundings, EditFile, LinkBreaks, Over,
              vars, client
<1> QED  BY <1>4, <1>5, <1>6, <1>7, <1>8, <1>9 DEF Next, Client

LEMMA SettledLength ==
    ASSUME TypeOK, Counted
    PROVE  Settled \in Seq({Entry(outcomes[i]) : i \in DOMAIN outcomes})
           /\ Len(Settled) = idx - 1
<1>1. outcomes \in Seq(Outcome)
  BY DEF TypeOK
<1>2. DOMAIN outcomes = 1 .. Len(outcomes) /\ Len(outcomes) \in Nat
  BY <1>1
<1> QED  BY <1>2 DEF Settled, Counted

\* The files are told about in the order they were selected, and all of them
\* before backup_files returns.
ToldInOrder ==
    /\ \A i \in DOMAIN outcomes :
           i \in DOMAIN SelectedFiles /\ outcomes[i].name = SelectedFiles[i]
    /\ pc = "done" => Len(outcomes) = Len(SelectedFiles)

LEMMA ToldStep == TypeOK /\ TypeOK' /\ Counted /\ ToldInOrder /\ [Next]_vars => ToldInOrder'
<1> SUFFICES ASSUME TypeOK, TypeOK', Counted, ToldInOrder, [Next]_vars PROVE ToldInOrder'
  OBVIOUS
<1>1. /\ outcomes \in Seq(Outcome) /\ idx \in 1 .. Len(SelectedFiles) + 1
      /\ Len(SelectedFiles) \in Nat /\ DOMAIN SelectedFiles = 1 .. Len(SelectedFiles)
  <2>1. outcomes \in Seq(Outcome) /\ idx \in 1 .. Len(SelectedFiles) + 1
    BY DEF TypeOK
  <2>2. SelectedFiles \in Seq(Names)
    BY UploadAssumption
  <2> QED  BY <2>1, <2>2
<1>2. CASE UNCHANGED outcomes /\ (pc' = "done" => pc = "done")
  BY <1>2 DEF ToldInOrder
<1>3. ASSUME NEW result, NEW data, NEW n, Tell(result, data, n) PROVE ToldInOrder'
  <2> DEFINE o == [name |-> FileName, result |-> result, data |-> data, tries |-> n]
  <2>1. outcomes' = Append(outcomes, o) /\ o.name = SelectedFiles[idx] /\ pc' # "done"
        /\ idx' = idx + 1
    BY <1>3 DEF Tell, FileName
  <2> HIDE DEF o
  <2>2. idx = Len(outcomes) + 1 /\ idx \in DOMAIN SelectedFiles
    <3>1. idx' \in 1 .. Len(SelectedFiles) + 1
      BY DEF TypeOK
    <3> QED  BY <1>1, <2>1, <3>1 DEF Counted
  <2>3. ASSUME NEW i \in DOMAIN outcomes'
        PROVE  i \in DOMAIN SelectedFiles /\ outcomes'[i].name = SelectedFiles[i]
    <3>1. CASE i = idx
      BY <1>1, <2>1, <2>2, <3>1
    <3>2. CASE i # idx
      <4>1. i \in DOMAIN outcomes /\ outcomes'[i] = outcomes[i]
        BY <1>1, <2>1, <2>2, <3>2
      <4> QED  BY <4>1 DEF ToldInOrder
    <3> QED  BY <3>1, <3>2
  <2> QED  BY <2>1, <2>3 DEF ToldInOrder
<1>4. CASE Loop
  <2>1. CASE Return
    <3>1. Len(outcomes) = Len(SelectedFiles) /\ UNCHANGED outcomes
      BY <1>1, <2>1 DEF Return, Counted
    <3> QED  BY <3>1 DEF ToldInOrder
  <2> QED  BY <1>2, <1>3, <1>4, <2>1 DEF Loop, SkipFile, StartFile
<1>5. CASE Encrypt
  BY <1>2, <1>3, <1>5 DEF Encrypt, OpenFails, ReadFails, FileTooLarge, EncryptFile, Settle
<1>6. CASE Send
  BY <1>2, <1>6 DEF Send, SendFails, SendPacket, SendSuccess, SendFailure, SendError
<1>7. CASE Verify
  BY <1>2, <1>3, <1>7 DEF Verify, ReceiveFails, VerifyRejected, VerifyThrows, VerifyMatches,
                         VerifyMismatches, Settle
<1>8. CASE Ack
  BY <1>2, <1>3, <1>8 DEF Ack, ReadAck, AckThrows, Settle
<1>9. CASE Server \/ Surroundings \/ Over \/ UNCHANGED vars
  BY <1>2, <1>9 DEF Server, ServerTakesPacket, ServerTakesLastPacket, ServerTakesSuccess,
              ServerTakesFailure, ServerTakesError, Surroundings, EditFile, LinkBreaks, Over,
              vars, client
<1> QED  BY <1>4, <1>5, <1>6, <1>7, <1>8, <1>9 DEF Next, Client

\* Whatever the server answers, and however often it answers wrongly, backup_files
\* tells the user about every selected file, once and in order, before it returns.
THEOREM EveryFileTold == Spec => []ToldInOrder
<1>1. Init => Counted /\ ToldInOrder
  BY DEF Init, Counted, ToldInOrder
<1>2. TypeOK /\ Counted /\ ToldInOrder /\ [Next]_vars /\ TypeOK' => Counted' /\ ToldInOrder'
  BY CountedStep, ToldStep
<1> QED  BY <1>1, <1>2, TypeCorrect, PTL DEF Spec

-----------------------------------------------------------------------------
(* Steps of the promise *)

\* Telling the user about a file is the promise's Settle.
LEMMA TellSettles ==
    ASSUME TypeOK, Counted, idx \in DOMAIN SelectedFiles, pc \notin Ended,
           NEW result \in Results, NEW data \in Contents \cup {Missing}, NEW n,
           Tell(result, data, n), UNCHANGED stored,
           result = "saved" => [name |-> FileName, sum |-> SumOf(data)] \in stored
    PROVE  Promise!Next
<1> DEFINE o == [name |-> FileName, result |-> result, data |-> data, tries |-> n]
<1>1. outcomes \in Seq(Outcome) /\ SelectedFiles \in Seq(Names)
  BY UploadAssumption DEF TypeOK
<1>2. outcomes' = Append(outcomes, o) /\ pc' = "next_file"
  BY DEF Tell
<1>3. Len(Settled) = idx - 1 /\ idx \in 1 .. Len(SelectedFiles)
  BY <1>1, SettledLength
<1>4. Settled' = Append(Settled, Entry(o))
  <2>1. /\ DOMAIN outcomes = 1 .. Len(outcomes) /\ Len(outcomes) \in Nat
        /\ DOMAIN outcomes' = 1 .. Len(outcomes) + 1
        /\ \A i \in 1 .. Len(outcomes) : outcomes'[i] = outcomes[i]
        /\ outcomes'[Len(outcomes) + 1] = o
    BY <1>1, <1>2
  <2>2. Settled' = [i \in 1 .. Len(outcomes) + 1 |-> Entry(outcomes'[i])]
    BY <2>1 DEF Settled
  <2>3. Settled = [i \in 1 .. Len(outcomes) |-> Entry(outcomes[i])]
    BY <2>1 DEF Settled
  <2> HIDE DEF o
  <2> QED  BY <2>1, <2>2, <2>3
<1>5. CallStatus = "running" /\ CallStatus' = "running"
  BY <1>2 DEF CallStatus, Ended, Threw
<1>6. Entry(o) = [name |-> FileName, result |-> result, sum |-> SumOf(data)]
  BY DEF Entry
<1>7. SumOf(data) \in Sums
  BY UploadAssumption DEF SumOf
<1>8. SelectedFiles[Len(Settled) + 1] = FileName /\ Len(Settled) < Len(SelectedFiles)
  BY <1>3 DEF FileName
<1>9. Promise!Settle(result, SumOf(data))
  BY <1>4, <1>5, <1>6, <1>8 DEF Promise!Settle, Promise!Pending, Promise!Current, Settled, CallStatus
<1> QED  BY <1>7, <1>9 DEF Promise!Next, Promise!Results, Results

\* A step that tells nothing and confirms nothing leaves the promise alone, unless
\* it ends the call with an exception.
LEMMA QuietPromise ==
    ASSUME pc \notin Ended, UNCHANGED <<outcomes, stored>>, pc' # "done"
    PROVE  Promise!Next \/ UNCHANGED <<stored, Settled, CallStatus>>
<1>1. Settled' = Settled
  BY DEF Settled
<1>2. CallStatus = "running"
  BY DEF CallStatus, Ended
<1>3. CASE pc' \in Threw
  <2>1. CallStatus' = "threw"
    BY <1>3 DEF CallStatus, Threw
  <2> QED  BY <1>1, <1>2, <2>1 DEF Promise!Next, Promise!Throw, Settled, CallStatus
<1>4. CASE pc' \notin Threw
  BY <1>1, <1>2, <1>4 DEF CallStatus
<1> QED  BY <1>3, <1>4

LEMMA PromiseLoop ==
    ASSUME TypeOK, Counted, Loop
    PROVE  Promise!Next \/ UNCHANGED <<stored, Settled, CallStatus>>
<1>1. CASE SkipFile
  <2>1. idx \in DOMAIN SelectedFiles
    BY <1>1, UploadAssumption DEF SkipFile, TypeOK
  <2>2. Tell("skipped", Missing, 0) /\ UNCHANGED stored /\ pc \notin Ended
    BY <1>1 DEF SkipFile, server, Ended, Threw
  <2> QED  BY <2>1, <2>2, TellSettles DEF Results
<1>2. CASE StartFile
  BY <1>2, QuietPromise DEF StartFile, server, Ended, Threw
<1>3. CASE Return
  <2>1. Len(Settled) = idx - 1 /\ idx > Len(SelectedFiles) /\ idx \in Int /\ Len(SelectedFiles) \in Int
    BY <1>3, SettledLength, UploadAssumption DEF Return, TypeOK
  <2>2. ~(Len(Settled) < Len(SelectedFiles))
    BY <2>1
  <2>3. CallStatus = "running" /\ CallStatus' = "returned" /\ Settled' = Settled /\ UNCHANGED stored
    BY <1>3 DEF Return, server, CallStatus, Threw, Settled
  <2> QED  BY <2>2, <2>3 DEF Promise!Next, Promise!Return, Promise!Pending, Settled, CallStatus
<1> QED  BY <1>1, <1>2, <1>3 DEF Loop

LEMMA PromiseEncrypt ==
    ASSUME TypeOK, Counted, Encrypt
    PROVE  Promise!Next \/ UNCHANGED <<stored, Settled, CallStatus>>
<1>1. /\ pc \notin Ended /\ pc # "next_file" /\ UNCHANGED stored
  BY DEF Encrypt, OpenFails, ReadFails, FileTooLarge, EncryptFile, server, Ended, Threw
<1>2. CASE FileTooLarge
  <2>1. Tell("too_large", fileData, tries) /\ idx \in DOMAIN SelectedFiles
        /\ fileData \in Contents \cup {Missing}
    BY <1>1, <1>2 DEF FileTooLarge, Settle, TypeOK
  <2> QED  BY <1>1, <2>1, TellSettles DEF Results
<1>3. CASE OpenFails \/ ReadFails \/ EncryptFile
  BY <1>1, <1>3, QuietPromise DEF OpenFails, ReadFails, EncryptFile
<1> QED  BY <1>2, <1>3 DEF Encrypt

LEMMA PromiseSend ==
    ASSUME Send
    PROVE  Promise!Next \/ UNCHANGED <<stored, Settled, CallStatus>>
<1>1. /\ pc \notin Ended /\ UNCHANGED <<outcomes, stored>> /\ pc' # "done"
  BY DEF Send, SendFails, SendPacket, SendSuccess, SendFailure, SendError, server, Sending,
         Ended, Threw
<1> QED  BY <1>1, QuietPromise

LEMMA PromiseVerify ==
    ASSUME TypeOK, Counted, Verify
    PROVE  Promise!Next \/ UNCHANGED <<stored, Settled, CallStatus>>
<1>1. /\ pc \notin Ended /\ pc # "next_file" /\ UNCHANGED stored
  BY DEF Verify, ReceiveFails, VerifyRejected, VerifyThrows, VerifyMatches, VerifyMismatches,
         server, Receiving, Ended, Threw
<1>2. CASE VerifyRejected
  <2>1. Tell("rejected", fileData, tries) /\ idx \in DOMAIN SelectedFiles
        /\ fileData \in Contents \cup {Missing}
    BY <1>1, <1>2 DEF VerifyRejected, Settle, TypeOK
  <2> QED  BY <1>1, <2>1, TellSettles DEF Results
<1>3. CASE ReceiveFails \/ VerifyThrows \/ VerifyMatches \/ VerifyMismatches
  BY <1>1, <1>3, QuietPromise DEF ReceiveFails, VerifyThrows, VerifyMatches, VerifyMismatches
<1> QED  BY <1>2, <1>3 DEF Verify

\* A success is told only after the server confirmed this copy.
LEMMA PromiseAck ==
    ASSUME TypeOK, InStep, OneFaultInv, Counted, faults =< 1, Ack
    PROVE  Promise!Next \/ UNCHANGED <<stored, Settled, CallStatus>>
<1>1. /\ pc \notin Ended /\ pc # "next_file" /\ UNCHANGED stored /\ pc \in Receiving
      /\ toClient # <<>>
  BY DEF Ack, ReadAck, AckThrows, Receive, server, Receiving, Ended, Threw
<1>2. CASE ReadAck
  <2> DEFINE result == IF pc = "ack_success" THEN "saved" ELSE "gave_up"
  <2>1. Tell(result, fileData, tries) /\ idx \in DOMAIN SelectedFiles
        /\ fileData \in Contents /\ result \in Results
    BY <1>1, <1>2 DEF ReadAck, Settle, TypeOK, Results
  <2>2. result = "saved" => [name |-> FileName, sum |-> SumOf(fileData)] \in stored
    <3>1. SUFFICES ASSUME pc = "ack_success"
                   PROVE  [name |-> FileName, sum |-> SumOf(fileData)] \in stored
      OBVIOUS
    <3>2. ThisCopy \in stored
      BY <1>2, <3>1, ReadAckStored
    <3>3. SumOf(fileData) = Crc[fileData]
      BY <2>1, UploadAssumption DEF SumOf
    <3> QED  BY <3>2, <3>3 DEF ThisCopy
  <2> HIDE DEF result
  <2> QED  BY <1>1, <2>1, <2>2, TellSettles
<1>3. CASE AckThrows
  BY <1>1, <1>3, QuietPromise DEF AckThrows
<1> QED  BY <1>2, <1>3 DEF Ack

\* The server keeps one upload at a time.
OneReceived == \A c, d \in received : c = d

LEMMA OneReceivedStep == OneReceived /\ [Next]_vars => OneReceived'
<1> SUFFICES ASSUME OneReceived, [Next]_vars PROVE OneReceived'
  OBVIOUS
<1>1. CASE UNCHANGED received
  BY <1>1 DEF OneReceived
<1>2. CASE received' = {} \/ \E c : received' = {c}
  BY <1>2 DEF OneReceived
<1>3. CASE Client \/ Surroundings \/ Over \/ UNCHANGED vars
  BY <1>1, <1>3 DEF Client, Loop, SkipFile, StartFile, Return, Encrypt, OpenFails, ReadFails,
              FileTooLarge, EncryptFile, Send, SendFails, SendPacket, SendSuccess, SendFailure,
              SendError, Verify, ReceiveFails, VerifyRejected, VerifyThrows, VerifyMatches,
              VerifyMismatches, Ack, ReadAck, AckThrows, Surroundings, EditFile, LinkBreaks, Over,
              vars, server
<1>4. CASE Server
  BY <1>1, <1>2, <1>4 DEF Server, ServerTakesPacket, ServerTakesLastPacket, ServerTakesSuccess,
                          ServerTakesFailure, ServerTakesError
<1> QED  BY <1>3, <1>4 DEF Next

\* What the server confirms is a copy of the file the client is at, or was at
\* when it threw.
LEMMA PromiseServer ==
    ASSUME TypeOK, OneFaultInv, Counted, OneReceived, faults =< 1, Server
    PROVE  Promise!Next \/ UNCHANGED <<stored, Settled, CallStatus>>
<1>1. UNCHANGED <<Settled, CallStatus>>
  BY DEF Server, ServerTakesPacket, ServerTakesLastPacket, ServerTakesSuccess,
         ServerTakesFailure, ServerTakesError, client, Settled, CallStatus
<1>2. CASE ServerTakesSuccess
  <2>1. toServer # <<>> /\ Head(toServer) = toServer[1] /\ toServer[1].code = "CRC_SUCCESS"
        /\ link = "up" /\ Len(toServer) \in Nat \ {0}
    BY <1>2, TakeShifts DEF ServerTakesSuccess, Take
  <2>2. pc \in {"ack_success", "failed_server"} /\ Len(toServer) = 1
    BY <2>1 DEF OneFaultInv, ConfirmLast
  <2>3. OursComesLast /\ idx \in DOMAIN SelectedFiles
    BY <2>1, <2>2 DEF OneFaultInv, Uploaded, Receiving, TypeOK, Ended, Threw
  <2>4. Unanswered = {}
    BY <2>1, <2>2 DEF Unanswered, IsLast
  <2>5. \A c \in received : c.name = FileName /\ c \in Copy
    BY <2>3, <2>4 DEF OursComesLast, TypeOK
  <2>6. Len(Settled) = idx - 1 /\ idx \in 1 .. Len(SelectedFiles) /\ Len(SelectedFiles) \in Nat
    BY <2>3, SettledLength, UploadAssumption
  <2>7. SelectedFiles[Len(Settled) + 1] = FileName /\ Len(Settled) < Len(SelectedFiles)
    BY <2>6 DEF FileName
  <2>8. CASE received = {}
    BY <1>1, <1>2, <2>8 DEF ServerTakesSuccess
  <2>9. CASE received # {}
    <3>1. PICK c \in received : received = {c}
      BY <2>9 DEF OneReceived
    <3>2. c.name = FileName /\ c \in Promise!Copy
      BY <2>3, <2>5 DEF Promise!Copy, Copy, FileName
    <3>3. stored' = stored \cup {c}
      BY <1>2, <3>1 DEF ServerTakesSuccess
    <3>4. Promise!Confirm(c)
      BY <1>1, <2>7, <3>2, <3>3 DEF Promise!Confirm, Promise!Pending, Promise!Current, Settled,
                                    CallStatus
    <3> QED  BY <3>2, <3>4 DEF Promise!Next
  <2> QED  BY <2>8, <2>9
<1>3. CASE ~ServerTakesSuccess
  <2>1. UNCHANGED stored
    BY <1>3 DEF Server, ServerTakesPacket, ServerTakesLastPacket, ServerTakesFailure,
                ServerTakesError
  <2> QED  BY <1>1, <2>1
<1> QED  BY <1>2, <1>3

LEMMA PromiseStep ==
    ASSUME TypeOK, InStep, OneFaultInv, Counted, OneReceived, faults =< 1, [Next]_vars
    PROVE  Promise!Next \/ UNCHANGED <<stored, Settled, CallStatus>>
<1>1. CASE Client
  BY <1>1, PromiseLoop, PromiseEncrypt, PromiseSend, PromiseVerify, PromiseAck DEF Client
<1>2. CASE Server
  BY <1>2, PromiseServer
<1>3. CASE Surroundings \/ Over \/ UNCHANGED vars
  BY <1>3 DEF Surroundings, EditFile, LinkBreaks, Over, vars, server, Settled, CallStatus
<1> QED  BY <1>1, <1>2, <1>3 DEF Next

\* backup_files keeps its promise for any files, any number of edits, damaged
\* uploads and retries, and a connection lost at any moment, as long as at most one
\* response is wrong or comes twice: the files are settled in order, each once; a
\* success is told only of what the server confirmed; and the call returns only
\* when all of them are settled.
THEOREM UploadKeepsPromise == Spec /\ [](faults =< 1) => KeepsPromise
<1>1. Init => Promise!Init /\ Counted /\ OneReceived
  <2> SUFFICES ASSUME Init PROVE Promise!Init /\ Counted /\ OneReceived
    OBVIOUS
  <2>1. outcomes = <<>> /\ stored = {} /\ received = {} /\ pc = "next_file" /\ idx = 1
    BY DEF Init
  <2>2. [i \in DOMAIN outcomes |-> Entry(outcomes[i])] = <<>>
    BY <2>1
  <2> QED  BY <2>1, <2>2 DEF Promise!Init, Counted, OneReceived, Threw
<1>2. TypeOK /\ InStep /\ OneFaultInv /\ Counted /\ OneReceived /\ faults =< 1 /\ [Next]_vars
          => [Promise!Next]_(Promise!pvars)
  BY PromiseStep DEF Promise!pvars, Settled, CallStatus
<1> QED
  BY <1>1, <1>2, CountedStep, OneReceivedStep, OneFaultAlways, PTL
     DEF Spec, KeepsPromise, Promise!Spec
=============================================================================

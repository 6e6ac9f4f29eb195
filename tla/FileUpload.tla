----------------------------- MODULE FileUpload -----------------------------
(***************************************************************************)
(* FileAuthentication: the upload of the selected files over one TCP       *)
(* connection. The client is one thread, so each action is the code from   *)
(* one blocking call, or one access to the disk, to the next. Around it    *)
(* run an external server that reassembles and checks uploads, a user who  *)
(* edits the files meanwhile, and a link that may break.                   *)
(*                                                                         *)
(* File bytes are members of Contents; SizeOf and Crc give the length and  *)
(* the checksum of each. `iv' numbers the calls of AESWrapper::encrypt: it *)
(* stands for the random IV, which makes every ciphertext a new one.       *)
(***************************************************************************)
EXTENDS Chunking, Sequences

CONSTANTS
    Names,          \* file names
    ValidNames,     \* those that is_valid_filename accepts
    SelectedFiles,  \* the `files' argument of backup_files, a sequence
    Contents,       \* what a file can hold
    SizeOf,         \* its length in bytes
    Crc,            \* its calculate_crc32
    Missing,        \* stands for no file, and for an empty file_data
    Sums,           \* checksums
    BadSum,         \* the checksum of bytes that are no file's
    Uids, Me,       \* user ids, and the one in me.info
    ServerLimit,    \* the server rejects larger files
    ServerReports,  \* what the server answers as encrypted size: see ReportedSize
    CrcTrialsCount, \* CRC_TRIALS_COUNT
    MaxEdits,       \* bound: edits of files during the backup
    MaxDamages,     \* bound: uploads the server fails to reassemble
    MaxFaults       \* bound: wrong or repeated responses

ASSUME UploadAssumption ==
    /\ ValidNames \subseteq Names
    /\ SelectedFiles \in Seq(Names)
    /\ SizeOf \in [Contents -> Nat]
    /\ Crc \in [Contents -> Sums]
    /\ Missing \notin Contents
    /\ BadSum \in Sums /\ \A d \in Contents : Crc[d] # BadSum
    /\ Me \in Uids
    /\ ServerLimit \in Nat
    /\ ServerReports \in {"last_chunk", "total"}
    /\ CrcTrialsCount \in Nat \ {0}
    /\ {MaxEdits, MaxDamages, MaxFaults} \subseteq Nat

VARIABLES
    pc,                 \* where the client is
    idx,                \* the loop of backup_files: the file it is at
    crcFailures,        \* crc_failures of backup_file
    fileData,           \* file_data of backup_file
    crcError,           \* crc_error_
    encryptedFileSize,  \* encrypted_file_size_
    packet,             \* packet of send_encrypted_file_request
    iv,                 \* encryptions so far
    tries,              \* history: encryptions of the current file
    outcomes,           \* history: what the user was told, file by file
    disk,               \* the directory being backed up: files with valid names
    edits,              \* edits so far
    link,               \* "up" or "down"
    toServer, toClient, \* what TCP still has to deliver, each way
    upload,             \* server: the packets since the last packet number 1
    received,           \* server: the upload it reassembled, if any: a set
    stored,             \* server: the uploads the client confirmed
    damages,            \* server: uploads it failed to reassemble so far
    faults              \* server: wrong or repeated responses so far

locals  == <<crcFailures, fileData, crcError, encryptedFileSize, packet, iv, tries>>
fileEnv == <<disk, edits>>
client  == <<pc, idx, locals, outcomes>>
server  == <<upload, received, stored, damages, faults>>
vars    == <<pc, idx, locals, outcomes, fileEnv, link, toServer, toClient, server>>

Sending   == {"send", "send_success", "send_failure", "send_error"}
Receiving == {"verify", "ack_success", "ack_failure"}
Threw     == {"failed_open", "failed_read", "failed_link", "failed_server"}
Ended     == Threw \cup {"done"}
Labels    == {"next_file", "encrypt"} \cup Sending \cup Receiving \cup Ended

StatusCodes == {"CRC_SUCCESS", "CRC_ERROR", "CRC_FAILURE"}
ReplyCodes  == {"UPLOAD_RECEIVED", "UPLOAD_REJECTED_TOO_LARGE", "ACK", "FAILED"}

PacketRequest ==
    [code : {"CREATE_BACKUP"}, name : Names, iv : Nat, data : Contents,
     num : Nat, total : Nat, len : Int]
StatusRequest == [code : StatusCodes, name : Names]
Request       == PacketRequest \cup StatusRequest

\* The field iv is history: the encryption that the server was answering.
Reply == [code : ReplyCodes, uid : Uids, sum : Sums, size : Int, iv : Nat]

Results == {"skipped", "too_large", "rejected", "saved", "gave_up"}
Outcome == [name : Names, result : Results, data : Contents \cup {Missing}, tries : Nat]

Copy == [name : Names, sum : Sums]

FileName == SelectedFiles[idx]
Total    == TotalPackets(SizeOf[fileData])

Init ==
    /\ pc = "next_file" /\ idx = 1
    /\ crcFailures = 0 /\ fileData = Missing
    /\ crcError = FALSE /\ encryptedFileSize = 0
    /\ packet = 1 /\ iv = 0 /\ tries = 0
    /\ outcomes = <<>>
    /\ disk \in [Names -> Contents \cup {Missing}] /\ edits = 0
    /\ \A n \in Names \ ValidNames : disk[n] = Missing
    /\ link = "up" /\ toServer = <<>> /\ toClient = <<>>
    /\ upload = <<>> /\ received = {} /\ stored = {}
    /\ damages = 0 /\ faults = 0

-----------------------------------------------------------------------------
(* backup_files: the loop over the selected files *)

\* The current file is settled, by a `continue', a printed result or a caught
\* ClientException; the loop goes on.
Tell(result, data, n) ==
    /\ outcomes' = Append(outcomes, [name |-> FileName, result |-> result,
                                     data |-> data, tries |-> n])
    /\ idx' = idx + 1
    /\ pc' = "next_file"

Settle(result) == Tell(result, fileData, tries)

SkipFile ==
    /\ pc = "next_file" /\ idx =< Len(SelectedFiles)
    /\ FileName \notin ValidNames \/ disk[FileName] = Missing
    /\ Tell("skipped", Missing, 0)
    /\ UNCHANGED <<locals, fileEnv, link, toServer, toClient, server>>

\* fault variant: one counter for the whole run instead of one a file
FirstFailureCount_Kept == crcFailures

\* std::size_t crc_failures = 0;
FirstFailureCount == 0

\* fs::exists found the file. Its bytes are not read before EncryptFile.
StartFile ==
    /\ pc = "next_file" /\ idx =< Len(SelectedFiles)
    /\ FileName \in ValidNames /\ disk[FileName] # Missing
    /\ pc' = "encrypt"
    /\ crcFailures' = FirstFailureCount
    /\ fileData' = Missing
    /\ tries' = 0
    /\ UNCHANGED <<idx, crcError, encryptedFileSize, packet, iv, outcomes, fileEnv,
                   link, toServer, toClient, server>>

\* The loop is over and backup_files returns.
Return ==
    /\ pc = "next_file" /\ idx > Len(SelectedFiles)
    /\ pc' = "done"
    /\ UNCHANGED <<idx, locals, outcomes, fileEnv, link, toServer, toClient, server>>

-----------------------------------------------------------------------------
(* encrypt_file: at the start of every attempt the file is read again *)

\* The file is gone since fs::exists, or since the last attempt: TracedException.
OpenFails ==
    /\ pc = "encrypt" /\ disk[FileName] = Missing
    /\ pc' = "failed_open"
    /\ UNCHANGED <<idx, locals, outcomes, fileEnv, link, toServer, toClient, server>>

\* tellg, the read, load_aes_key or the AESWrapper constructor throws.
ReadFails ==
    /\ pc = "encrypt" /\ disk[FileName] # Missing
    /\ pc' = "failed_read"
    /\ UNCHANGED <<idx, locals, outcomes, fileEnv, link, toServer, toClient, server>>

\* ClientException, caught by backup_files.
FileTooLarge ==
    /\ pc = "encrypt" /\ disk[FileName] # Missing
    /\ SizeOf[disk[FileName]] > MaxFileSize
    /\ Settle("too_large")
    /\ UNCHANGED <<locals, fileEnv, link, toServer, toClient, server>>

\* fault variant: the buffer is not filled
BytesRead_None == fileData

\* file_stream.read into file_data
BytesRead == disk[FileName]

EncryptFile ==
    /\ pc = "encrypt" /\ disk[FileName] # Missing
    /\ SizeOf[disk[FileName]] =< MaxFileSize
    /\ fileData' = BytesRead
    /\ iv' = iv + 1
    /\ tries' = tries + 1
    /\ packet' = 1
    /\ pc' = "send"
    /\ UNCHANGED <<idx, crcFailures, crcError, encryptedFileSize, outcomes, fileEnv,
                   link, toServer, toClient, server>>

-----------------------------------------------------------------------------
(* Sending: send_encrypted_file_request and send_crc_status_request *)

\* A write to a connection the peer has left can still succeed: it is lost.
Transmit(m) == toServer' = IF link = "up" THEN Append(toServer, m) ELSE toServer

\* The write fails with boost::system::system_error.
SendFails ==
    /\ pc \in Sending /\ link = "down"
    /\ pc' = "failed_link"
    /\ UNCHANGED <<idx, locals, outcomes, fileEnv, link, toServer, toClient, server>>

PacketOf(p) ==
    [code |-> "CREATE_BACKUP", name |-> FileName, iv |-> iv, data |-> fileData,
     num |-> p % PacketField,
     total |-> TotalPacketsField(SizeOf[fileData]),
     len |-> ChunkLength(SizeOf[fileData], p)]

\* fault variant: the length of the first chunk
SizeSent_First == ChunkLength(SizeOf[fileData], 1)

\* encrypted_file_size_ = request.get_payload().get_encrypted_file_size(): the
\* request still holds the last packet.
SizeSent == ChunkLength(SizeOf[fileData], packet)

SendPacket ==
    /\ pc = "send" /\ packet =< Total
    /\ Transmit(PacketOf(packet))
    /\ packet' = packet + 1
    /\ IF packet = Total
       THEN pc' = "verify" /\ encryptedFileSize' = SizeSent
       ELSE UNCHANGED <<pc, encryptedFileSize>>
    /\ UNCHANGED <<idx, crcFailures, fileData, crcError, iv, tries, outcomes, fileEnv,
                   link, toClient, server>>

Status(code) == [code |-> code, name |-> FileName]

SendSuccess ==
    /\ pc = "send_success"
    /\ Transmit(Status("CRC_SUCCESS"))
    /\ pc' = "ack_success"
    /\ UNCHANGED <<idx, locals, outcomes, fileEnv, link, toClient, server>>

\* fault variant: gives up without reading the acknowledgement
SendFailure_NoAck ==
    /\ pc = "send_failure"
    /\ Transmit(Status("CRC_FAILURE"))
    /\ Settle("gave_up")
    /\ UNCHANGED <<locals, fileEnv, link, toClient, server>>

SendFailure ==
    /\ pc = "send_failure"
    /\ Transmit(Status("CRC_FAILURE"))
    /\ pc' = "ack_failure"
    /\ UNCHANGED <<idx, locals, outcomes, fileEnv, link, toClient, server>>

\* fault variant: waits for an acknowledgement of the retry request
SendError_AwaitAck ==
    /\ pc = "send_error"
    /\ Transmit(Status("CRC_ERROR"))
    /\ pc' = "ack_failure"
    /\ UNCHANGED <<idx, locals, outcomes, fileEnv, link, toClient, server>>

\* No response is read for CRC_ERROR: the next attempt starts at once.
SendError ==
    /\ pc = "send_error"
    /\ Transmit(Status("CRC_ERROR"))
    /\ pc' = "encrypt"
    /\ UNCHANGED <<idx, locals, outcomes, fileEnv, link, toClient, server>>

-----------------------------------------------------------------------------
(* verify_upload_crc_response *)

\* receive_response takes the next response off the connection, whichever
\* request it answers.
Answer == Head(toClient)

Receive ==
    /\ toClient # <<>>
    /\ toClient' = Tail(toClient)

\* The read fails: the connection is gone and nothing more will arrive.
ReceiveFails ==
    /\ pc \in Receiving /\ link = "down" /\ toClient = <<>>
    /\ pc' = "failed_link"
    /\ UNCHANGED <<idx, locals, outcomes, fileEnv, link, toServer, toClient, server>>

\* fault variant: the checksum is of the file as it is on the disk by now
LocalChecksum_FromDisk ==
    IF disk[FileName] = Missing THEN BadSum ELSE Crc[disk[FileName]]

\* calculate_crc32 of the bytes this attempt read.
LocalChecksum == Crc[fileData]

\* fault variant: compares the sizes only
Mismatch_SizeOnly(r) == r.size # encryptedFileSize

\* checksum_mismatch || encrypted_size_mismatch
Mismatch(r) == r.sum # LocalChecksum \/ r.size # encryptedFileSize

GoodVerdict(r) == r.code = "UPLOAD_RECEIVED" /\ r.uid = Me

\* fault variant: the `try' is around the loop of backup_files, which is over
VerifyRejected_EndsLoop ==
    /\ pc = "verify"
    /\ Receive /\ Answer.code = "UPLOAD_REJECTED_TOO_LARGE"
    /\ pc' = "done"
    /\ UNCHANGED <<idx, locals, outcomes, fileEnv, link, toServer, server>>

\* UPLOAD_REJECTED_TOO_LARGE is a ClientException, whoever it is addressed to.
VerifyRejected ==
    /\ pc = "verify"
    /\ Receive /\ Answer.code = "UPLOAD_REJECTED_TOO_LARGE"
    /\ Settle("rejected")
    /\ UNCHANGED <<locals, fileEnv, link, toServer, server>>

VerifyThrows ==
    /\ pc = "verify"
    /\ Receive
    /\ Answer.code # "UPLOAD_REJECTED_TOO_LARGE" /\ ~GoodVerdict(Answer)
    /\ pc' = "failed_server"
    /\ UNCHANGED <<idx, locals, outcomes, fileEnv, link, toServer, server>>

VerifyMatches ==
    /\ pc = "verify"
    /\ Receive /\ GoodVerdict(Answer) /\ ~Mismatch(Answer)
    /\ crcError' = FALSE
    /\ pc' = "send_success"
    /\ UNCHANGED <<idx, crcFailures, fileData, encryptedFileSize, packet, iv, tries,
                   outcomes, fileEnv, link, toServer, server>>

\* fault variant: the mismatch is not counted
VerifyMismatches_NotCounted ==
    /\ pc = "verify"
    /\ Receive /\ GoodVerdict(Answer) /\ Mismatch(Answer)
    /\ crcError' = TRUE
    /\ pc' = "send_error"
    /\ UNCHANGED <<idx, crcFailures, fileData, encryptedFileSize, packet, iv, tries,
                   outcomes, fileEnv, link, toServer, server>>

\* ++crc_failures, and the choice between CRC_ERROR and CRC_FAILURE.
VerifyMismatches ==
    /\ pc = "verify"
    /\ Receive /\ GoodVerdict(Answer) /\ Mismatch(Answer)
    /\ crcError' = TRUE
    /\ crcFailures' = crcFailures + 1
    /\ pc' = IF crcFailures + 1 = CrcTrialsCount THEN "send_failure" ELSE "send_error"
    /\ UNCHANGED <<idx, fileData, encryptedFileSize, packet, iv, tries, outcomes, fileEnv,
                   link, toServer, server>>

-----------------------------------------------------------------------------
(* process_srv_ack_response *)

GoodAck(r) == r.code = "ACK" /\ r.uid = Me

ReadAck ==
    /\ pc \in {"ack_success", "ack_failure"}
    /\ Receive /\ GoodAck(Answer)
    /\ Settle(IF pc = "ack_success" THEN "saved" ELSE "gave_up")
    /\ UNCHANGED <<locals, fileEnv, link, toServer, server>>

AckThrows ==
    /\ pc \in {"ack_success", "ack_failure"}
    /\ Receive /\ ~GoodAck(Answer)
    /\ pc' = "failed_server"
    /\ UNCHANGED <<idx, locals, outcomes, fileEnv, link, toServer, server>>

-----------------------------------------------------------------------------
(* The server: external, known by what the client expects of it *)

\* What a request makes the server answer; the history field iv says which
\* encryption it was answering.
Verdict(c, v, size) ==
    [code |-> "UPLOAD_RECEIVED", uid |-> Me, sum |-> c.sum, size |-> size, iv |-> v]
Plain(code, v) == [code |-> code, uid |-> Me, sum |-> BadSum, size |-> 0, iv |-> v]

\* Responses no correct server would give here: a failure, or an answer to
\* somebody else or to another kind of request.
WrongReplies ==
    {[Plain(code, 0) EXCEPT !.uid = u] : code \in ReplyCodes, u \in Uids}

\* The answer r is sent; or another one instead; or r twice.
Answers(r) ==
    \/ toClient' = Append(toClient, r) /\ UNCHANGED faults
    \/ /\ faults < MaxFaults
       /\ faults' = faults + 1
       /\ \/ \E w \in WrongReplies : toClient' = Append(toClient, w)
          \/ toClient' = Append(Append(toClient, r), r)

\* Packet number 1 starts an upload, any other is added to it.
Assembled(m) == IF m.num = 1 THEN <<m>> ELSE Append(upload, m)

\* The packets are those of one encryption, all of them, in order, and reach
\* the end of its ciphertext.
Intact(u) ==
    LET n == Len(u)
    IN  /\ \A i \in 1 .. n : u[i].num = i /\ u[i].iv = u[1].iv /\ u[i].total = n
        /\ StartOffset(SizeOf[u[n].data], n) + u[n].len = EncryptedSize(SizeOf[u[n].data])

\* The encrypted size in the response: that of the last packet, which is what
\* the client compares with, or that of the whole file, as response.cpp says.
ReportedSize(m) ==
    IF ServerReports = "total" THEN EncryptedSize(SizeOf[m.data]) ELSE m.len

\* The encryption whose packets came last.
LastIv == IF upload = <<>> THEN 0 ELSE upload[Len(upload)].iv

Take(codes) ==
    /\ link = "up"
    /\ toServer # <<>> /\ Head(toServer).code \in codes
    /\ toServer' = Tail(toServer)

ServerTakesPacket ==
    LET m == Head(toServer)
    IN  /\ Take({"CREATE_BACKUP"}) /\ m.num # m.total
        /\ upload' = Assembled(m)
        /\ UNCHANGED <<client, fileEnv, link, received, stored, damages, faults, toClient>>

\* The last packet: the server decrypts what it has and answers with the
\* checksum, unless the file is above its own limit. The bytes it ended up
\* with can be wrong.
ServerTakesLastPacket ==
    LET m == Head(toServer)
        copy(sum) == [name |-> m.name, sum |-> sum]
        sound == IF Intact(Assembled(m)) THEN Crc[m.data] ELSE BadSum
    IN  /\ Take({"CREATE_BACKUP"}) /\ m.num = m.total
        /\ upload' = Assembled(m)
        /\ \/ /\ SizeOf[m.data] > ServerLimit
              /\ received' = {}
              /\ Answers(Plain("UPLOAD_REJECTED_TOO_LARGE", m.iv))
              /\ UNCHANGED damages
           \/ /\ SizeOf[m.data] =< ServerLimit
              /\ received' = {copy(sound)}
              /\ Answers(Verdict(copy(sound), m.iv, ReportedSize(m)))
              /\ UNCHANGED damages
           \/ /\ SizeOf[m.data] =< ServerLimit
              /\ damages < MaxDamages /\ damages' = damages + 1
              /\ received' = {copy(BadSum)}
              /\ Answers(Verdict(copy(BadSum), m.iv, ReportedSize(m)))
        /\ UNCHANGED <<client, fileEnv, link, stored>>

\* CRC_SUCCESS confirms the upload, CRC_FAILURE drops it; both are answered.
ServerTakesSuccess ==
    /\ Take({"CRC_SUCCESS"})
    /\ stored' = stored \cup received
    /\ received' = {}
    /\ Answers(Plain(IF received = {} THEN "FAILED" ELSE "ACK", LastIv))
    /\ UNCHANGED <<client, fileEnv, link, upload, damages>>

ServerTakesFailure ==
    /\ Take({"CRC_FAILURE"})
    /\ received' = {}
    /\ Answers(Plain("ACK", LastIv))
    /\ UNCHANGED <<client, fileEnv, link, upload, stored, damages>>

\* CRC_ERROR drops it too, and is not answered.
ServerTakesError ==
    /\ Take({"CRC_ERROR"})
    /\ received' = {}
    /\ UNCHANGED <<client, fileEnv, link, upload, stored, damages, faults, toClient>>

-----------------------------------------------------------------------------
(* The surroundings *)

\* The user changes, creates or deletes a file while the backup runs.
EditFile ==
    /\ edits < MaxEdits /\ pc \notin Ended
    /\ edits' = edits + 1
    /\ \E f \in ValidNames, d \in Contents \cup {Missing} :
           disk' = [disk EXCEPT ![f] = d]
    /\ UNCHANGED <<pc, idx, locals, outcomes, link, toServer, toClient, server>>

\* The connection is lost, with all that it had not delivered yet.
LinkBreaks ==
    /\ link = "up" /\ pc \notin Ended
    /\ link' = "down"
    /\ toServer' = <<>> /\ toClient' = <<>>
    /\ UNCHANGED <<pc, idx, locals, outcomes, fileEnv, server>>

-----------------------------------------------------------------------------
Loop    == SkipFile \/ StartFile \/ Return
Encrypt == OpenFails \/ ReadFails \/ FileTooLarge \/ EncryptFile
Send    == SendFails \/ SendPacket \/ SendSuccess \/ SendFailure \/ SendError
Verify  == ReceiveFails \/ VerifyRejected \/ VerifyThrows \/ VerifyMatches \/ VerifyMismatches
Ack     == ReadAck \/ AckThrows
Client  == Loop \/ Encrypt \/ Send \/ Verify \/ Ack

Server == \/ ServerTakesPacket \/ ServerTakesLastPacket
          \/ ServerTakesSuccess \/ ServerTakesFailure \/ ServerTakesError

Surroundings == EditFile \/ LinkBreaks

\* backup_files is over: nothing has to happen any more.
Over == pc \in Ended /\ UNCHANGED vars

Next == Client \/ Server \/ Surroundings \/ Over

Spec == Init /\ [][Next]_vars

\* The client thread runs on, and so does the server. Nobody has to edit a
\* file and the connection does not have to break.
FairSpec == Spec /\ WF_vars(Client) /\ WF_vars(Server)

-----------------------------------------------------------------------------
(* Properties *)

\* The type invariant.
TypeOK ==
    /\ pc \in Labels
    /\ idx \in 1 .. Len(SelectedFiles) + 1
    /\ pc \notin Ended \cup {"next_file"} => idx \in DOMAIN SelectedFiles
    /\ crcFailures \in Nat
    /\ fileData \in Contents \cup {Missing}
    /\ pc \in Sending \cup Receiving => fileData \in Contents
    /\ crcError \in BOOLEAN
    /\ encryptedFileSize \in Int
    /\ packet \in Nat \ {0} /\ iv \in Nat /\ tries \in Nat
    /\ outcomes \in Seq(Outcome)
    /\ disk \in [Names -> Contents \cup {Missing}] /\ edits \in Nat
    /\ link \in {"up", "down"}
    /\ toServer \in Seq(Request) /\ toClient \in Seq(Reply)
    /\ upload \in Seq(PacketRequest)
    /\ received \in SUBSET Copy /\ stored \in SUBSET Copy
    /\ damages \in Nat /\ faults \in Nat

\* A file reported as "sent successfully" is on the server, with the checksum
\* of the bytes that the last attempt read: no stale, duplicated or misdirected
\* response makes backup_file report a success that did not happen.
SavedIsStored ==
    \A i \in DOMAIN outcomes :
        LET o == outcomes[i]
        IN  o.result = "saved" => [name |-> o.name, sum |-> Crc[o.data]] \in stored

\* backup_file uploads a file CRC_TRIALS_COUNT times at most, and gives up
\* only after exactly that many mismatches of this very file.
RetryBudget ==
    /\ \A i \in DOMAIN outcomes :
           LET o == outcomes[i]
           IN  /\ o.tries =< CrcTrialsCount
               /\ o.result = "gave_up" => o.tries = CrcTrialsCount
               /\ o.result \in {"saved", "rejected"} => o.tries > 0
    /\ pc \notin Ended \cup {"next_file"} => tries =< CrcTrialsCount
    /\ pc = "send_error" => tries < CrcTrialsCount

\* With a server that answers each request as it should, the response that
\* verify_upload_crc_response or process_srv_ack_response reads is the answer
\* to the upload just sent: the protocol has no request numbers, and only the
\* order of reads and writes keeps the two sides in step.
PairedReplies ==
    faults = 0 =>
        /\ Len(toClient) =< 1
        /\ toClient # <<>> =>
               /\ toServer = <<>>
               /\ Answer.iv = iv
               /\ \/ pc = "verify" /\ Answer.code \in {"UPLOAD_RECEIVED", "UPLOAD_REJECTED_TOO_LARGE"}
                  \/ pc \in {"ack_success", "ack_failure"} /\ Answer.code = "ACK"

\* With such a server, and no upload damaged, no upload is ever sent twice, even
\* while the user edits the files: the comparison uses the bytes and the size of
\* the same attempt.
NoSpuriousRetry ==
    damages = 0 /\ faults = 0 /\ ServerReports = "last_chunk" =>
        crcFailures = 0 /\ pc # "failed_server"

SumOf(data) == IF data = Missing THEN BadSum ELSE Crc[data]

Entry(o) == [name |-> o.name, result |-> o.result, sum |-> SumOf(o.data)]

\* The detailed specification keeps the promise of the abstract one.
Promise ==
    INSTANCE BackupPromise WITH
        Files   <- SelectedFiles,
        vault   <- stored,
        settled <- [i \in DOMAIN outcomes |-> Entry(outcomes[i])],
        status  <- IF pc = "done" THEN "returned" ELSE IF pc \in Threw THEN "threw" ELSE "running"

KeepsPromise == Promise!Spec

\* backup_files comes to an end, whatever the user does to the files and
\* whatever becomes of the connection, as long as a server that is up answers:
\* there is no timeout on a read.
Terminates == <>(pc \in Ended)

\* The server answers the last packet of an upload, CRC_SUCCESS and CRC_FAILURE.
IsLast(m)   == m.code = "CREATE_BACKUP" /\ m.num = m.total
Answered(m) == IsLast(m) \/ m.code \in {"CRC_SUCCESS", "CRC_FAILURE"}

\* Whenever verify_upload_crc_response or process_srv_ack_response reads from a
\* connection that is up, a response is there or a request is on its way that will
\* be answered, however many responses were wrong or came twice before.
ReadAnswered ==
    pc \in Receiving /\ link = "up" =>
        toClient # <<>> \/ \E i \in 1 .. Len(toServer) : Answered(toServer[i])

\* What backup_files has before it: files, uploads of the current file, steps of
\* the current upload, packets to send.
UploadsLeft == IF pc = "next_file" THEN CrcTrialsCount + 1 ELSE CrcTrialsCount - crcFailures
StepsLeft ==
    CASE pc = "send_error" -> 6
      [] pc = "encrypt" -> 5
      [] pc = "send" -> 4
      [] pc = "verify" -> 3
      [] pc \in {"send_success", "send_failure"} -> 2
      [] pc \in {"ack_success", "ack_failure"} -> 1
      [] OTHER -> 0
PacketsLeft == IF pc = "send" THEN Total + 1 - packet ELSE 0

Work == <<Len(SelectedFiles) + 1 - idx, UploadsLeft, StepsLeft, PacketsLeft>>

\* In the lexicographic order, a comes before b.
Less(a, b) == \E i \in 1 .. 4 : a[i] < b[i] /\ \A j \in 1 .. (i - 1) : a[j] = b[j]

\* backup_files cannot go round in circles: there are loops over files, uploads and
\* packets in it, and an upload that failed starts again, but each step of the client
\* leaves less to do, and nothing that the server, the user or the connection does
\* leaves more.
UploadAdvances ==
    /\ [](\A i \in 1 .. 4 : Work[i] \in Nat)
    /\ [][IF Client THEN Less(Work', Work) ELSE Work' = Work]_vars

\* FileAuthentication.h says that encrypted_file_size_ tracks "the total
\* encrypted file size". The server's size is compared with it.
EncryptedSizeIsTotal ==
    pc = "verify" => encryptedFileSize = EncryptedSize(SizeOf[fileData])

\* The comment on backup_files says that missing files "are reported to the
\* user and skipped".
MissingIsSkipped == pc # "failed_open"

-----------------------------------------------------------------------------
(* Inductive invariants: what makes the properties hold, action by action *)

\* The counter of mismatches follows the number of uploads.
RetryInv ==
    /\ RetryBudget
    /\ pc \in {"encrypt", "send_error"} => tries = crcFailures /\ crcFailures < CrcTrialsCount
    /\ pc \in {"send", "verify", "send_success", "ack_success"} =>
           tries = crcFailures + 1 /\ crcFailures < CrcTrialsCount
    /\ pc \in {"send_failure", "ack_failure"} =>
           tries = crcFailures /\ crcFailures = CrcTrialsCount

\* The upload in progress is of a legal size and its packets are counted.
SendInv ==
    /\ pc \in Sending \cup Receiving => SizeOf[fileData] \in FileSizes
    /\ pc = "send" => packet \in 1 .. Total

ThisCopy == [name |-> FileName, sum |-> Crc[fileData]]

\* A request can only be under way while the client is at the step it belongs
\* to; CRC_ERROR alone can stay behind, and nothing waits for its effect.
InFlight(i) ==
    LET m == toServer[i]
    IN  /\ m.code = "CREATE_BACKUP" =>
               /\ pc \in {"send", "verify"}
               /\ m.name = FileName /\ m.iv = iv
               /\ (m.num = m.total) <=> (pc = "verify" /\ i = Len(toServer))
        /\ m.code = "CRC_SUCCESS" => pc = "ack_success" /\ Len(toServer) = 1
        /\ m.code = "CRC_FAILURE" => pc = "ack_failure" /\ Len(toServer) = 1

\* Either the request is still to be served, or its answer is to be read.
AwaitsVerdict ==
    \/ /\ toClient = <<>>
       /\ toServer # <<>> /\ toServer[Len(toServer)].code = "CREATE_BACKUP"
    \/ /\ toServer = <<>>
       /\ Len(toClient) = 1
       /\ Answer.iv = iv /\ LastIv = iv
       /\ \/ Answer.code = "UPLOAD_REJECTED_TOO_LARGE"
          \/ /\ GoodVerdict(Answer)
             /\ received = {[name |-> FileName, sum |-> Answer.sum]}

AwaitsAck(code) ==
    \/ /\ toClient = <<>>
       /\ Len(toServer) = 1 /\ toServer[1].code = code /\ LastIv = iv
       /\ code = "CRC_SUCCESS" => received = {ThisCopy}
    \/ /\ toServer = <<>>
       /\ Len(toClient) = 1
       /\ Answer.iv = iv /\ GoodAck(Answer)
       /\ code = "CRC_SUCCESS" => ThisCopy \in stored

\* Client and server are in step as long as every response is the right one.
InStep ==
    /\ link = "down" => toServer = <<>> /\ toClient = <<>>
    /\ faults = 0 =>
           /\ pc # "failed_server"
           /\ pc \notin Receiving => toClient = <<>>
           /\ \A i \in 1 .. Len(toServer) : InFlight(i)
           /\ pc \in {"send_success", "send_failure", "send_error"} =>
                  toServer = <<>> /\ LastIv = iv
           /\ link = "up" =>
                  /\ pc = "send_success" => received = {ThisCopy}
                  /\ pc = "verify" => AwaitsVerdict
                  /\ pc = "ack_success" => AwaitsAck("CRC_SUCCESS")
                  /\ pc = "ack_failure" => AwaitsAck("CRC_FAILURE")

\* One wrong response is answered at once or ends the backup; one that comes twice
\* leaves the client one response behind, where it reads the answer to its last
\* request but one.

\* The last packets of uploads that the server still has to answer.
Unanswered == {i \in 1 .. Len(toServer) : IsLast(toServer[i])}

OwnVerdictComes ==
    \/ toClient = <<>> /\ Unanswered # {}
    \/ /\ toServer = <<>> /\ Len(toClient) = 1
       /\ GoodVerdict(Answer) =>
              Answer.sum = BadSum \/ received = {[name |-> FileName, sum |-> Answer.sum]}

OwnAckComes ==
    \/ /\ toClient = <<>>
       /\ Len(toServer) = 1 /\ toServer[1].code # "CRC_ERROR"
       /\ pc = "ack_success" => received = {ThisCopy}
    \/ /\ toServer = <<>>
       /\ Len(toClient) = 1 \/ (Len(toClient) = 2 /\ faults = 1)
       /\ pc = "ack_success" => ThisCopy \in stored

InSync ==
    /\ pc \notin Receiving => toClient = <<>>
    /\ \A i \in 1 .. Len(toServer) : InFlight(i)
    /\ pc \in {"send_success", "send_failure", "send_error"} => toServer = <<>>
    /\ pc = "send_success" => received = {ThisCopy}
    /\ pc = "verify" => OwnVerdictComes
    /\ pc \in {"ack_success", "ack_failure"} => OwnAckComes

\* One response is always outstanding that the client takes for another one, and
\* it is no ACK when the client awaits an ACK.
OneBehind ==
    /\ faults = 1
    /\ \A i \in 1 .. Len(toServer) :
           toServer[i].code \in {"CRC_SUCCESS", "CRC_FAILURE"} =>
               pc \in {"ack_success", "ack_failure"} /\ i = Len(toServer)
    /\ toClient = <<>> => Unanswered # {}
    /\ pc = "verify" =>
           IF toClient = <<>> THEN \E i, j \in Unanswered : i # j
                              ELSE Len(toClient) > 1 \/ Unanswered # {}
    /\ pc \notin {"ack_success", "ack_failure"} =>
           \A k \in 2 .. Len(toClient) : toClient[k].code # "ACK"
    /\ pc \notin {"next_file", "encrypt", "send", "verify"} /\ toClient # <<>> =>
           Answer.code # "ACK"

\* What the server has, or will have before it takes CRC_SUCCESS, is a copy of
\* the current file.
OursComesLast ==
    \/ Unanswered = {} /\ \A c \in received : c.name = FileName
    \/ \E i \in Unanswered :
           toServer[i].name = FileName /\ \A j \in Unanswered : j =< i

\* The client is at a file whose upload is complete.
Uploaded == {"send_success", "send_failure", "failed_server"} \cup Receiving

\* The request to confirm an upload is the last one.
ConfirmLast ==
    \A i \in 1 .. Len(toServer) :
        toServer[i].code = "CRC_SUCCESS" =>
            pc \in {"ack_success", "failed_server"} /\ i = Len(toServer)

OneFaultInv ==
    faults =< 1 /\ link = "up" =>
        /\ pc \notin Ended => InSync \/ OneBehind
        /\ pc \in Uploaded => OursComesLast
        /\ pc = "failed_server" => idx \in DOMAIN SelectedFiles
        /\ ConfirmLast

SavedInv == faults =< 1 => SavedIsStored

\* The packets of the upload in progress that the server took.
Taken == packet - 1 - Len(toServer)

\* No upload was damaged and no response wrong.
Clean == damages = 0 /\ faults = 0 /\ ServerReports = "last_chunk"

NoRetry ==
    /\ crcFailures = 0 /\ pc \notin {"send_failure", "send_error", "ack_failure"}
    /\ \A i \in 1 .. Len(toServer) : toServer[i].code # "CRC_ERROR"

\* The packets the server took and those under way are the first ones of this
\* very encryption, in order.
PacketsInOrder ==
    link = "up" /\ pc \in {"send", "verify"} /\ toClient = <<>> =>
        /\ Taken \in Nat
        /\ \A i \in 1 .. Len(toServer) : toServer[i] = PacketOf(Taken + i)
        /\ Taken # 0 => upload = [j \in 1 .. Taken |-> PacketOf(j)]

\* The verdict is good.
VerdictMatches ==
    pc = "verify" =>
        /\ packet = Total + 1
        /\ encryptedFileSize = ChunkLength(SizeOf[fileData], Total)
        /\ toClient # <<>> /\ Answer.code = "UPLOAD_RECEIVED" => ~Mismatch(Answer)

CleanInv == Clean => NoRetry /\ PacketsInOrder /\ VerdictMatches
=============================================================================

---------------------------- MODULE ClientSession ----------------------------
(***************************************************************************)
(* One installation of the client over several runs of the program: main,  *)
(* ClientHandler::run and the registration, re-registration and key        *)
(* exchange flows, with the three files they leave in the working          *)
(* directory, the socket, and crashes at any point. FileAuthentication is  *)
(* one step here; FileUpload models it.                                    *)
(*                                                                         *)
(* Each action is the code between two points where the outside can        *)
(* interfere: a blocking call, a prompt, or a file being written. The      *)
(* server is external: it keeps an account for every user id it issued.    *)
(*                                                                         *)
(* What is random is numbered in the order in which it is made: RSA key    *)
(* pairs, AES keys and user ids are 1, 2, 3, ..., so that a fresh one is   *)
(* new. 0 (Nothing) stands for an empty file, line or variable.            *)
(***************************************************************************)
EXTENDS Integers, Sequences

CONSTANTS
    Usernames,   \* names that is_valid_username accepts
    Taken,       \* those of other users
    NoName,      \* no name
    MaxRuns,     \* bound: runs of the program
    MaxPrompts,  \* bound: user names entered in one run
    MaxIoFaults, \* bound: files that cannot be opened or removed, writes that are lost
    MaxFaults,   \* bound: wrong responses of the server
    MaxForgets   \* bound: accounts the server loses

ASSUME SessionAssumption ==
    /\ Taken \subseteq Usernames /\ NoName \notin Usernames
    /\ {MaxRuns, MaxPrompts, MaxIoFaults, MaxFaults, MaxForgets} \subseteq Nat

VARIABLES
    pc,            \* where the client is
    socket,        \* "closed", "open" (but not connected) or "connected"
    username,      \* client_registration: the name that was entered
    newUid,        \* handle_registration_response: the user id in the response
    rsaKey,        \* the private key in memory
    opCode,        \* op_code of handle_rsa_key_response
    aesKey,        \* handle_rsa_key_response: the decrypted AES key
    meInfo,        \* me.info
    privateKey,    \* private.key: nothing reads it
    aesKeyFile,    \* aes.key
    link,          \* "up" or "down"
    toServer, toClient,
    accounts,      \* server: by user id
    aesKeys,       \* server: AES keys made so far
    rsaKeys,       \* RSA key pairs made so far
    connectFailed, \* history: the connection of this run was refused
    crashed,       \* history: some run was killed
    runs, prompts, ioFaults, faults, forgets

memory == <<username, newUid, rsaKey, opCode, aesKey, rsaKeys>>
files  == <<meInfo, privateKey, aesKeyFile>>
net    == <<link, toServer, toClient>>
server == <<accounts, aesKeys, faults, forgets>>
tally  == <<connectFailed, crashed, runs, prompts, ioFaults>>
vars   == <<pc, socket, memory, files, net, server, tally>>

Nothing == 0
Absent  == -1 \* there is no file

Awaiting == {"await_registration", "await_key"}
Running  == Awaiting \cup
            {"connect", "registration", "prompt", "save_info", "append_key", "save_private",
             "send_key", "save_aes", "select", "upload", "disconnect", "handler", "cleanup"}
\* main returned; the run ended in std::terminate; it was killed.
AtRest == {"exited", "terminated", "killed"}

\* me.info holds up to three lines.
Info(n, u, k) == [exists |-> TRUE, name |-> n, uid |-> u, key |-> k]
NoInfo        == [exists |-> FALSE, name |-> NoName, uid |-> Nothing, key |-> Nothing]
EmptyInfo     == Info(NoName, Nothing, Nothing)
Infos         == [exists : BOOLEAN, name : Usernames \cup {NoName}, uid : Nat, key : Nat]
Complete(i)   == i.name # NoName /\ i.uid # Nothing /\ i.key # Nothing

RegisterRequest == [code : {"REGISTRATION"}, name : Usernames]
ReRegisterRequest == [code : {"RE_REGISTRATION"}, name : Usernames, uid : Nat]
KeyRequest == [code : {"PUBLIC_KEY_SEND"}, uid : Nat, key : Nat]
Requests == RegisterRequest \cup ReRegisterRequest \cup KeyRequest

KeyCodes   == {"KEY_SEND_SUCCESS", "RE_REGISTRATION_SUCCESS"}
ReplyCodes == {"REGISTRATION_SUCCESS", "REGISTRATION_FAILED", "USERNAME_TAKEN",
               "RE_REGISTRATION_FAILED", "FAILED"} \cup KeyCodes

\* The AES key travels encrypted with a public key: `aes' under `pub'.
Replies == [code : ReplyCodes, uid : Nat, aes : Nat, pub : Nat]
Reply(code, uid) == [code |-> code, uid |-> uid, aes |-> Nothing, pub |-> Nothing]
KeyReply(code, uid, aes, pub) == [code |-> code, uid |-> uid, aes |-> aes, pub |-> pub]

Accounts == [status : {"known", "forgotten"}, name : Usernames, pub : Nat, aes : Nat]

Init ==
    /\ pc = "connect" /\ socket = "closed"
    /\ username = NoName /\ newUid = Nothing
    /\ rsaKey = Nothing /\ opCode = "none" /\ aesKey = Nothing
    /\ link = "down" /\ toServer = <<>> /\ toClient = <<>>
    /\ connectFailed = FALSE /\ prompts = 0
    /\ meInfo = NoInfo /\ privateKey = Absent /\ aesKeyFile = Absent
    /\ accounts = <<>> /\ aesKeys = 0 /\ rsaKeys = 0
    /\ crashed = FALSE /\ runs = 1
    /\ ioFaults = 0 /\ faults = 0 /\ forgets = 0

Goto(from, to) == pc = from /\ pc' = to

-----------------------------------------------------------------------------
(* ClientHandler::connect *)

Connect ==
    /\ Goto("connect", "registration")
    /\ socket' = "connected"
    /\ link' = "up"
    /\ UNCHANGED <<memory, files, toServer, toClient, server, tally>>

\* load_server_address or the resolver fails: the socket was never opened.
AddressFails ==
    /\ Goto("connect", "handler")
    /\ UNCHANGED <<socket, memory, files, net, server, tally>>

\* boost::asio::connect opens the socket to try each endpoint, and leaves it
\* open when the last one refuses.
ConnectFails ==
    /\ Goto("connect", "handler")
    /\ socket' = "open"
    /\ connectFailed' = TRUE
    /\ UNCHANGED <<memory, files, net, server, crashed, runs, prompts, ioFaults>>

-----------------------------------------------------------------------------
(* CommunicationManager *)

\* A write to a connection that the peer has left can succeed; it is lost.
Transmit(m) ==
    /\ toServer' = IF link = "up" THEN Append(toServer, m) ELSE toServer
    /\ UNCHANGED <<link, toClient>>

\* Where a request is sent. With the link down the write can fail instead.
SendPoints == {"registration", "prompt", "send_key", "disconnect"}
SendFails ==
    /\ pc \in SendPoints /\ link = "down"
    /\ pc = "registration" => meInfo.exists
    /\ pc' = "handler"
    /\ UNCHANGED <<socket, memory, files, net, server, tally>>

Answer == Head(toClient)
Receive ==
    /\ toClient # <<>>
    /\ toClient' = Tail(toClient)
    /\ UNCHANGED <<link, toServer>>

ReceiveFails ==
    /\ pc \in Awaiting /\ link = "down" /\ toClient = <<>>
    /\ pc' = "handler"
    /\ UNCHANGED <<socket, memory, files, net, server, tally>>

\* A file cannot be opened, or a write is lost: no stream is checked after <<.
IoFault == /\ ioFaults < MaxIoFaults /\ ioFaults' = ioFaults + 1
           /\ UNCHANGED <<connectFailed, crashed, runs, prompts>>

NoIoFault == UNCHANGED tally

\* Where a file is opened: main's handler gets the exception.
OpenPoints == {"registration", "save_info", "append_key", "save_private", "save_aes"}
OpenFails ==
    /\ pc \in OpenPoints
    /\ pc = "registration" => meInfo.exists
    /\ IoFault
    /\ pc' = "handler"
    /\ UNCHANGED <<socket, memory, files, net, server>>

-----------------------------------------------------------------------------
(* client_registration *)

\* ClientHandler::handle_registration: there is no me.info.
StartRegistration ==
    /\ Goto("registration", "prompt") /\ ~meInfo.exists
    /\ UNCHANGED <<socket, memory, files, net, server, tally>>

\* prompt_valid_username returns, and the request is sent.
EnterName ==
    /\ Goto("prompt", "await_registration")
    /\ prompts < MaxPrompts /\ prompts' = prompts + 1
    /\ \E n \in Usernames :
           /\ username' = n
           /\ Transmit([code |-> "REGISTRATION", name |-> n])
    /\ UNCHANGED <<socket, newUid, rsaKey, opCode, aesKey, rsaKeys, files, server,
                   connectFailed, crashed, runs, ioFaults>>

\* The user types `quit' or closes the input: UserCancelledException.
Cancel ==
    /\ pc \in {"prompt", "select"} /\ pc' = "handler"
    /\ UNCHANGED <<socket, memory, files, net, server, tally>>

\* fault variant: reads another response instead of asking for another name
StepAfterTaken_Reread == "await_registration"

\* `continue': the loop prompts again.
StepAfterTaken == "prompt"

NameTaken ==
    /\ Goto("await_registration", StepAfterTaken)
    /\ Receive /\ Answer.code = "USERNAME_TAKEN"
    /\ UNCHANGED <<socket, memory, files, server, tally>>

Registered ==
    /\ Goto("await_registration", "save_info")
    /\ Receive /\ Answer.code = "REGISTRATION_SUCCESS"
    /\ newUid' = Answer.uid
    /\ UNCHANGED <<socket, username, rsaKey, opCode, aesKey, rsaKeys, files, server, tally>>

RegistrationThrows ==
    /\ Goto("await_registration", "handler")
    /\ Receive /\ Answer.code \notin {"USERNAME_TAKEN", "REGISTRATION_SUCCESS"}
    /\ UNCHANGED <<socket, memory, files, server, tally>>

-----------------------------------------------------------------------------
(* Key exchange: complete_registration_key_exchange, send_rsa_public_key *)

\* fault variant: tells the server the key before it is saved
KeyExchangeSteps_SendFirst ==
    <<"save_info", "send_key", "append_key", "save_private", "await_key">>

\* fault variant: reads the answer before it sends the key
KeyExchangeSteps_ReadFirst ==
    <<"save_info", "append_key", "save_private", "await_key", "send_key">>

KeyExchangeSteps ==
    <<"save_info", "append_key", "save_private", "send_key", "await_key">>

\* The client is done with `step' of the exchange.
Advance(step) ==
    \E i \in 1 .. 4 :
        /\ KeyExchangeSteps[i] = step
        /\ Goto(step, KeyExchangeSteps[i + 1])

\* save_client_registration_info, and RSAPrivateWrapper makes a key pair.
SaveInfo ==
    /\ Advance("save_info")
    /\ \/ meInfo' = Info(username, newUid, Nothing) /\ NoIoFault
       \/ meInfo' = EmptyInfo /\ IoFault
    /\ rsaKeys' = rsaKeys + 1 /\ rsaKey' = rsaKeys + 1
    /\ UNCHANGED <<socket, username, newUid, opCode, aesKey, privateKey, aesKeyFile,
                   net, server>>

\* load_user_id, load_username, append_private_key_to_client_info.
AppendKey ==
    /\ Advance("append_key")
    /\ meInfo.uid # Nothing
    /\ \/ meInfo' = [meInfo EXCEPT !.key = rsaKey] /\ NoIoFault
       \/ meInfo' = meInfo /\ IoFault
    /\ UNCHANGED <<socket, memory, privateKey, aesKeyFile, net, server>>

\* The lines are not there: TracedException.
AppendKeyThrows ==
    /\ Goto("append_key", "handler") /\ meInfo.uid = Nothing
    /\ UNCHANGED <<socket, memory, files, net, server, tally>>

SavePrivate ==
    /\ Advance("save_private")
    /\ \/ privateKey' = rsaKey /\ NoIoFault
       \/ privateKey' = Nothing /\ IoFault
    /\ UNCHANGED <<socket, memory, meInfo, aesKeyFile, net, server>>

SendKey ==
    /\ Advance("send_key")
    /\ Transmit([code |-> "PUBLIC_KEY_SEND", uid |-> meInfo.uid, key |-> rsaKey])
    /\ opCode' = "KEY_SEND_SUCCESS"
    /\ UNCHANGED <<socket, username, newUid, rsaKey, aesKey, rsaKeys, files, server, tally>>

-----------------------------------------------------------------------------
(* client_re_registration *)

\* fault variant: the key that is in memory, which a new process does not have
LoadedKey_Kept == rsaKey

\* load_private_key(CL_INFO_FILE)
LoadedKey == meInfo.key

ReRegister ==
    /\ Goto("registration", "await_key") /\ meInfo.exists
    /\ Complete(meInfo)
    /\ Transmit([code |-> "RE_REGISTRATION", name |-> meInfo.name, uid |-> meInfo.uid])
    /\ rsaKey' = LoadedKey
    /\ opCode' = "RE_REGISTRATION_SUCCESS"
    /\ UNCHANGED <<socket, username, newUid, aesKey, rsaKeys, files, server, tally>>

\* A line is missing: TracedException. me.info stays as it is.
CredentialsMissing ==
    /\ Goto("registration", "handler") /\ meInfo.exists
    /\ ~Complete(meInfo)
    /\ UNCHANGED <<socket, memory, files, net, server, tally>>

-----------------------------------------------------------------------------
(* handle_rsa_key_response *)

\* fault variant: the user id of the response is not looked at
ForUs_Anyone(r) == TRUE

\* validate_response_user_id
ForUs(r) == r.uid = meInfo.uid

Decrypts(r) == r.pub = rsaKey /\ r.aes # Nothing

ReceiveKey ==
    /\ Goto("await_key", "save_aes")
    /\ Receive /\ Answer.code = opCode
    /\ ForUs(Answer) /\ Decrypts(Answer)
    /\ aesKey' = Answer.aes
    /\ UNCHANGED <<socket, username, newUid, rsaKey, opCode, rsaKeys, files, server, tally>>

\* FAILED, somebody else's user id or an unexpected code. A right response can
\* end here too: decrypt_base64 gets a pointer to bytes with no terminator, and
\* whatever follows them in memory may spoil the text it decodes. So can any
\* response, when me.info cannot be opened or removed.
KeyThrows ==
    /\ Goto("await_key", "handler")
    /\ Receive
    /\ \/ (Answer.code = "RE_REGISTRATION_FAILED" => ~ForUs(Answer)) /\ NoIoFault
       \/ IoFault
    /\ UNCHANGED <<socket, memory, files, server>>

\* The client has to register again: me.info is removed, and ClientException.
IdentityRejected ==
    /\ Goto("await_key", "handler")
    /\ Receive /\ Answer.code = "RE_REGISTRATION_FAILED" /\ ForUs(Answer)
    /\ meInfo' = NoInfo
    /\ UNCHANGED <<socket, memory, privateKey, aesKeyFile, server, tally>>

\* fault variant: an aes.key that is there already is kept
AesKeyToSave_IfNone(k) == IF aesKeyFile \in {Absent, Nothing} THEN k ELSE aesKeyFile

\* std::ofstream truncates what is there.
AesKeyToSave(k) == k

SaveAesKey ==
    /\ Goto("save_aes", "select")
    /\ \/ aesKeyFile' = AesKeyToSave(aesKey) /\ NoIoFault
       \/ aesKeyFile' = Nothing /\ IoFault
    /\ UNCHANGED <<socket, memory, meInfo, privateKey, net, server>>

-----------------------------------------------------------------------------
(* ClientHandler::backup_files and disconnect *)

\* prompt_backup_directory and prompt_files_to_backup return.
Select ==
    /\ Goto("select", "upload")
    /\ UNCHANGED <<socket, memory, files, net, server, tally>>

\* FileAuthentication::backup_files returns.
UploadReturns ==
    /\ Goto("upload", "disconnect")
    /\ UNCHANGED <<socket, memory, files, net, server, tally>>

\* It throws, for one reason or another; FileUpload has them.
UploadThrows ==
    /\ Goto("upload", "handler")
    /\ UNCHANGED <<socket, memory, files, net, server, tally>>

\* The DISCONNECT request is sent and the socket closed: no answer is read.
HangUp ==
    /\ socket' = "closed"
    /\ link' = "down" /\ toServer' = <<>> /\ toClient' = <<>>

Disconnect ==
    /\ Goto("disconnect", "cleanup")
    /\ HangUp
    /\ UNCHANGED <<memory, files, server, tally>>

-----------------------------------------------------------------------------
(* main *)

\* handle_startup_failure calls disconnect: nothing to do, or it succeeds ...
HandlerDisconnects ==
    /\ Goto("handler", "cleanup")
    /\ socket # "open"
    /\ HangUp
    /\ UNCHANGED <<memory, files, server, tally>>

\* ... or the write fails, and nobody is left to catch the exception.
HandlerThrows ==
    /\ Goto("handler", "terminated")
    /\ socket = "open" \/ (socket = "connected" /\ link = "down")
    /\ UNCHANGED <<socket, memory, files, net, server, tally>>

\* cleanup_temporary_aes_key
Cleanup ==
    /\ Goto("cleanup", "exited")
    /\ aesKeyFile' = Absent
    /\ UNCHANGED <<socket, memory, meInfo, privateKey, net, server, tally>>

\* The file cannot be removed: filesystem_error, outside of main's try.
CleanupThrows ==
    /\ Goto("cleanup", "terminated")
    /\ aesKeyFile # Absent
    /\ IoFault
    /\ UNCHANGED <<socket, memory, files, net, server>>

-----------------------------------------------------------------------------
(* The server: external, known by what the client expects of it *)

Known(u)    == u \in DOMAIN accounts /\ accounts[u].status = "known"
Honoured(u) == Known(u) /\ accounts[u].pub # Nothing
NameInUse(n) ==
    n \in Taken \/ \E u \in DOMAIN accounts : Known(u) /\ accounts[u].name = n

\* Wrong responses: one that fits another request, is addressed to somebody
\* else or carries no key. The server is never wrong in telling a user it knows
\* to register again.
WrongReplies ==
    {Reply(code, u) : code \in ReplyCodes, u \in 1 .. Len(accounts) + 1}
        \ {Reply("RE_REGISTRATION_FAILED", u) : u \in {v \in DOMAIN accounts : Known(v)}}

Answers(r) ==
    \/ toClient' = Append(toClient, r) /\ UNCHANGED faults
    \/ /\ faults < MaxFaults /\ faults' = faults + 1
       /\ \E w \in WrongReplies : toClient' = Append(toClient, w)

Request == Head(toServer)
Take(code) ==
    /\ link = "up"
    /\ toServer # <<>> /\ Request.code = code
    /\ toServer' = Tail(toServer)

Outside == <<pc, socket, memory, files, link, tally>>

ServeRegistration ==
    /\ Take("REGISTRATION")
    /\ ~NameInUse(Request.name)
    /\ accounts' = Append(accounts, [status |-> "known", name |-> Request.name,
                                     pub |-> Nothing, aes |-> Nothing])
    /\ Answers(Reply("REGISTRATION_SUCCESS", Len(accounts) + 1))
    /\ UNCHANGED <<Outside, aesKeys, forgets>>

\* The name is taken, or the registration fails on the server.
RefuseRegistration ==
    /\ Take("REGISTRATION")
    /\ Answers(Reply(IF NameInUse(Request.name) THEN "USERNAME_TAKEN"
                                                ELSE "REGISTRATION_FAILED", Nothing))
    /\ UNCHANGED <<Outside, accounts, aesKeys, forgets>>

Keyed(account, pub, aes) == [account EXCEPT !.pub = pub, !.aes = aes]

\* A new AES key for user u, encrypted with its public key.
GiveAesKey(code, u, pub) ==
    /\ aesKeys' = aesKeys + 1
    /\ accounts' = [accounts EXCEPT ![u] = Keyed(@, pub, aesKeys + 1)]
    /\ Answers(KeyReply(code, u, aesKeys + 1, pub))

ServeKey ==
    /\ Take("PUBLIC_KEY_SEND") /\ Known(Request.uid)
    /\ GiveAesKey("KEY_SEND_SUCCESS", Request.uid, Request.key)
    /\ UNCHANGED <<Outside, forgets>>

RefuseKey ==
    /\ Take("PUBLIC_KEY_SEND") /\ ~Known(Request.uid)
    /\ Answers(Reply("FAILED", Request.uid))
    /\ UNCHANGED <<Outside, accounts, aesKeys, forgets>>

ServeReRegistration ==
    /\ Take("RE_REGISTRATION") /\ Honoured(Request.uid)
    /\ GiveAesKey("RE_REGISTRATION_SUCCESS", Request.uid, accounts[Request.uid].pub)
    /\ UNCHANGED <<Outside, forgets>>

RefuseReRegistration ==
    /\ Take("RE_REGISTRATION") /\ ~Honoured(Request.uid)
    /\ Answers(Reply("RE_REGISTRATION_FAILED", Request.uid))
    /\ UNCHANGED <<Outside, accounts, aesKeys, forgets>>

\* The server loses an account.
Forget ==
    /\ forgets < MaxForgets /\ forgets' = forgets + 1
    /\ \E u \in DOMAIN accounts :
           Known(u) /\ accounts' = [accounts EXCEPT ![u].status = "forgotten"]
    /\ UNCHANGED <<Outside, toServer, toClient, aesKeys, faults>>

-----------------------------------------------------------------------------
(* The surroundings *)

\* The connection is lost, with all that it had not delivered yet.
LinkBreaks ==
    /\ link = "up"
    /\ link' = "down" /\ toServer' = <<>> /\ toClient' = <<>>
    /\ UNCHANGED <<pc, socket, memory, files, server, tally>>

\* The process is killed. A file being written then may stay empty, or, when
\* it is appended to, unchanged.
Crash ==
    /\ pc \in Running /\ pc' = "killed"
    /\ crashed' = TRUE
    /\ meInfo' = meInfo \/ (pc = "save_info" /\ meInfo' = EmptyInfo)
    /\ privateKey' = privateKey \/ (pc = "save_private" /\ privateKey' = Nothing)
    /\ aesKeyFile' = aesKeyFile \/ (pc = "save_aes" /\ aesKeyFile' = Nothing)
    /\ HangUp
    /\ UNCHANGED <<memory, server, connectFailed, runs, prompts, ioFaults>>

\* The user starts the program again.
NextRun ==
    /\ pc \in AtRest /\ runs < MaxRuns
    /\ runs' = runs + 1
    /\ pc' = "connect" /\ socket' = "closed"
    /\ username' = NoName /\ newUid' = Nothing
    /\ rsaKey' = Nothing /\ opCode' = "none" /\ aesKey' = Nothing
    /\ link' = "down" /\ toServer' = <<>> /\ toClient' = <<>>
    /\ connectFailed' = FALSE /\ prompts' = 0
    /\ UNCHANGED <<rsaKeys, files, server, crashed, ioFaults>>

-----------------------------------------------------------------------------
Start    == Connect \/ AddressFails \/ ConnectFails
Failures == SendFails \/ ReceiveFails \/ OpenFails \/ Cancel
Register == \/ StartRegistration \/ EnterName
            \/ NameTaken \/ Registered \/ RegistrationThrows
Exchange == SaveInfo \/ AppendKey \/ AppendKeyThrows \/ SavePrivate \/ SendKey
Reenter  == ReRegister \/ CredentialsMissing
KeyReceipt == ReceiveKey \/ KeyThrows \/ IdentityRejected \/ SaveAesKey
Backup   == Select \/ UploadReturns \/ UploadThrows \/ Disconnect
Main     == HandlerDisconnects \/ HandlerThrows \/ Cleanup \/ CleanupThrows

Client == Start \/ Failures \/ Register \/ Exchange \/ Reenter \/ KeyReceipt \/ Backup \/ Main

Server == \/ ServeRegistration \/ RefuseRegistration
          \/ ServeKey \/ RefuseKey
          \/ ServeReRegistration \/ RefuseReRegistration

Surroundings == Forget \/ LinkBreaks \/ Crash \/ NextRun

\* The user does not start the program any more.
Over == pc \in AtRest /\ runs = MaxRuns /\ UNCHANGED vars

Next == Client \/ Server \/ Surroundings \/ Over

Spec == Init /\ [][Next]_vars

\* The process runs on, its user answers the prompts, and a server that is up
\* serves requests. Nobody has to start, kill or disturb anything.
FairSpec == Spec /\ WF_vars(Client) /\ WF_vars(Server)

-----------------------------------------------------------------------------
(* Properties *)

\* The type invariant.
TypeOK ==
    /\ pc \in Running \cup AtRest
    /\ socket \in {"closed", "open", "connected"}
    /\ username \in Usernames \cup {NoName}
    /\ pc \in {"await_registration", "save_info"} => username # NoName
    /\ newUid \in Nat /\ rsaKey \in Nat /\ aesKey \in Nat
    /\ pc \in {"append_key", "save_private", "send_key", "await_key"} => rsaKey # Nothing
    /\ opCode \in KeyCodes \cup {"none"}
    /\ pc \in {"await_key", "save_aes"} => opCode # "none"
    /\ meInfo \in Infos
    /\ privateKey \in Nat \cup {Absent} /\ aesKeyFile \in Nat \cup {Absent}
    /\ link \in {"up", "down"}
    /\ toServer \in Seq(Requests) /\ toClient \in Seq(Replies)
    /\ accounts \in Seq(Accounts)
    /\ aesKeys \in Nat /\ rsaKeys \in Nat
    /\ connectFailed \in BOOLEAN /\ crashed \in BOOLEAN
    /\ {runs, prompts, ioFaults, faults, forgets} \subseteq Nat

\* The AES key that backup_files reads from aes.key is the one the server has
\* for this user in this session: never the leftover of a run that was killed
\* or terminated, nor the key of another identity.
KeyAgreement ==
    pc = "upload" /\ aesKeyFile > 0 /\ Known(meInfo.uid) =>
        aesKeyFile = accounts[meInfo.uid].aes

\* Only a crash, or a file that could not be written, leaves an identity
\* without its private key behind, with which every later run would fail: a
\* refusal, a wrong response or a lost connection leaves me.info complete, in
\* agreement with private.key, or removed.
HalfIdentityOnlyByCrash ==
    pc \in AtRest /\ ~crashed /\ ioFaults = 0 =>
        meInfo = NoInfo \/ (Complete(meInfo) /\ meInfo.key = privateKey)

\* The server never knows a public key of this user whose private key is not
\* in me.info: crash at any point, the key is saved before it is told.
KeySavedBeforeTold ==
    ioFaults = 0 /\ faults = 0 /\ meInfo.uid # Nothing /\ Honoured(meInfo.uid) =>
        meInfo.key = accounts[meInfo.uid].pub

\* me.info is only ever removed when the server would not honour the user id in
\* it: a misdirected or unexpected response does not cost the user the account.
HonouredIdentityKept ==
    [][meInfo.exists /\ ~meInfo'.exists => ~Honoured(meInfo.uid)]_vars

\* What me.info and the server's accounts are to KeyStore.
Kept == [exists |-> meInfo.exists, uid |-> meInfo.uid, key |-> meInfo.key]
Told == [u \in DOMAIN accounts |-> IF Known(u) THEN accounts[u].pub ELSE -1]

Store == INSTANCE KeyStore WITH kept <- Kept, told <- Told

\* No write was lost and no response wrong so far.
Undisturbed == ioFaults = 0 /\ faults = 0

\* The detailed specification implements the abstract one, for as long as no write is
\* lost and no response is wrong.
IdentityStored ==
    /\ Store!Init
    /\ [][Undisturbed /\ Undisturbed' => Store!Next]_<<Kept, Told>>

\* Every run comes to an end, whatever becomes of the connection and whatever
\* the server answers, for a user who enters at most MaxPrompts names.
RunEnds == pc = "connect" ~> pc \in AtRest

\* A read has no timeout. The client never reads a response that will not come: as long
\* as the connection is up, the request it waits for is on its way, alone, or its answer
\* is.
AnswerAwaited ==
    pc \in Awaiting /\ link = "up" => Len(toServer) + Len(toClient) = 1

\* The order in which a run goes through the program; it ends at the last stages.
Stage ==
    [connect |-> 0, registration |-> 1, await_registration |-> 2, prompt |-> 3,
     save_info |-> 4, append_key |-> 5, save_private |-> 6, send_key |-> 7, await_key |-> 8,
     save_aes |-> 9, select |-> 10, upload |-> 11, disconnect |-> 12, handler |-> 13,
     cleanup |-> 14, exited |-> 15, terminated |-> 15, killed |-> 15]

\* A run goes round in circles only through the user: the loop of client_registration
\* prompts for another name each time. Every other step of the program goes forward, and
\* nothing but a new run goes back.
RunAdvances ==
    [][/\ Client => Stage[pc'] > Stage[pc] \/ prompts' = prompts + 1
       /\ Stage[pc'] < Stage[pc] => prompts' = prompts + 1 \/ NextRun]_vars

\* main.cpp says that it "handles top-level exceptions, performs graceful
\* disconnection on failure, and removes the temporary AES key file before
\* exiting".
AesKeyRemoved == pc \in {"exited", "terminated"} => aesKeyFile = Absent

\* ClientHandler.cpp says that the socket is checked "to avoid throwing another
\* communication exception when disconnect() is called after a failed
\* connection attempt".
FailedConnectHandled == connectFailed => pc # "terminated"

\* key_exchange.cpp says of send_rsa_public_key that it throws "if local credential
\* files cannot be read or written": when it returns, the private key is in both.
LostWriteThrows ==
    pc = "await_key" /\ opCode = "KEY_SEND_SUCCESS" =>
        meInfo.key = rsaKey /\ privateKey = rsaKey

-----------------------------------------------------------------------------
(* The inductive invariant: what makes the properties hold *)

\* One request or one response is under way at most, and only while the client
\* waits for it.
OneExchange ==
    /\ Len(toServer) + Len(toClient) =< 1
    /\ link = "down" => toServer = <<>> /\ toClient = <<>>
    /\ pc \notin Awaiting => toServer = <<>> /\ toClient = <<>>

Unkeyed(u) == u \in DOMAIN accounts => accounts[u].pub = Nothing

\* What a response says is still so when the client reads it.
TrueAnswer ==
    toClient # <<>> =>
        /\ Answer.code = "RE_REGISTRATION_FAILED" => ~Honoured(Answer.uid)
        /\ Answer.code = "REGISTRATION_SUCCESS" => Answer.uid # Nothing
        /\ Answer.code = "REGISTRATION_SUCCESS" /\ faults = 0 => Unkeyed(Answer.uid)
        /\ Answer.aes # Nothing =>
               Answer.uid \in DOMAIN accounts /\ accounts[Answer.uid].aes = Answer.aes

\* The identity on the disk, from step to step of the key exchange.
IdentityInv ==
    /\ pc = "save_info" => newUid # Nothing
    /\ ~crashed /\ ioFaults = 0 =>
           /\ pc = "append_key" => meInfo.name # NoName /\ meInfo.uid # Nothing
           /\ pc = "save_private" => Complete(meInfo) /\ meInfo.key = rsaKey
           /\ pc \notin {"append_key", "save_private"} =>
                  meInfo = NoInfo \/ (Complete(meInfo) /\ meInfo.key = privateKey)

\* The key on the disk and the key that the server has or is about to get.
ToldInv ==
    ioFaults = 0 /\ faults = 0 =>
        /\ ~Unkeyed(meInfo.uid) => accounts[meInfo.uid].pub = meInfo.key
        /\ pc = "save_info" => Unkeyed(newUid)
        /\ pc = "append_key" => Unkeyed(meInfo.uid)
        /\ pc \in {"save_private", "send_key"} => meInfo.key = rsaKey
        /\ toServer # <<>> /\ Request.code = "PUBLIC_KEY_SEND" => Request.key = meInfo.key

\* The AES key on its way from the response to aes.key.
SessionKeyInv ==
    LET shared(k) == /\ meInfo.uid \in DOMAIN accounts
                     /\ accounts[meInfo.uid].aes = k
    IN  /\ pc = "save_aes" => shared(aesKey)
        /\ pc \in {"select", "upload"} /\ aesKeyFile > 0 => shared(aesKeyFile)

\* The key pair that is about to be saved is newer than every key in use, and
\* there is no me.info while a new user registers.
FreshKeyInv ==
    LET old(k) == IF pc = "append_key" THEN k < rsaKey ELSE k =< rsaKeys
    IN  /\ rsaKey =< rsaKeys
        /\ old(meInfo.key)
        /\ \A u \in DOMAIN accounts : old(accounts[u].pub)
        /\ toServer # <<>> /\ Request.code = "PUBLIC_KEY_SEND" => Request.key =< rsaKeys
        /\ pc = "append_key" => meInfo.key = Nothing
        /\ ~meInfo.exists => meInfo = NoInfo
        /\ pc \in {"prompt", "await_registration", "save_info"} => ~meInfo.exists

\* The user id on its way from the response to me.info, and from there to the server
\* with the key: one that was issued and has no key yet.
FreshUidInv ==
    ioFaults = 0 /\ faults = 0 =>
        /\ toClient # <<>> /\ Answer.code = "REGISTRATION_SUCCESS" =>
               Answer.uid \in DOMAIN accounts
        /\ pc = "save_info" => newUid \in DOMAIN accounts
        /\ pc \in {"save_private", "send_key"} => Unkeyed(meInfo.uid)
        /\ toServer # <<>> /\ Request.code = "PUBLIC_KEY_SEND" =>
               Request.uid = meInfo.uid /\ Request.key # Nothing /\ Unkeyed(meInfo.uid)

SessionInv ==
    /\ OneExchange /\ TrueAnswer /\ IdentityInv /\ ToldInv /\ SessionKeyInv
    /\ FreshKeyInv /\ FreshUidInv
=============================================================================

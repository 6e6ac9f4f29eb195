------------------------- MODULE ClientSessionProofs -------------------------
(***************************************************************************)
(* Theorems of ClientSession: its type invariant, and the properties of    *)
(* the identity and of the keys that the runs check, for any number of     *)
(* runs, crashes, disk failures and wrong responses.                       *)
(***************************************************************************)
EXTENDS ClientSession, SequenceTheorems, TLAPS

-----------------------------------------------------------------------------
(* Types *)

\* The order of the steps of the key exchange.
LEMMA Exchanged ==
    /\ Advance("save_info") => Goto("save_info", "append_key")
    /\ Advance("append_key") => Goto("append_key", "save_private")
    /\ Advance("save_private") => Goto("save_private", "send_key")
    /\ Advance("send_key") => Goto("send_key", "await_key")
BY DEF Advance, KeyExchangeSteps, Goto

LEMMA TransmitTyped ==
    ASSUME TypeOK, NEW m \in Requests, Transmit(m)
    PROVE  toServer' \in Seq(Requests) /\ UNCHANGED <<link, toClient>>
BY DEF TypeOK, Transmit

LEMMA AnswerTyped ==
    ASSUME TypeOK, Receive
    PROVE  /\ Answer \in Replies /\ toClient' \in Seq(Replies)
           /\ UNCHANGED <<link, toServer>>
BY DEF TypeOK, Receive, Answer

LEMMA RequestTyped ==
    ASSUME TypeOK, NEW code, Take(code)
    PROVE  /\ Request \in Requests /\ Request.code = code
           /\ toServer' \in Seq(Requests)
BY DEF TypeOK, Take, Request

LEMMA AnswersTyped ==
    ASSUME TypeOK, NEW r \in Replies, Answers(r)
    PROVE  toClient' \in Seq(Replies) /\ faults' \in Nat
<1>1. toClient \in Seq(Replies) /\ faults \in Nat /\ Len(accounts) \in Nat
  BY DEF TypeOK
<1>2. ASSUME NEW w \in WrongReplies PROVE w \in Replies
  <2>1. PICK code \in ReplyCodes, u \in 1 .. Len(accounts) + 1 : w = Reply(code, u)
    BY <1>2 DEF WrongReplies
  <2> QED  BY <1>1, <2>1 DEF Reply, Replies, Nothing
<1> QED  BY <1>1, <1>2 DEF Answers

\* A file is written, or an I/O fault is counted.
LEMMA IoTyped ==
    ASSUME TypeOK, NoIoFault \/ IoFault
    PROVE  ioFaults' \in Nat /\ UNCHANGED <<connectFailed, crashed, runs, prompts>>
BY DEF TypeOK, NoIoFault, IoFault, tally

LEMMA TypeInit == Init => TypeOK
<1> SUFFICES ASSUME Init PROVE TypeOK
  OBVIOUS
<1>1. /\ toServer \in Seq(Requests) /\ toClient \in Seq(Replies)
      /\ accounts \in Seq(Accounts)
  BY DEF Init
<1>2. meInfo \in Infos
  BY DEF Init, NoInfo, Infos, Nothing
<1>3. /\ pc = "connect" /\ pc \in Running \cup AtRest
      /\ socket \in {"closed", "open", "connected"} /\ link \in {"up", "down"}
      /\ opCode \in KeyCodes \cup {"none"} /\ username \in Usernames \cup {NoName}
      /\ connectFailed \in BOOLEAN /\ crashed \in BOOLEAN
      /\ privateKey \in Nat \cup {Absent} /\ aesKeyFile \in Nat \cup {Absent}
  BY DEF Init, Running
<1>4. /\ {newUid, rsaKey, aesKey, aesKeys, rsaKeys} \subseteq Nat
      /\ {runs, prompts, ioFaults, faults, forgets} \subseteq Nat
  BY DEF Init, Nothing
<1> QED  BY <1>1, <1>2, <1>3, <1>4 DEF TypeOK

LEMMA StartTyped == TypeOK /\ Start => TypeOK'
<1> SUFFICES ASSUME TypeOK, Start PROVE TypeOK'
  OBVIOUS
<1> USE DEF TypeOK, Running, Awaiting, AtRest, Goto, memory, files, net, server, tally
<1>1. CASE Connect
  BY <1>1 DEF Connect
<1>2. CASE AddressFails
  BY <1>2 DEF AddressFails
<1>3. CASE ConnectFails
  BY <1>3 DEF ConnectFails
<1> QED  BY <1>1, <1>2, <1>3 DEF Start

LEMMA FailuresTyped == TypeOK /\ Failures => TypeOK'
<1> SUFFICES ASSUME TypeOK, Failures PROVE TypeOK'
  OBVIOUS
<1> USE DEF TypeOK, Running, Awaiting, AtRest, Goto, memory, files, net, server, tally
<1>1. CASE SendFails
  BY <1>1 DEF SendFails
<1>2. CASE ReceiveFails
  BY <1>2 DEF ReceiveFails
<1>3. CASE OpenFails
  BY <1>3 DEF OpenFails, IoFault
<1>4. CASE Cancel
  BY <1>4 DEF Cancel
<1> QED  BY <1>1, <1>2, <1>3, <1>4 DEF Failures

LEMMA RegisterTyped == TypeOK /\ Register => TypeOK'
<1> SUFFICES ASSUME TypeOK, Register PROVE TypeOK'
  OBVIOUS
<1> USE DEF Running, Awaiting, AtRest, Goto, memory, files, net, server, tally
<1>1. CASE StartRegistration
  BY <1>1 DEF TypeOK, StartRegistration
<1>2. CASE EnterName
  <2>1. PICK n \in Usernames :
            username' = n /\ Transmit([code |-> "REGISTRATION", name |-> n])
    BY <1>2 DEF EnterName
  <2>2. toServer' \in Seq(Requests) /\ UNCHANGED <<link, toClient>>
    BY <2>1, TransmitTyped DEF Requests, RegisterRequest
  <2>3. NoName \notin Usernames
    BY SessionAssumption
  <2> QED  BY <1>2, <2>1, <2>2, <2>3 DEF TypeOK, EnterName
<1>3. CASE NameTaken
  <2>1. toClient' \in Seq(Replies) /\ UNCHANGED <<link, toServer>>
    BY <1>3, AnswerTyped DEF NameTaken
  <2> QED  BY <1>3, <2>1 DEF TypeOK, NameTaken, StepAfterTaken
<1>4. CASE Registered
  <2>1. /\ Answer \in Replies /\ toClient' \in Seq(Replies)
        /\ UNCHANGED <<link, toServer>>
    BY <1>4, AnswerTyped DEF Registered
  <2>2. newUid' \in Nat
    BY <1>4, <2>1 DEF Registered, Replies
  <2> QED  BY <1>4, <2>1, <2>2 DEF TypeOK, Registered
<1>5. CASE RegistrationThrows
  <2>1. toClient' \in Seq(Replies) /\ UNCHANGED <<link, toServer>>
    BY <1>5, AnswerTyped DEF RegistrationThrows
  <2> QED  BY <1>5, <2>1 DEF TypeOK, RegistrationThrows
<1> QED  BY <1>1, <1>2, <1>3, <1>4, <1>5 DEF Register

LEMMA ExchangeTyped == TypeOK /\ Exchange => TypeOK'
<1> SUFFICES ASSUME TypeOK, Exchange PROVE TypeOK'
  OBVIOUS
<1> USE DEF Running, Awaiting, AtRest, Goto, memory, files, net, server, tally, Nothing, Absent
<1>1. CASE SaveInfo
  <2>0. newUid \in Nat /\ username \in Usernames \cup {NoName}
    BY DEF TypeOK
  <2>1. meInfo' \in Infos
    <3>1. Info(username, newUid, Nothing) \in Infos /\ EmptyInfo \in Infos
      BY <2>0 DEF Info, EmptyInfo, Infos
    <3> QED  BY <1>1, <3>1 DEF SaveInfo
  <2>3. ioFaults' \in Nat /\ UNCHANGED <<connectFailed, crashed, runs, prompts>>
    BY <1>1, IoTyped DEF SaveInfo
  <2>2. Goto("save_info", "append_key")
    BY <1>1, Exchanged DEF SaveInfo
  <2> QED  BY <1>1, <2>1, <2>2, <2>3 DEF TypeOK, SaveInfo
<1>2. CASE AppendKey
  <2>0. meInfo \in Infos /\ rsaKey \in Nat
    BY DEF TypeOK
  <2>1. meInfo' \in Infos
    <3>1. [meInfo EXCEPT !.key = rsaKey] \in Infos
      BY <2>0 DEF Infos
    <3> QED  BY <1>2, <2>0, <3>1 DEF AppendKey
  <2>3. ioFaults' \in Nat /\ UNCHANGED <<connectFailed, crashed, runs, prompts>>
    BY <1>2, IoTyped DEF AppendKey
  <2>2. Goto("append_key", "save_private")
    BY <1>2, Exchanged DEF AppendKey
  <2> QED  BY <1>2, <2>1, <2>2, <2>3 DEF TypeOK, AppendKey
<1>3. CASE AppendKeyThrows
  BY <1>3 DEF TypeOK, AppendKeyThrows
<1>4. CASE SavePrivate
  <2>1. privateKey' \in Nat /\ ioFaults' \in Nat /\ UNCHANGED <<connectFailed, crashed, runs, prompts>>
    BY <1>4 DEF SavePrivate, TypeOK, IoFault, NoIoFault
  <2>2. Goto("save_private", "send_key")
    BY <1>4, Exchanged DEF SavePrivate
  <2> QED  BY <1>4, <2>1, <2>2 DEF TypeOK, SavePrivate
<1>5. CASE SendKey
  <2>1. [code |-> "PUBLIC_KEY_SEND", uid |-> meInfo.uid, key |-> rsaKey] \in Requests
    BY DEF TypeOK, Infos, Requests, KeyRequest
  <2>2. toServer' \in Seq(Requests) /\ UNCHANGED <<link, toClient>>
    BY <1>5, <2>1, TransmitTyped DEF SendKey
  <2>3. Goto("send_key", "await_key")
    BY <1>5, Exchanged DEF SendKey
  <2> QED  BY <1>5, <2>2, <2>3 DEF TypeOK, SendKey, KeyCodes
<1> QED  BY <1>1, <1>2, <1>3, <1>4, <1>5 DEF Exchange

LEMMA ReenterTyped == TypeOK /\ Reenter => TypeOK'
<1> SUFFICES ASSUME TypeOK, Reenter PROVE TypeOK'
  OBVIOUS
<1> USE DEF Running, Awaiting, AtRest, Goto, memory, files, net, server, tally, Nothing
<1>1. CASE ReRegister
  <2>1. meInfo \in Infos /\ meInfo.key # 0 /\ meInfo.name # NoName
    BY <1>1 DEF ReRegister, Complete, TypeOK
  <2>2. [code |-> "RE_REGISTRATION", name |-> meInfo.name, uid |-> meInfo.uid] \in Requests
    BY <2>1 DEF Infos, Requests, ReRegisterRequest
  <2>3. toServer' \in Seq(Requests) /\ UNCHANGED <<link, toClient>>
    BY <1>1, <2>2, TransmitTyped DEF ReRegister
  <2>4. rsaKey' \in Nat /\ rsaKey' # 0
    BY <1>1, <2>1 DEF ReRegister, LoadedKey, Infos
  <2> QED  BY <1>1, <2>3, <2>4 DEF TypeOK, ReRegister, KeyCodes
<1>2. CASE CredentialsMissing
  BY <1>2 DEF TypeOK, CredentialsMissing
<1> QED  BY <1>1, <1>2 DEF Reenter

LEMMA KeyReceiptTyped == TypeOK /\ KeyReceipt => TypeOK'
<1> SUFFICES ASSUME TypeOK, KeyReceipt PROVE TypeOK'
  OBVIOUS
<1> USE DEF Running, Awaiting, AtRest, Goto, memory, files, net, server, tally, Nothing, Absent
<1>1. CASE ReceiveKey
  <2>1. /\ Answer \in Replies /\ toClient' \in Seq(Replies)
        /\ UNCHANGED <<link, toServer>>
    BY <1>1, AnswerTyped DEF ReceiveKey
  <2>2. aesKey' \in Nat
    BY <1>1, <2>1 DEF ReceiveKey, Replies
  <2> QED  BY <1>1, <2>1, <2>2 DEF TypeOK, ReceiveKey
<1>2. CASE KeyThrows
  <2>1. toClient' \in Seq(Replies) /\ UNCHANGED <<link, toServer>>
    BY <1>2, AnswerTyped DEF KeyThrows
  <2>2. ioFaults' \in Nat /\ UNCHANGED <<connectFailed, crashed, runs, prompts>>
    BY <1>2, IoTyped DEF KeyThrows
  <2> QED  BY <1>2, <2>1, <2>2 DEF TypeOK, KeyThrows
<1>3. CASE IdentityRejected
  <2>1. toClient' \in Seq(Replies) /\ UNCHANGED <<link, toServer>>
    BY <1>3, AnswerTyped DEF IdentityRejected
  <2>2. meInfo' \in Infos
    BY <1>3 DEF IdentityRejected, NoInfo, Infos
  <2> QED  BY <1>3, <2>1, <2>2 DEF TypeOK, IdentityRejected
<1>4. CASE SaveAesKey
  <2>1. aesKeyFile' \in Nat /\ ioFaults' \in Nat /\ UNCHANGED <<connectFailed, crashed, runs, prompts>>
    BY <1>4 DEF SaveAesKey, AesKeyToSave, TypeOK, IoFault, NoIoFault
  <2> QED  BY <1>4, <2>1 DEF TypeOK, SaveAesKey
<1> QED  BY <1>1, <1>2, <1>3, <1>4 DEF KeyReceipt

LEMMA BackupMainTyped == TypeOK /\ (Backup \/ Main) => TypeOK'
<1> SUFFICES ASSUME TypeOK, Backup \/ Main PROVE TypeOK'
  OBVIOUS
<1> USE DEF TypeOK, Running, Awaiting, AtRest, Goto, memory, files, net, server, tally
<1>1. CASE Select
  BY <1>1 DEF Select
<1>2. CASE UploadReturns
  BY <1>2 DEF UploadReturns
<1>3. CASE UploadThrows
  BY <1>3 DEF UploadThrows
<1>4. CASE Disconnect
  BY <1>4, EmptySeq DEF Disconnect, HangUp
<1>5. CASE HandlerDisconnects
  BY <1>5, EmptySeq DEF HandlerDisconnects, HangUp
<1>6. CASE HandlerThrows
  BY <1>6 DEF HandlerThrows
<1>7. CASE Cleanup
  BY <1>7 DEF Cleanup, Absent
<1>8. CASE CleanupThrows
  BY <1>8 DEF CleanupThrows, IoFault
<1> QED  BY <1>1, <1>2, <1>3, <1>4, <1>5, <1>6, <1>7, <1>8 DEF Backup, Main

\* What the server's actions have in common: a request is taken and answered,
\* and the accounts are updated.
ServerActs ==
    /\ \E code : Take(code)
    /\ \E r \in Replies : Answers(r)
    /\ accounts' \in Seq(Accounts) /\ aesKeys' \in Nat
    /\ UNCHANGED <<Outside, forgets>>

\* An account gets a public key and an AES key.
LEMMA AccountKeyed ==
    ASSUME NEW a \in Accounts, NEW pub \in Nat, NEW k \in Nat
    PROVE  /\ Keyed(a, pub, k) \in Accounts
           /\ Keyed(a, pub, k).pub = pub /\ Keyed(a, pub, k).aes = k
           /\ Keyed(a, pub, k).status = a.status
BY DEF Accounts, Keyed

\* A new AES key is sent to a user it knows.
LEMMA KeyGiven ==
    ASSUME TypeOK, NEW code \in ReplyCodes, NEW u \in DOMAIN accounts, NEW pub \in Nat,
           GiveAesKey(code, u, pub)
    PROVE  /\ accounts' \in Seq(Accounts) /\ DOMAIN accounts' = DOMAIN accounts
           /\ accounts'[u].pub = pub /\ accounts'[u].aes = aesKeys + 1
           /\ accounts'[u].status = accounts[u].status
           /\ \A v \in DOMAIN accounts : v # u => accounts'[v] = accounts[v]
           /\ aesKeys + 1 \in Nat \ {0} /\ aesKeys' \in Nat
           /\ KeyReply(code, u, aesKeys + 1, pub) \in Replies
           /\ Answers(KeyReply(code, u, aesKeys + 1, pub))
<1>1. /\ accounts \in Seq(Accounts) /\ aesKeys \in Nat
      /\ aesKeys + 1 \in Nat /\ aesKeys + 1 # 0
  BY DEF TypeOK
<1>2. accounts[u] \in Accounts /\ u \in Nat
  BY <1>1
<1> DEFINE b == Keyed(accounts[u], pub, aesKeys + 1)
<1>3. accounts[u] \in Accounts /\ aesKeys + 1 \in Nat
  BY <1>1, <1>2
<1>7. b \in Accounts /\ b.pub = pub /\ b.aes = aesKeys + 1
  <2>1. b \in Accounts
    BY <1>3, AccountKeyed
  <2>2. b.pub = pub
    BY <1>3, AccountKeyed
  <2>3. b.aes = aesKeys + 1
    BY DEF Keyed
  <2> QED  BY <2>1, <2>2, <2>3
<1>8. b.status = accounts[u].status
  BY <1>3 DEF Accounts, Keyed
<1>4. accounts' = [accounts EXCEPT ![u] = b]
  BY <1>1, <1>2 DEF GiveAesKey
<1> HIDE DEF b
<1>5. accounts' \in Seq(Accounts) /\ DOMAIN accounts' = DOMAIN accounts /\ accounts'[u] = b
      /\ \A v \in DOMAIN accounts : v # u => accounts'[v] = accounts[v]
  BY <1>1, <1>7, <1>4
<1>6. KeyReply(code, u, aesKeys + 1, pub) \in Replies
  BY <1>1, <1>2 DEF KeyReply, Replies
<1> QED  BY <1>1, <1>5, <1>6, <1>7, <1>8 DEF GiveAesKey

LEMMA ServerServes == TypeOK /\ Server => ServerActs
<1> SUFFICES ASSUME TypeOK, Server PROVE ServerActs
  OBVIOUS
<1>0. accounts \in Seq(Accounts) /\ aesKeys \in Nat /\ Len(accounts) \in Nat
  BY DEF TypeOK
<1>1. ASSUME NEW code \in ReplyCodes, NEW u \in Nat
      PROVE  Reply(code, u) \in Replies
  BY DEF Reply, Replies, Nothing
<1>2. ASSUME NEW code, Take(code)
      PROVE  Request \in Requests /\ Request.code = code
  BY <1>2, RequestTyped
<1>3. CASE ServeRegistration
  <2>1. Request \in Requests /\ Request.code = "REGISTRATION"
    BY <1>2, <1>3 DEF ServeRegistration
  <2>2. Request.name \in Usernames
    BY <2>1 DEF Requests, RegisterRequest, ReRegisterRequest, KeyRequest
  <2>3. [status |-> "known", name |-> Request.name, pub |-> Nothing, aes |-> Nothing] \in Accounts
    BY <2>2 DEF Accounts, Nothing
  <2>4. accounts' \in Seq(Accounts)
    BY <1>0, <1>3, <2>3 DEF ServeRegistration
  <2>5. Reply("REGISTRATION_SUCCESS", Len(accounts) + 1) \in Replies
    BY <1>0, <1>1 DEF ReplyCodes
  <2> QED  BY <1>0, <1>3, <2>4, <2>5 DEF ServeRegistration, ServerActs
<1>4. CASE RefuseRegistration
  <2>1. /\ Reply("USERNAME_TAKEN", Nothing) \in Replies
        /\ Reply("REGISTRATION_FAILED", Nothing) \in Replies
    BY <1>1 DEF ReplyCodes, Nothing
  <2> QED  BY <1>0, <1>4, <2>1 DEF RefuseRegistration, ServerActs
<1>5. CASE ServeKey
  <2>1. Request \in Requests /\ Request.code = "PUBLIC_KEY_SEND"
    BY <1>2, <1>5 DEF ServeKey
  <2>2. Request.uid \in DOMAIN accounts /\ Request.key \in Nat
    BY <1>5, <2>1 DEF ServeKey, Known, Requests, RegisterRequest, ReRegisterRequest, KeyRequest
  <2>3. GiveAesKey("KEY_SEND_SUCCESS", Request.uid, Request.key)
    BY <1>5 DEF ServeKey
  <2>4. /\ accounts' \in Seq(Accounts) /\ aesKeys' \in Nat
        /\ \E r \in Replies : Answers(r)
    BY <2>2, <2>3, KeyGiven DEF ReplyCodes, KeyCodes
  <2> QED  BY <1>5, <2>4 DEF ServeKey, ServerActs
<1>6. CASE RefuseKey
  <2>1. Request \in Requests /\ Request.code = "PUBLIC_KEY_SEND"
    BY <1>2, <1>6 DEF RefuseKey
  <2>2. Request.uid \in Nat
    BY <2>1 DEF Requests, RegisterRequest, ReRegisterRequest, KeyRequest
  <2>3. Reply("FAILED", Request.uid) \in Replies
    BY <1>1, <2>2 DEF ReplyCodes
  <2> QED  BY <1>0, <1>6, <2>3 DEF RefuseKey, ServerActs
<1>7. CASE ServeReRegistration
  <2>1. Request.uid \in DOMAIN accounts
    BY <1>7 DEF ServeReRegistration, Honoured, Known
  <2>2. accounts[Request.uid].pub \in Nat
    <3>1. accounts[Request.uid] \in Accounts
      BY <1>0, <2>1
    <3> QED  BY <3>1 DEF Accounts
  <2>3. GiveAesKey("RE_REGISTRATION_SUCCESS", Request.uid, accounts[Request.uid].pub)
    BY <1>7 DEF ServeReRegistration
  <2>4. /\ accounts' \in Seq(Accounts) /\ aesKeys' \in Nat
        /\ \E r \in Replies : Answers(r)
    BY <2>1, <2>2, <2>3, KeyGiven DEF ReplyCodes, KeyCodes
  <2> QED  BY <1>7, <2>4 DEF ServeReRegistration, ServerActs
<1>8. CASE RefuseReRegistration
  <2>1. Request \in Requests /\ Request.code = "RE_REGISTRATION"
    BY <1>2, <1>8 DEF RefuseReRegistration
  <2>2. Request.uid \in Nat
    BY <2>1 DEF Requests, RegisterRequest, ReRegisterRequest, KeyRequest
  <2>3. Reply("RE_REGISTRATION_FAILED", Request.uid) \in Replies
    BY <1>1, <2>2 DEF ReplyCodes
  <2> QED  BY <1>0, <1>8, <2>3 DEF RefuseReRegistration, ServerActs
<1> QED  BY <1>3, <1>4, <1>5, <1>6, <1>7, <1>8 DEF Server

LEMMA ServerTyped == TypeOK /\ Server => TypeOK'
<1> SUFFICES ASSUME TypeOK, ServerActs PROVE TypeOK'
  BY ServerServes
<1>1. toServer' \in Seq(Requests)
  BY RequestTyped DEF ServerActs
<1>2. toClient' \in Seq(Replies) /\ faults' \in Nat
  BY AnswersTyped DEF ServerActs
<1> QED  BY <1>1, <1>2 DEF TypeOK, ServerActs, Outside, memory, files, tally

\* A sequence with one of its elements replaced.
LEMMA ElementReplaced ==
    ASSUME NEW S, NEW s \in Seq(S), NEW i \in DOMAIN s, NEW e \in S
    PROVE  [s EXCEPT ![i] = e] \in Seq(S)
OBVIOUS

LEMMA SurroundingsTyped == TypeOK /\ Surroundings => TypeOK'
<1> SUFFICES ASSUME TypeOK, Surroundings PROVE TypeOK'
  OBVIOUS
<1> USE DEF Running, Awaiting, AtRest, memory, files, server, tally, Nothing, Absent
<1>1. CASE Forget
  <2>1. PICK u \in DOMAIN accounts : accounts' = [accounts EXCEPT ![u].status = "forgotten"]
    BY <1>1 DEF Forget
  <2>2. accounts \in Seq(Accounts) /\ accounts[u] \in Accounts
    BY DEF TypeOK
  <2>3. [accounts[u] EXCEPT !.status = "forgotten"] \in Accounts
    BY <2>2 DEF Accounts
  <2>4. PICK a \in Accounts : a = [accounts[u] EXCEPT !.status = "forgotten"]
    BY <2>3
  <2>5. accounts' = [accounts EXCEPT ![u] = a]
    BY <2>1, <2>4
  <2>6. accounts' \in Seq(Accounts)
    <3>1. PICK s \in Seq(Accounts) : s = accounts
      BY <2>2
    <3>2. u \in DOMAIN s /\ accounts' = [s EXCEPT ![u] = a]
      BY <2>5, <3>1
    <3>3. PICK r : r = [s EXCEPT ![u] = a]
      OBVIOUS
    <3>4. r \in Seq(Accounts)
      BY ONLY <3>2, <3>3, ElementReplaced, Zenon
    <3>5. accounts' = r
      BY ONLY <3>2, <3>3, Zenon
    <3> QED  BY ONLY <3>4, <3>5
  <2> QED  BY <1>1, <2>6 DEF TypeOK, Forget, Outside
<1>2. CASE LinkBreaks
  BY <1>2, EmptySeq DEF TypeOK, LinkBreaks
<1>3. CASE Crash
  <2>1. meInfo' \in Infos
    <3>1. meInfo \in Infos /\ EmptyInfo \in Infos
      BY DEF TypeOK, EmptyInfo, Info, Infos
    <3> QED  BY <1>3, <3>1 DEF Crash
  <2>2. toServer' \in Seq(Requests) /\ toClient' \in Seq(Replies)
    BY <1>3, EmptySeq DEF Crash, HangUp
  <2>3. privateKey' \in Nat \cup {Absent} /\ aesKeyFile' \in Nat \cup {Absent}
    BY <1>3 DEF Crash, TypeOK
  <2> QED  BY <1>3, <2>1, <2>2, <2>3 DEF TypeOK, Crash, HangUp
<1>4. CASE NextRun
  <2>1. toServer' \in Seq(Requests) /\ toClient' \in Seq(Replies)
    BY <1>4, EmptySeq DEF NextRun
  <2>2. {runs', prompts', ioFaults', faults', forgets'} \subseteq Nat
    BY <1>4 DEF NextRun, TypeOK
  <2>3. /\ newUid' \in Nat /\ rsaKey' \in Nat /\ aesKey' \in Nat /\ rsaKeys' \in Nat
        /\ aesKeys' \in Nat /\ connectFailed' \in BOOLEAN /\ crashed' \in BOOLEAN
    BY <1>4 DEF NextRun, TypeOK
  <2> QED  BY <1>4, <2>1, <2>2, <2>3 DEF TypeOK, NextRun
<1> QED  BY <1>1, <1>2, <1>3, <1>4 DEF Surroundings

LEMMA TypeStep == TypeOK /\ [Next]_vars => TypeOK'
<1> SUFFICES ASSUME TypeOK, [Next]_vars PROVE TypeOK'
  OBVIOUS
<1>1. CASE Client
  BY <1>1, StartTyped, FailuresTyped, RegisterTyped, ExchangeTyped, ReenterTyped,
     KeyReceiptTyped, BackupMainTyped DEF Client
<1>2. CASE UNCHANGED vars
  BY <1>2 DEF TypeOK, vars, memory, files, net, server, tally
<1> QED  BY <1>1, <1>2, ServerTyped, SurroundingsTyped DEF Next, Over

\* Every variable of the session keeps its type, whatever the bounds.
THEOREM TypeCorrect == Spec => []TypeOK
BY TypeInit, TypeStep, PTL DEF Spec

-----------------------------------------------------------------------------
(* One request or response at a time *)

\* The client takes the only message there is.
LEMMA TakesAnswer ==
    ASSUME TypeOK, OneExchange, Receive
    PROVE  /\ toServer = <<>> /\ toServer' = <<>> /\ toClient' = <<>>
           /\ pc \in Awaiting /\ link' = link
<1>1. toServer \in Seq(Requests) /\ toClient \in Seq(Replies) /\ toClient # <<>>
  BY DEF TypeOK, Receive
<1>0. Len(toServer) + Len(toClient) =< 1
  BY DEF OneExchange
<1>2. Len(toClient) \in Nat /\ Len(toClient) # 0 /\ Len(toServer) \in Nat
  BY <1>1, EmptySeq
<1>3. Len(toClient) = 1 /\ Len(toServer) = 0
  BY <1>0, <1>2
<1>4. toServer = <<>> /\ Tail(toClient) = <<>>
  <2>1. Tail(toClient) \in Seq(Replies) /\ Len(Tail(toClient)) = 0
    BY <1>1, <1>3
  <2> QED  BY <1>1, <1>3, <2>1, EmptySeq
<1>5. toClient' = Tail(toClient) /\ toServer' = toServer /\ link' = link
  BY DEF Receive
<1>6. pc \in Awaiting
  BY <1>1 DEF OneExchange
<1> QED  BY <1>4, <1>5, <1>6

\* The client sends when nothing is under way.
LEMMA SendsRequest ==
    ASSUME TypeOK, OneExchange, pc \notin Awaiting, NEW m \in Requests, Transmit(m)
    PROVE  /\ toClient = <<>> /\ toClient' = <<>> /\ link' = link
           /\ toServer' = <<>> \/ (toServer' = <<m>> /\ link = "up")
BY DEF OneExchange, Transmit, TypeOK

\* The server takes the only message there is and answers it.
LEMMA ServesRequest ==
    ASSUME TypeOK, OneExchange, NEW code, Take(code), NEW r \in Replies, Answers(r)
    PROVE  /\ toClient = <<>> /\ toServer' = <<>> /\ pc \in Awaiting /\ link = "up"
           /\ \/ toClient' = <<r>> /\ faults' = faults
              \/ faults' # 0 /\ \E w \in WrongReplies : toClient' = <<w>>
<1>1. toServer \in Seq(Requests) /\ toClient \in Seq(Replies) /\ toServer # <<>>
      /\ faults \in Nat
  BY DEF TypeOK, Take
<1>2. Len(toClient) \in Nat /\ Len(toServer) \in Nat /\ Len(toServer) # 0
  BY <1>1, EmptySeq
<1>3. Len(toClient) = 0 /\ Len(toServer) = 1
  BY <1>2 DEF OneExchange
<1>4. toClient = <<>> /\ Tail(toServer) = <<>>
  <2>1. Tail(toServer) \in Seq(Requests) /\ Len(Tail(toServer)) = 0
    BY <1>1, <1>3
  <2> QED  BY <1>1, <1>3, <2>1, EmptySeq
<1>5. toServer' = <<>> /\ pc \in Awaiting /\ link = "up"
  BY <1>1, <1>4 DEF Take, OneExchange
<1>6. \A w : Append(toClient, w) = <<w>>
  BY <1>4
<1>7. \/ toClient' = <<r>> /\ faults' = faults
      \/ faults' = faults + 1 /\ \E w \in WrongReplies : toClient' = <<w>>
  BY <1>6 DEF Answers
<1> QED  BY <1>1, <1>4, <1>5, <1>7

\* No client action touches the server, and each leaves what is on its way
\* to the client alone, or takes it.
LEMMA ClientNet ==
    ASSUME TypeOK, OneExchange, Client
    PROVE  /\ UNCHANGED server
           /\ toClient' = toClient \/ toClient' = <<>>
<1> USE DEF net
<1>1. CASE Start
  BY <1>1 DEF Start, Connect, AddressFails, ConnectFails
<1>2. CASE Failures
  BY <1>2 DEF Failures, SendFails, ReceiveFails, OpenFails, Cancel
<1>3. CASE Register
  BY <1>3, TakesAnswer DEF Register, StartRegistration, EnterName, NameTaken, Registered,
     RegistrationThrows, Transmit
<1>4. CASE Exchange
  BY <1>4 DEF Exchange, SaveInfo, AppendKey, AppendKeyThrows, SavePrivate, SendKey, Transmit
<1>5. CASE Reenter
  BY <1>5 DEF Reenter, ReRegister, CredentialsMissing, Transmit
<1>6. CASE KeyReceipt
  BY <1>6, TakesAnswer DEF KeyReceipt, ReceiveKey, KeyThrows, IdentityRejected, SaveAesKey
<1>7. CASE Backup
  BY <1>7 DEF Backup, Select, UploadReturns, UploadThrows, Disconnect, HangUp
<1>8. CASE Main
  BY <1>8 DEF Main, HandlerDisconnects, HandlerThrows, Cleanup, CleanupThrows, HangUp
<1> QED  BY <1>1, <1>2, <1>3, <1>4, <1>5, <1>6, <1>7, <1>8 DEF Client

LEMMA OneExchangeStep == TypeOK /\ OneExchange /\ [Next]_vars => OneExchange'
<1> SUFFICES ASSUME TypeOK, OneExchange, [Next]_vars PROVE OneExchange'
  OBVIOUS
<1> USE DEF net
<1>0. Len(<<>>) = 0 /\ \A x : Len(<<x>>) = 1
  OBVIOUS
<1>1. ASSUME toServer' = <<>>, toClient' = <<>> PROVE OneExchange'
  BY <1>0, <1>1 DEF OneExchange
<1>2. ASSUME UNCHANGED net, pc \in Awaiting => pc' \in Awaiting PROVE OneExchange'
  BY <1>2 DEF OneExchange
<1>3. ASSUME pc \notin Awaiting, UNCHANGED <<toServer, toClient>> PROVE OneExchange'
  BY <1>1, <1>3 DEF OneExchange
<1>4. ASSUME pc \notin Awaiting, pc' \in Awaiting, NEW m \in Requests, Transmit(m)
      PROVE  OneExchange'
  <2>1. /\ toClient' = <<>> /\ link' = link
        /\ toServer' = <<>> \/ (toServer' = <<m>> /\ link = "up")
    BY <1>4, SendsRequest
  <2>2. CASE toServer' = <<>>
    BY <1>1, <2>1, <2>2
  <2>3. CASE toServer' = <<m>> /\ link = "up"
    BY <1>0, <1>4, <2>1, <2>3 DEF OneExchange
  <2> QED  BY <2>1, <2>2, <2>3
<1>5. ASSUME NEW code, Take(code), NEW r \in Replies, Answers(r), UNCHANGED <<pc, link>>
      PROVE  OneExchange'
  <2>1. toServer' = <<>> /\ pc \in Awaiting /\ link = "up" /\ \E w : toClient' = <<w>>
    BY <1>5, ServesRequest
  <2> QED  BY <1>0, <1>5, <2>1 DEF OneExchange
<1>6. CASE Start
  BY <1>3, <1>6 DEF Start, Connect, AddressFails, ConnectFails, Goto, Awaiting
<1>7. CASE Failures
  <2>1. CASE SendFails \/ OpenFails \/ Cancel
    BY <1>3, <2>1 DEF SendFails, OpenFails, Cancel, SendPoints, OpenPoints, Awaiting
  <2>2. CASE ReceiveFails
    BY <1>1, <2>2 DEF ReceiveFails, OneExchange
  <2> QED  BY <1>7, <2>1, <2>2 DEF Failures
<1>8. CASE Register
  <2>1. CASE StartRegistration
    BY <1>3, <2>1 DEF StartRegistration, Goto, Awaiting
  <2>2. CASE EnterName
    <3>1. PICK n \in Usernames : Transmit([code |-> "REGISTRATION", name |-> n])
      BY <2>2 DEF EnterName
    <3>2. [code |-> "REGISTRATION", name |-> n] \in Requests
      BY DEF Requests, RegisterRequest
    <3> QED  BY <1>4, <2>2, <3>1, <3>2 DEF EnterName, Goto, Awaiting
  <2>3. CASE NameTaken \/ Registered \/ RegistrationThrows
    BY <1>1, <2>3, TakesAnswer DEF NameTaken, Registered, RegistrationThrows
  <2> QED  BY <1>8, <2>1, <2>2, <2>3 DEF Register
<1>9. CASE Exchange
  <2>1. CASE SaveInfo \/ AppendKey \/ AppendKeyThrows \/ SavePrivate
    BY <1>3, <2>1, Exchanged
       DEF SaveInfo, AppendKey, AppendKeyThrows, SavePrivate, Goto, Awaiting
  <2>2. CASE SendKey
    <3>1. [code |-> "PUBLIC_KEY_SEND", uid |-> meInfo.uid, key |-> rsaKey] \in Requests
      BY DEF TypeOK, Infos, Requests, KeyRequest
    <3> QED  BY <1>4, <2>2, <3>1, Exchanged DEF SendKey, Goto, Awaiting
  <2> QED  BY <1>9, <2>1, <2>2 DEF Exchange
<1>10. CASE Reenter
  <2>1. CASE ReRegister
    <3>1. [code |-> "RE_REGISTRATION", name |-> meInfo.name, uid |-> meInfo.uid] \in Requests
      BY <2>1 DEF TypeOK, Infos, ReRegister, Complete, Requests, ReRegisterRequest
    <3> QED  BY <1>4, <2>1, <3>1 DEF ReRegister, Goto, Awaiting
  <2>2. CASE CredentialsMissing
    BY <1>3, <2>2 DEF CredentialsMissing, Goto, Awaiting
  <2> QED  BY <1>10, <2>1, <2>2 DEF Reenter
<1>11. CASE KeyReceipt
  <2>1. CASE ReceiveKey \/ KeyThrows \/ IdentityRejected
    BY <1>1, <2>1, TakesAnswer DEF ReceiveKey, KeyThrows, IdentityRejected
  <2>2. CASE SaveAesKey
    BY <1>3, <2>2 DEF SaveAesKey, Goto, Awaiting
  <2> QED  BY <1>11, <2>1, <2>2 DEF KeyReceipt
<1>12. CASE Backup
  BY <1>1, <1>3, <1>12
     DEF Backup, Select, UploadReturns, UploadThrows, Disconnect, HangUp, Goto, Awaiting
<1>13. CASE Main
  BY <1>1, <1>3, <1>13
     DEF Main, HandlerDisconnects, HandlerThrows, Cleanup, CleanupThrows, HangUp, Goto, Awaiting
<1>14. CASE Server
  <2>1. ServerActs
    BY <1>14, ServerServes
  <2> QED  BY <1>5, <2>1 DEF ServerActs, Outside
<1>15. CASE Surroundings
  <2>1. CASE Forget
    BY <1>2, <2>1 DEF Forget, Outside
  <2>2. CASE LinkBreaks \/ Crash \/ NextRun
    BY <1>1, <2>2 DEF LinkBreaks, Crash, NextRun, HangUp
  <2> QED  BY <1>15, <2>1, <2>2 DEF Surroundings
<1>16. CASE UNCHANGED vars
  BY <1>2, <1>16 DEF vars
<1> QED  BY <1>6, <1>7, <1>8, <1>9, <1>10, <1>11, <1>12, <1>13, <1>14, <1>15, <1>16
         DEF Next, Client, Over

-----------------------------------------------------------------------------
(* What the server tells *)

\* What TrueAnswer says of a response that is not wrong.
TrueReply(r) ==
    /\ r.code = "RE_REGISTRATION_FAILED" => ~Honoured(r.uid)
    /\ r.code = "REGISTRATION_SUCCESS" =>
           r.uid # Nothing /\ r.uid \in DOMAIN accounts /\ Unkeyed(r.uid)
    /\ r.aes # Nothing => r.uid \in DOMAIN accounts /\ accounts[r.uid].aes = r.aes

\* The server's actions give a public key only to an account they know, the
\* one in the request, and answer what is so afterwards.
PubKept(v) == v \in DOMAIN accounts /\ accounts'[v].pub = accounts[v].pub
PubTaken(v) ==
    /\ Known(v) /\ Request.code = "PUBLIC_KEY_SEND"
    /\ accounts'[v].pub = Request.key
ServerTells ==
    /\ \E r \in Replies : Answers(r) /\ TrueReply(r)'
    /\ \A v \in DOMAIN accounts' :
           \/ v \notin DOMAIN accounts /\ accounts'[v].pub = Nothing
           \/ PubKept(v) \/ PubTaken(v)
    /\ \A v \in DOMAIN accounts \cap DOMAIN accounts' :
           accounts'[v].status = accounts[v].status

LEMMA ReplyTyped ==
    ASSUME NEW code \in ReplyCodes, NEW u \in Nat
    PROVE  /\ Reply(code, u) \in Replies
           /\ Reply(code, u).code = code /\ Reply(code, u).uid = u
           /\ Reply(code, u).aes = Nothing
BY DEF Reply, Replies, Nothing

\* The accounts stay as they are, and the answer is a refusal.
LEMMA Refuses ==
    ASSUME TypeOK, UNCHANGED accounts, NEW code \in ReplyCodes \ {"REGISTRATION_SUCCESS"},
           NEW u \in Nat, Answers(Reply(code, u)),
           code = "RE_REGISTRATION_FAILED" => ~Honoured(u)
    PROVE  ServerTells
<1>1. Reply(code, u) \in Replies /\ TrueReply(Reply(code, u))'
  BY ReplyTyped DEF TrueReply, Honoured, Known
<1> QED  BY <1>1 DEF ServerTells, PubKept

\* An AES key is given: to the user of the request, with the key that is in
\* the request or the one the server has already.
LEMMA GivesKey ==
    ASSUME TypeOK, NEW code \in KeyCodes, NEW u, NEW pub \in Nat,
           Known(u), GiveAesKey(code, u, pub),
           \/ pub = accounts[u].pub
           \/ Request.code = "PUBLIC_KEY_SEND" /\ pub = Request.key
    PROVE  ServerTells
<1>0. PICK k, r : k = aesKeys + 1 /\ r = KeyReply(code, u, k, pub)
  OBVIOUS
<1>1. /\ accounts' \in Seq(Accounts) /\ DOMAIN accounts' = DOMAIN accounts
      /\ accounts'[u].pub = pub /\ accounts'[u].aes = k
      /\ accounts'[u].status = accounts[u].status
      /\ \A v \in DOMAIN accounts : v # u => accounts'[v] = accounts[v]
      /\ r \in Replies /\ Answers(r) /\ u \in DOMAIN accounts
  BY <1>0, KeyGiven DEF Known, ReplyCodes
<1>2. TrueReply(r)'
  <2>1. r.code \in KeyCodes /\ r.uid = u /\ r.aes = k
    BY <1>0 DEF KeyReply
  <2> QED  BY <1>1, <2>1 DEF TrueReply, KeyCodes
<1>3. \A v \in DOMAIN accounts' : PubKept(v) \/ PubTaken(v)
  BY <1>1 DEF PubKept, PubTaken
<1>4. \A v \in DOMAIN accounts : accounts'[v].status = accounts[v].status
  BY <1>1, Zenon
<1> QED  BY <1>1, <1>2, <1>3, <1>4 DEF ServerTells

LEMMA ServerTellsTruth == TypeOK /\ Server => ServerTells
<1> SUFFICES ASSUME TypeOK, Server PROVE ServerTells
  OBVIOUS
<1>0. accounts \in Seq(Accounts) /\ Len(accounts) \in Nat
  BY DEF TypeOK
<1>1. ASSUME NEW code, Take(code)
      PROVE  Request \in Requests /\ Request.code = code
  BY <1>1, RequestTyped
<1>2. CASE ServeRegistration
  <2>0. PICK u, r : u = Len(accounts) + 1 /\ r = Reply("REGISTRATION_SUCCESS", u)
    OBVIOUS
  <2>1. u \in Nat /\ u # Nothing /\ u \notin DOMAIN accounts
    BY <1>0, <2>0 DEF Nothing
  <2>2. /\ r \in Replies /\ r.code = "REGISTRATION_SUCCESS" /\ r.uid = u
        /\ r.aes = Nothing
    BY <2>0, <2>1, ReplyTyped DEF ReplyCodes
  <2>3. /\ DOMAIN accounts' = DOMAIN accounts \cup {u} /\ accounts'[u].pub = Nothing
        /\ \A v \in DOMAIN accounts : accounts'[v] = accounts[v]
    BY <1>0, <1>2, <2>0 DEF ServeRegistration
  <2>4. Answers(r)
    BY <1>2, <2>0 DEF ServeRegistration
  <2>5. TrueReply(r)'
    BY <2>1, <2>2, <2>3 DEF TrueReply, Unkeyed
  <2> QED  BY <2>1, <2>2, <2>3, <2>4, <2>5 DEF ServerTells, PubKept
<1>3. CASE RefuseRegistration
  BY <1>3, Refuses DEF RefuseRegistration, ReplyCodes, Nothing
<1>4. CASE ServeKey
  <2>1. Request \in Requests /\ Request.code = "PUBLIC_KEY_SEND"
    BY <1>1, <1>4 DEF ServeKey
  <2>2. Request.key \in Nat
    BY <2>1 DEF Requests, RegisterRequest, ReRegisterRequest, KeyRequest
  <2> QED  BY <1>4, <2>1, <2>2, GivesKey DEF ServeKey, KeyCodes
<1>5. CASE RefuseKey
  <2>1. Request \in Requests /\ Request.code = "PUBLIC_KEY_SEND"
    BY <1>1, <1>5 DEF RefuseKey
  <2>2. Request.uid \in Nat
    BY <2>1 DEF Requests, RegisterRequest, ReRegisterRequest, KeyRequest
  <2> QED  BY <1>5, <2>2, Refuses DEF RefuseKey, ReplyCodes
<1>6. CASE ServeReRegistration
  <2>1. Known(Request.uid) /\ accounts[Request.uid] \in Accounts
    BY <1>0, <1>6 DEF ServeReRegistration, Honoured, Known
  <2>2. accounts[Request.uid].pub \in Nat
    BY <2>1 DEF Accounts
  <2> QED  BY <1>6, <2>1, <2>2, GivesKey DEF ServeReRegistration, KeyCodes
<1>7. CASE RefuseReRegistration
  <2>1. Request \in Requests /\ Request.code = "RE_REGISTRATION"
    BY <1>1, <1>7 DEF RefuseReRegistration
  <2>2. Request.uid \in Nat
    BY <2>1 DEF Requests, RegisterRequest, ReRegisterRequest, KeyRequest
  <2> QED  BY <1>7, <2>2, Refuses DEF RefuseReRegistration, ReplyCodes
<1> QED  BY <1>2, <1>3, <1>4, <1>5, <1>6, <1>7 DEF Server

LEMMA WrongReply ==
    ASSUME TypeOK, NEW w \in WrongReplies
    PROVE  /\ w.aes = Nothing /\ w.uid # Nothing
           /\ w.code = "RE_REGISTRATION_FAILED" => ~Known(w.uid)
<1>1. accounts \in Seq(Accounts) /\ Len(accounts) \in Nat
  BY DEF TypeOK
<1>2. PICK code \in ReplyCodes, u \in 1 .. Len(accounts) + 1 : w = Reply(code, u)
  BY DEF WrongReplies
<1>3. w.code = code /\ w.uid = u /\ w.aes = Nothing /\ w.uid # Nothing
  BY <1>1, <1>2 DEF Reply, Nothing
<1>4. ASSUME code = "RE_REGISTRATION_FAILED", Known(u) PROVE FALSE
  BY <1>2, <1>4 DEF WrongReplies, Known
<1> QED  BY <1>3, <1>4

\* A lost account keeps its keys.
LEMMA Forgets ==
    ASSUME TypeOK, Forget
    PROVE  /\ DOMAIN accounts' = DOMAIN accounts
           /\ \A v \in DOMAIN accounts :
                  accounts'[v].pub = accounts[v].pub /\ accounts'[v].aes = accounts[v].aes
           /\ \A v : Honoured(v)' => Honoured(v)
<1>1. PICK u \in DOMAIN accounts : accounts' = [accounts EXCEPT ![u].status = "forgotten"]
  BY DEF Forget
<1>2. accounts \in Seq(Accounts) /\ accounts[u] \in Accounts
  BY DEF TypeOK
<1>3. DOMAIN accounts' = DOMAIN accounts
  BY <1>1, <1>2
<1>4. \A v \in DOMAIN accounts :
          accounts'[v].pub = accounts[v].pub /\ accounts'[v].aes = accounts[v].aes
  BY <1>1, <1>2 DEF Accounts
<1>5. \A v : Known(v)' => Known(v)
  BY <1>1, <1>2, <1>3 DEF Known, Accounts
<1>6. \A v : Honoured(v)' => Honoured(v)
  BY <1>3, <1>4, <1>5 DEF Honoured, Known
<1> QED  BY <1>3, <1>4, <1>6

\* What is on its way to the client stays true, and what the server sends is.
LEMMA TrueAnswerStep == TypeOK /\ OneExchange /\ TrueAnswer /\ [Next]_vars => TrueAnswer'
<1> SUFFICES ASSUME TypeOK, OneExchange, TrueAnswer, [Next]_vars PROVE TrueAnswer'
  OBVIOUS
<1>1. ASSUME toClient' = <<>> PROVE TrueAnswer'
  BY <1>1 DEF TrueAnswer
<1>2. ASSUME UNCHANGED <<toClient, server>> PROVE TrueAnswer'
  BY <1>2 DEF TrueAnswer, Answer, Honoured, Known, Unkeyed, server
<1>3. CASE Client
  BY <1>1, <1>2, <1>3, ClientNet
<1>4. CASE Server
  <2>1. PICK r \in Replies : Answers(r) /\ TrueReply(r)'
    BY <1>4, ServerTellsTruth DEF ServerTells
  <2>2. \E code : Take(code)
    BY <1>4, ServerServes DEF ServerActs
  <2>3. \/ toClient' = <<r>> /\ faults' = faults
        \/ faults' # 0 /\ \E w \in WrongReplies : toClient' = <<w>>
    BY <2>1, <2>2, ServesRequest
  <2>4. CASE toClient' = <<r>>
    <3>1. Answer' = r
      BY <2>4 DEF Answer
    <3> QED  BY <2>1, <3>1 DEF TrueAnswer, TrueReply
  <2>5. ASSUME faults' # 0, NEW w \in WrongReplies, toClient' = <<w>> PROVE TrueAnswer'
    <3>1. Answer' = w
      BY <2>5 DEF Answer
    <3>2. ASSUME ~Known(w.uid) PROVE ~Honoured(w.uid)'
      BY <1>4, <3>2, ServerTellsTruth
         DEF ServerTells, Honoured, Known, PubKept, PubTaken, Nothing
    <3> QED  BY <2>5, <3>1, <3>2, WrongReply DEF TrueAnswer
  <2> QED  BY <2>3, <2>4, <2>5
<1>5. CASE Forget
  <2>1. UNCHANGED <<toClient, faults>>
    BY <1>5 DEF Forget
  <2>2. CASE toClient # <<>>
    BY <1>5, <2>1, <2>2, Forgets DEF TrueAnswer, Answer, Unkeyed
  <2> QED  BY <2>1, <2>2 DEF TrueAnswer
<1>6. CASE LinkBreaks \/ Crash \/ NextRun
  BY <1>1, <1>6 DEF LinkBreaks, Crash, NextRun, HangUp
<1>7. CASE UNCHANGED vars
  BY <1>2, <1>7 DEF vars, net
<1> QED  BY <1>3, <1>4, <1>5, <1>6, <1>7 DEF Next, Surroundings, Over

-----------------------------------------------------------------------------
(* The identity on the disk *)

\* No part of the invariant speaks of the other steps of the client.
LEMMA IdentityQuiet ==
    ASSUME IdentityInv, UNCHANGED <<meInfo, privateKey>>,
           pc \notin {"append_key", "save_private"},
           pc' \notin {"save_info", "append_key", "save_private"},
           ~crashed' /\ ioFaults' = 0 => ~crashed /\ ioFaults = 0
    PROVE  IdentityInv'
BY DEF IdentityInv, Complete

\* An I/O fault excuses what the identity looks like.
LEMMA IdentityExcused ==
    ASSUME TypeOK, IoFault \/ crashed', pc' # "save_info"
    PROVE  IdentityInv'
BY DEF TypeOK, IoFault, IdentityInv

LEMMA IdentityRegister ==
    TypeOK /\ TrueAnswer /\ IdentityInv /\ Register => IdentityInv'
<1> SUFFICES ASSUME TypeOK, TrueAnswer, IdentityInv, Register PROVE IdentityInv'
  OBVIOUS
<1> USE DEF memory, files, tally, Goto
<1>1. CASE StartRegistration \/ NameTaken \/ RegistrationThrows
  BY <1>1, IdentityQuiet DEF StartRegistration, NameTaken, RegistrationThrows, StepAfterTaken
<1>2. CASE EnterName
  BY <1>2, IdentityQuiet DEF EnterName
<1>3. CASE Registered
  <2>1. newUid' # Nothing
    BY <1>3 DEF Registered, Receive, TrueAnswer
  <2> QED  BY <1>3, <2>1 DEF Registered, IdentityInv, Complete
<1> QED  BY <1>1, <1>2, <1>3 DEF Register

LEMMA IdentityExchange ==
    TypeOK /\ IdentityInv /\ Exchange => IdentityInv'
<1> SUFFICES ASSUME TypeOK, IdentityInv, Exchange PROVE IdentityInv'
  OBVIOUS
<1> USE DEF memory, files, tally, Goto
<1>1. CASE SaveInfo
  <2>1. pc = "save_info" /\ pc' = "append_key"
    BY <1>1, Exchanged DEF SaveInfo
  <2>2. CASE IoFault
    BY <2>1, <2>2, IdentityExcused
  <2>3. CASE meInfo' = Info(username, newUid, Nothing)
    <3>1. username # NoName /\ newUid # Nothing
      BY <2>1 DEF TypeOK, IdentityInv
    <3>2. meInfo'.name # NoName /\ meInfo'.uid # Nothing
      BY <2>3, <3>1 DEF Info
    <3> QED  BY <2>1, <3>2 DEF IdentityInv
  <2> QED  BY <1>1, <2>2, <2>3 DEF SaveInfo
<1>2. CASE AppendKey
  <2>1. pc = "append_key" /\ pc' = "save_private"
    BY <1>2, Exchanged DEF AppendKey
  <2>2. CASE IoFault
    BY <2>1, <2>2, IdentityExcused
  <2>3. CASE meInfo' = [meInfo EXCEPT !.key = rsaKey] /\ NoIoFault
    <3>1. /\ meInfo'.name = meInfo.name /\ meInfo'.uid = meInfo.uid
          /\ meInfo'.key = rsaKey /\ rsaKey # Nothing
      BY <2>1, <2>3 DEF TypeOK, Infos
    <3>2. UNCHANGED <<rsaKey, crashed, ioFaults>>
      BY <1>2, <2>3 DEF AppendKey, NoIoFault
    <3> QED  BY <2>1, <3>1, <3>2 DEF IdentityInv, Complete
  <2> QED  BY <1>2, <2>2, <2>3 DEF AppendKey
<1>3. CASE AppendKeyThrows
  BY <1>3 DEF AppendKeyThrows, IdentityInv
<1>4. CASE SavePrivate
  <2>1. pc = "save_private" /\ pc' = "send_key"
    BY <1>4, Exchanged DEF SavePrivate
  <2>2. CASE IoFault
    BY <2>1, <2>2, IdentityExcused
  <2>3. CASE privateKey' = rsaKey /\ NoIoFault
    BY <1>4, <2>1, <2>3 DEF SavePrivate, NoIoFault, IdentityInv, Complete
  <2> QED  BY <1>4, <2>2, <2>3 DEF SavePrivate
<1>5. CASE SendKey
  <2>1. pc = "send_key" /\ pc' = "await_key"
    BY <1>5, Exchanged DEF SendKey
  <2> QED  BY <1>5, <2>1, IdentityQuiet DEF SendKey
<1> QED  BY <1>1, <1>2, <1>3, <1>4, <1>5 DEF Exchange

LEMMA IdentityStep == TypeOK /\ TrueAnswer /\ IdentityInv /\ [Next]_vars => IdentityInv'
<1> SUFFICES ASSUME TypeOK, TrueAnswer, IdentityInv, [Next]_vars PROVE IdentityInv'
  OBVIOUS
<1> USE DEF memory, files, tally, Goto
<1>1. CASE Start
  BY <1>1, IdentityQuiet DEF Start, Connect, AddressFails, ConnectFails
<1>2. CASE Failures
  <2>1. CASE SendFails \/ ReceiveFails \/ Cancel
    BY <2>1, IdentityQuiet DEF SendFails, ReceiveFails, Cancel, SendPoints, Awaiting
  <2>2. CASE OpenFails
    BY <2>2, IdentityExcused DEF OpenFails
  <2> QED  BY <1>2, <2>1, <2>2 DEF Failures
<1>3. CASE Register
  BY <1>3, IdentityRegister
<1>4. CASE Exchange
  BY <1>4, IdentityExchange
<1>5. CASE Reenter
  BY <1>5, IdentityQuiet DEF Reenter, ReRegister, CredentialsMissing
<1>6. CASE KeyReceipt
  <2>1. CASE ReceiveKey
    BY <2>1, IdentityQuiet DEF ReceiveKey
  <2>4. CASE KeyThrows
    <3>1. UNCHANGED <<meInfo, privateKey>> /\ pc = "await_key" /\ pc' = "handler"
      BY <2>4 DEF KeyThrows
    <3>2. CASE IoFault
      BY <3>1, <3>2, IdentityExcused
    <3>3. CASE NoIoFault
      BY <3>1, <3>3, IdentityQuiet DEF NoIoFault
    <3> QED  BY <2>4, <3>2, <3>3 DEF KeyThrows
  <2>2. CASE IdentityRejected
    BY <2>2 DEF IdentityRejected, IdentityInv
  <2>3. CASE SaveAesKey
    <3>1. UNCHANGED <<meInfo, privateKey>> /\ pc = "save_aes" /\ pc' = "select"
      BY <2>3 DEF SaveAesKey
    <3>2. CASE IoFault
      BY <3>1, <3>2, IdentityExcused
    <3>3. CASE NoIoFault
      BY <3>1, <3>3, IdentityQuiet DEF NoIoFault
    <3> QED  BY <2>3, <3>2, <3>3 DEF SaveAesKey
  <2> QED  BY <1>6, <2>1, <2>2, <2>3, <2>4 DEF KeyReceipt
<1>7. CASE Backup \/ Main
  BY <1>7, IdentityQuiet, IdentityExcused
     DEF Backup, Select, UploadReturns, UploadThrows, Disconnect,
         Main, HandlerDisconnects, HandlerThrows, Cleanup, CleanupThrows
<1>8. ASSUME UNCHANGED <<pc, memory, files, tally>> PROVE IdentityInv'
  BY <1>8 DEF IdentityInv, Complete
<1>9. CASE Server
  BY <1>8, <1>9
     DEF Server, ServeRegistration, RefuseRegistration, ServeKey, RefuseKey,
         ServeReRegistration, RefuseReRegistration, Outside
<1>10. CASE Surroundings
  <2>1. CASE Forget \/ LinkBreaks
    BY <1>8, <2>1 DEF Forget, LinkBreaks, Outside
  <2>2. CASE Crash
    BY <2>2, IdentityExcused DEF Crash
  <2>3. CASE NextRun
    BY <2>3, IdentityQuiet DEF NextRun, AtRest
  <2> QED  BY <1>10, <2>1, <2>2, <2>3 DEF Surroundings
<1>11. CASE UNCHANGED vars
  BY <1>8, <1>11 DEF vars
<1> QED  BY <1>1, <1>2, <1>3, <1>4, <1>5, <1>6, <1>7, <1>9, <1>10, <1>11
         DEF Next, Client, Over

-----------------------------------------------------------------------------
(* The key on the disk and the key the server knows *)

LEMMA ToldQuiet ==
    ASSUME ToldInv, UNCHANGED <<meInfo, accounts, faults>>, toServer' \in {toServer, <<>>},
           pc' \notin {"save_info", "append_key", "save_private", "send_key"},
           ioFaults' = 0 => ioFaults = 0
    PROVE  ToldInv'
BY DEF ToldInv, Unkeyed, Request

LEMMA ToldExcused ==
    ASSUME TypeOK, IoFault
    PROVE  ToldInv'
BY DEF TypeOK, IoFault, ToldInv

\* The client sends a request that carries no key.
LEMMA ToldKeyless ==
    ASSUME TypeOK, OneExchange, ToldInv, NEW m \in Requests, m.code # "PUBLIC_KEY_SEND",
           Transmit(m), pc \notin Awaiting, pc' \in Awaiting,
           UNCHANGED <<meInfo, accounts, faults, ioFaults>>
    PROVE  ToldInv'
<1>1. toServer' = <<>> \/ toServer' = <<m>>
  BY SendsRequest
<1>2. CASE toServer' = <<>>
  BY <1>2, ToldQuiet DEF Awaiting
<1>3. CASE toServer' = <<m>>
  <2>1. Request' = m
    BY <1>3 DEF Request
  <2> QED  BY <2>1 DEF ToldInv, Unkeyed, Awaiting
<1> QED  BY <1>1, <1>2, <1>3

LEMMA ToldRegister ==
    TypeOK /\ OneExchange /\ TrueAnswer /\ ToldInv /\ Register => ToldInv'
<1> SUFFICES ASSUME TypeOK, OneExchange, TrueAnswer, ToldInv, Register PROVE ToldInv'
  OBVIOUS
<1> USE DEF net, files, server, tally, Goto
<1>1. CASE StartRegistration
  BY <1>1, ToldQuiet DEF StartRegistration
<1>2. CASE EnterName
  <2>1. PICK n \in Usernames : Transmit([code |-> "REGISTRATION", name |-> n])
    BY <1>2 DEF EnterName
  <2>2. [code |-> "REGISTRATION", name |-> n] \in Requests
    BY DEF Requests, RegisterRequest
  <2> QED  BY <1>2, <2>1, <2>2, ToldKeyless DEF EnterName, Awaiting
<1>3. CASE NameTaken \/ RegistrationThrows
  BY <1>3, ToldQuiet DEF NameTaken, RegistrationThrows, Receive, StepAfterTaken
<1>4. CASE Registered
  <2>1. toServer' = <<>>
    BY <1>4, TakesAnswer DEF Registered
  <2>2. faults = 0 => Unkeyed(newUid')
    BY <1>4 DEF Registered, Receive, TrueAnswer
  <2> QED  BY <1>4, <2>1, <2>2 DEF Registered, ToldInv, Unkeyed
<1> QED  BY <1>1, <1>2, <1>3, <1>4 DEF Register

LEMMA ToldExchange ==
    TypeOK /\ OneExchange /\ ToldInv /\ Exchange => ToldInv'
<1> SUFFICES ASSUME TypeOK, OneExchange, ToldInv, Exchange PROVE ToldInv'
  OBVIOUS
<1> USE DEF net, files, server, tally, Goto
<1>1. CASE SaveInfo
  <2>1. pc = "save_info" /\ pc' = "append_key" /\ toServer' = <<>>
    BY <1>1, Exchanged DEF SaveInfo, OneExchange, Awaiting
  <2>2. CASE IoFault
    BY <2>2, ToldExcused
  <2>3. CASE meInfo' = Info(username, newUid, Nothing) /\ NoIoFault
    <3>1. meInfo'.uid = newUid
      BY <2>3 DEF Info
    <3>2. UNCHANGED <<accounts, faults, ioFaults>>
      BY <1>1, <2>3 DEF SaveInfo, NoIoFault
    <3> QED  BY <2>1, <3>1, <3>2 DEF ToldInv, Unkeyed
  <2> QED  BY <1>1, <2>2, <2>3 DEF SaveInfo
<1>2. CASE AppendKey
  <2>1. pc = "append_key" /\ pc' = "save_private" /\ toServer' = <<>>
    BY <1>2, Exchanged DEF AppendKey, OneExchange, Awaiting
  <2>2. CASE IoFault
    BY <2>2, ToldExcused
  <2>3. CASE meInfo' = [meInfo EXCEPT !.key = rsaKey] /\ NoIoFault
    <3>1. meInfo'.uid = meInfo.uid /\ meInfo'.key = rsaKey
      BY <2>3 DEF TypeOK, Infos
    <3>2. UNCHANGED <<accounts, faults, ioFaults, rsaKey>>
      BY <1>2, <2>3 DEF AppendKey, NoIoFault, memory
    <3> QED  BY <2>1, <3>1, <3>2 DEF ToldInv, Unkeyed
  <2> QED  BY <1>2, <2>2, <2>3 DEF AppendKey
<1>3. CASE AppendKeyThrows
  BY <1>3, ToldQuiet DEF AppendKeyThrows
<1>4. CASE SavePrivate
  <2>1. pc = "save_private" /\ pc' = "send_key" /\ toServer' = <<>>
    BY <1>4, Exchanged DEF SavePrivate, OneExchange, Awaiting
  <2>2. CASE IoFault
    BY <2>2, ToldExcused
  <2>3. CASE NoIoFault
    BY <1>4, <2>1, <2>3 DEF SavePrivate, NoIoFault, ToldInv, Unkeyed, memory
  <2> QED  BY <1>4, <2>2, <2>3 DEF SavePrivate
<1>5. CASE SendKey
  <2> DEFINE m == [code |-> "PUBLIC_KEY_SEND", uid |-> meInfo.uid, key |-> rsaKey]
  <2>1. pc = "send_key" /\ pc' = "await_key"
    BY <1>5, Exchanged DEF SendKey
  <2>2. m \in Requests /\ m.key = rsaKey
    BY DEF TypeOK, Infos, Requests, KeyRequest
  <2>3. Transmit(m)
    BY <1>5 DEF SendKey
  <2> HIDE DEF m
  <2>4. toServer' = <<>> \/ toServer' = <<m>>
    BY <2>1, <2>2, <2>3, SendsRequest DEF Awaiting
  <2>5. toServer' # <<>> => Request'.key = rsaKey
    BY <2>2, <2>4 DEF Request
  <2>6. UNCHANGED <<meInfo, accounts, faults, ioFaults, rsaKey>>
    BY <1>5 DEF SendKey
  <2> QED  BY <2>1, <2>5, <2>6 DEF ToldInv, Unkeyed
<1> QED  BY <1>1, <1>2, <1>3, <1>4, <1>5 DEF Exchange

LEMMA ToldServer == TypeOK /\ OneExchange /\ ToldInv /\ Server => ToldInv'
<1> SUFFICES ASSUME TypeOK, OneExchange, ToldInv, Server PROVE ToldInv'
  OBVIOUS
<1>1. PICK r \in Replies : Answers(r)
  BY ServerServes DEF ServerActs
<1>2. PICK code : Take(code)
  BY ServerServes DEF ServerActs
<1>3. toServer' = <<>> /\ pc \in Awaiting /\ toServer # <<>>
  BY <1>1, <1>2, ServesRequest DEF Take
<1>4. UNCHANGED <<pc, meInfo, ioFaults>>
  BY ServerServes DEF ServerActs, Outside, files, tally
<1>5. faults' = 0 => faults = 0
  BY <1>1 DEF Answers, TypeOK
<1>6. ASSUME ioFaults = 0, faults = 0, ~Unkeyed(meInfo.uid)'
      PROVE  accounts'[meInfo.uid].pub = meInfo.key
  <2>1. \/ PubKept(meInfo.uid) /\ ~Unkeyed(meInfo.uid)
        \/ Request.code = "PUBLIC_KEY_SEND" /\ accounts'[meInfo.uid].pub = Request.key
    BY <1>4, <1>6, ServerTellsTruth DEF ServerTells, Unkeyed, PubKept, PubTaken
  <2> QED  BY <1>3, <1>6, <2>1 DEF ToldInv, PubKept
<1> QED  BY <1>3, <1>4, <1>5, <1>6 DEF ToldInv, Awaiting

LEMMA ToldStep ==
    TypeOK /\ OneExchange /\ TrueAnswer /\ ToldInv /\ [Next]_vars => ToldInv'
<1> SUFFICES ASSUME TypeOK, OneExchange, TrueAnswer, ToldInv, [Next]_vars PROVE ToldInv'
  OBVIOUS
<1> USE DEF net, files, server, tally, Goto
<1>0. ASSUME meInfo'.uid = Nothing, pc' = "killed" \/ pc' = "handler", toServer' = <<>>
      PROVE  ToldInv'
  <2>1. accounts' \in Seq(Accounts)
    BY TypeStep DEF TypeOK
  <2>2. Unkeyed(Nothing)'
    BY <2>1 DEF Unkeyed, Nothing
  <2> QED  BY <1>0, <2>2 DEF ToldInv, Unkeyed
<1>1. CASE Start
  BY <1>1, ToldQuiet DEF Start, Connect, AddressFails, ConnectFails
<1>2. CASE Failures
  BY <1>2, ToldQuiet, ToldExcused DEF Failures, SendFails, ReceiveFails, Cancel, OpenFails
<1>3. CASE Register
  BY <1>3, ToldRegister
<1>4. CASE Exchange
  BY <1>4, ToldExchange
<1>5. CASE Reenter
  <2>1. CASE ReRegister
    <3>1. [code |-> "RE_REGISTRATION", name |-> meInfo.name, uid |-> meInfo.uid] \in Requests
      BY <2>1 DEF TypeOK, Infos, ReRegister, Complete, Requests, ReRegisterRequest
    <3> QED  BY <2>1, <3>1, ToldKeyless DEF ReRegister, Awaiting
  <2>2. CASE CredentialsMissing
    BY <2>2, ToldQuiet DEF CredentialsMissing
  <2> QED  BY <1>5, <2>1, <2>2 DEF Reenter
<1>6. CASE KeyReceipt
  <2>1. CASE ReceiveKey
    BY <2>1, ToldQuiet DEF ReceiveKey, Receive
  <2>4. CASE KeyThrows
    <3>1. CASE IoFault
      BY <3>1, ToldExcused
    <3>2. CASE NoIoFault
      BY <2>4, <3>2, ToldQuiet, TakesAnswer DEF KeyThrows, NoIoFault
    <3> QED  BY <2>4, <3>1, <3>2 DEF KeyThrows
  <2>2. CASE IdentityRejected
    <3>1. toServer' = <<>> /\ meInfo'.uid = Nothing /\ pc' = "handler"
      BY <2>2, TakesAnswer DEF IdentityRejected, NoInfo
    <3> QED  BY <1>0, <3>1
  <2>3. CASE SaveAesKey
    <3>1. CASE IoFault
      BY <3>1, ToldExcused
    <3>2. CASE NoIoFault
      BY <2>3, <3>2, ToldQuiet DEF SaveAesKey, NoIoFault
    <3> QED  BY <2>3, <3>1, <3>2 DEF SaveAesKey
  <2> QED  BY <1>6, <2>1, <2>2, <2>3, <2>4 DEF KeyReceipt
<1>7. CASE Backup \/ Main
  BY <1>7, ToldQuiet, ToldExcused
     DEF Backup, Select, UploadReturns, UploadThrows, Disconnect, HangUp,
         Main, HandlerDisconnects, HandlerThrows, Cleanup, CleanupThrows
<1>8. CASE Server
  BY <1>8, ToldServer
<1>9. CASE Surroundings
  <2>1. CASE Forget
    <3>1. UNCHANGED <<pc, meInfo, rsaKey, newUid, ioFaults, faults, toServer>>
      BY <2>1 DEF Forget, Outside, memory
    <3>2. \A u : Unkeyed(u)' <=> Unkeyed(u)
      BY <2>1, Forgets DEF Unkeyed
    <3>3. ~Unkeyed(meInfo.uid) => accounts'[meInfo.uid].pub = accounts[meInfo.uid].pub
      BY <2>1, Forgets DEF Unkeyed
    <3> QED  BY <3>1, <3>2, <3>3 DEF ToldInv, Request
  <2>2. CASE LinkBreaks
    BY <2>2 DEF LinkBreaks, ToldInv, Unkeyed, memory
  <2>3. CASE Crash
    <3>1. CASE meInfo' = meInfo
      BY <2>3, <3>1, ToldQuiet DEF Crash, HangUp
    <3>2. CASE meInfo' = EmptyInfo
      BY <1>0, <2>3, <3>2 DEF Crash, HangUp, EmptyInfo, Info
    <3> QED  BY <2>3, <3>1, <3>2 DEF Crash
  <2>4. CASE NextRun
    BY <2>4, ToldQuiet DEF NextRun
  <2> QED  BY <1>9, <2>1, <2>2, <2>3, <2>4 DEF Surroundings
<1>10. CASE UNCHANGED vars
  BY <1>10 DEF vars, memory, ToldInv, Unkeyed, Request
<1> QED  BY <1>1, <1>2, <1>3, <1>4, <1>5, <1>6, <1>7, <1>8, <1>9, <1>10
         DEF Next, Client, Over

-----------------------------------------------------------------------------
(* The AES key in aes.key *)

LEMMA SessionKeyStep ==
    TypeOK /\ OneExchange /\ TrueAnswer /\ SessionKeyInv /\ [Next]_vars => SessionKeyInv'
<1> SUFFICES ASSUME TypeOK, OneExchange, TrueAnswer, SessionKeyInv, [Next]_vars
             PROVE  SessionKeyInv'
  OBVIOUS
<1> USE DEF files, server, Goto
<1>1. ASSUME pc' \notin {"save_aes", "select", "upload"} PROVE SessionKeyInv'
  BY <1>1 DEF SessionKeyInv
<1>2. CASE Start
  BY <1>1, <1>2 DEF Start, Connect, AddressFails, ConnectFails
<1>3. CASE Failures
  BY <1>1, <1>3 DEF Failures, SendFails, ReceiveFails, OpenFails, Cancel
<1>4. CASE Register
  BY <1>1, <1>4 DEF Register, StartRegistration, EnterName, NameTaken, Registered,
     RegistrationThrows, StepAfterTaken
<1>5. CASE Exchange
  BY <1>1, <1>5, Exchanged
     DEF Exchange, SaveInfo, AppendKey, AppendKeyThrows, SavePrivate, SendKey
<1>6. CASE Reenter
  BY <1>1, <1>6 DEF Reenter, ReRegister, CredentialsMissing
<1>7. CASE ReceiveKey
  <2>1. /\ Answer.aes # Nothing /\ Answer.uid = meInfo.uid /\ aesKey' = Answer.aes
        /\ toClient # <<>> /\ UNCHANGED <<meInfo, accounts>> /\ pc' = "save_aes"
    BY <1>7 DEF ReceiveKey, Receive, ForUs, Decrypts
  <2> QED  BY <2>1 DEF TrueAnswer, SessionKeyInv
<1>8. CASE KeyThrows \/ IdentityRejected
  BY <1>1, <1>8 DEF KeyThrows, IdentityRejected
<1>9. CASE SaveAesKey
  <2>1. /\ aesKeyFile' = aesKey \/ aesKeyFile' = Nothing
        /\ UNCHANGED <<meInfo, accounts>> /\ pc = "save_aes" /\ pc' = "select"
    BY <1>9 DEF SaveAesKey, AesKeyToSave
  <2> QED  BY <2>1 DEF SessionKeyInv, Nothing
<1>10. CASE Backup
  BY <1>1, <1>10 DEF Backup, Select, UploadReturns, UploadThrows, Disconnect, SessionKeyInv
<1>11. CASE Main
  BY <1>1, <1>11 DEF Main, HandlerDisconnects, HandlerThrows, Cleanup, CleanupThrows
<1>12. CASE Server
  <2>1. PICK code : Take(code)
    BY <1>12, ServerServes DEF ServerActs
  <2>2. PICK r \in Replies : Answers(r)
    BY <1>12, ServerServes DEF ServerActs
  <2>3. pc \in Awaiting /\ pc' = pc
    BY <1>12, <2>1, <2>2, ServesRequest, ServerServes DEF ServerActs, Outside
  <2> QED  BY <1>1, <2>3 DEF Awaiting
<1>13. CASE Forget
  <2>1. UNCHANGED <<pc, meInfo, aesKeyFile, aesKey>>
    BY <1>13 DEF Forget, Outside, memory
  <2> QED  BY <1>13, <2>1, Forgets DEF SessionKeyInv
<1>14. CASE LinkBreaks
  BY <1>14 DEF LinkBreaks, memory, SessionKeyInv
<1>15. CASE Crash \/ NextRun
  BY <1>1, <1>15 DEF Crash, NextRun
<1>16. CASE UNCHANGED vars
  BY <1>16 DEF vars, memory, SessionKeyInv
<1> QED  BY <1>2, <1>3, <1>4, <1>5, <1>6, <1>7, <1>8, <1>9, <1>10, <1>11, <1>12, <1>13,
            <1>14, <1>15, <1>16
         DEF Next, Client, Surroundings, KeyReceipt, Over

-----------------------------------------------------------------------------
(* The key pair that is new *)

LEMMA OldKeys ==
    ASSUME TypeOK, FreshKeyInv
    PROVE  /\ meInfo.key \in Nat /\ meInfo.key =< rsaKeys
           /\ \A u \in DOMAIN accounts :
                  accounts[u].pub \in Nat /\ accounts[u].pub =< rsaKeys
           /\ rsaKey \in Nat /\ rsaKeys \in Nat /\ rsaKey =< rsaKeys
<1>1. /\ meInfo \in Infos /\ rsaKey \in Nat /\ rsaKeys \in Nat
      /\ \A u \in DOMAIN accounts : accounts[u] \in Accounts
  BY DEF TypeOK
<1>2. /\ meInfo.key \in Nat
      /\ \A u \in DOMAIN accounts : accounts[u].pub \in Nat
  BY <1>1 DEF Infos, Accounts
<1> QED  BY <1>1, <1>2 DEF FreshKeyInv

\* No part of the invariant speaks of the other steps of the client.
LEMMA FreshKeyQuiet ==
    ASSUME TypeOK, FreshKeyInv, UNCHANGED <<meInfo, accounts, rsaKeys>>,
           rsaKey' \in {rsaKey, meInfo.key, Nothing}, toServer' \in {toServer, <<>>},
           pc' # "append_key",
           pc' \in {"prompt", "await_registration", "save_info"} => ~meInfo.exists
    PROVE  FreshKeyInv'
<1>1. rsaKey' =< rsaKeys
  BY OldKeys DEF Nothing
<1> QED  BY <1>1, OldKeys DEF FreshKeyInv, Request

\* The client sends a request.
LEMMA FreshKeySends ==
    ASSUME TypeOK, OneExchange, FreshKeyInv, NEW m \in Requests,
           m.code = "PUBLIC_KEY_SEND" => m.key =< rsaKeys,
           Transmit(m), pc \notin Awaiting, pc' \in Awaiting,
           rsaKey' \in {rsaKey, meInfo.key}, UNCHANGED <<meInfo, accounts, rsaKeys>>,
           pc' = "await_registration" => ~meInfo.exists
    PROVE  FreshKeyInv'
<1>1. toServer' = <<>> \/ toServer' = <<m>>
  BY SendsRequest
<1>2. toServer' # <<>> => Request' = m
  BY <1>1 DEF Request
<1>3. rsaKey' =< rsaKeys
  BY OldKeys
<1> QED  BY <1>2, <1>3, OldKeys DEF FreshKeyInv, Awaiting

LEMMA FreshKeyRegister == TypeOK /\ OneExchange /\ FreshKeyInv /\ Register => FreshKeyInv'
<1> SUFFICES ASSUME TypeOK, OneExchange, FreshKeyInv, Register PROVE FreshKeyInv'
  OBVIOUS
<1> USE DEF net, files, server, memory, Goto
<1>1. CASE StartRegistration
  BY <1>1, FreshKeyQuiet DEF StartRegistration
<1>2. CASE EnterName
  <2>1. PICK n \in Usernames : Transmit([code |-> "REGISTRATION", name |-> n])
    BY <1>2 DEF EnterName
  <2>2. PICK m \in Requests : m.code = "REGISTRATION" /\ Transmit(m)
    BY <2>1 DEF Requests, RegisterRequest
  <2>3. ~meInfo.exists
    BY <1>2 DEF EnterName, FreshKeyInv
  <2> QED  BY <1>2, <2>2, <2>3, FreshKeySends DEF EnterName, Awaiting
<1>3. CASE NameTaken \/ Registered \/ RegistrationThrows
  <2>1. ~meInfo.exists
    BY <1>3 DEF NameTaken, Registered, RegistrationThrows, FreshKeyInv
  <2> QED  BY <1>3, <2>1, FreshKeyQuiet
           DEF NameTaken, Registered, RegistrationThrows, Receive, StepAfterTaken
<1> QED  BY <1>1, <1>2, <1>3 DEF Register

LEMMA FreshKeyExchange == TypeOK /\ OneExchange /\ FreshKeyInv /\ Exchange => FreshKeyInv'
<1> SUFFICES ASSUME TypeOK, OneExchange, FreshKeyInv, Exchange PROVE FreshKeyInv'
  OBVIOUS
<1> USE DEF net, files, server, Goto
<1>1. CASE SaveInfo
  <2>1. pc = "save_info" /\ pc' = "append_key" /\ toServer' = <<>>
    BY <1>1, Exchanged DEF SaveInfo, OneExchange, Awaiting
  <2>2. meInfo'.exists /\ meInfo'.key = Nothing
    BY <1>1 DEF SaveInfo, Info, EmptyInfo
  <2>3. rsaKey' = rsaKeys + 1 /\ rsaKeys' = rsaKeys + 1 /\ UNCHANGED accounts
    BY <1>1 DEF SaveInfo
  <2> QED  BY <2>1, <2>2, <2>3, OldKeys DEF FreshKeyInv, Nothing
<1>2. CASE AppendKey
  <2>1. pc = "append_key" /\ pc' = "save_private" /\ toServer' = <<>>
    BY <1>2, Exchanged DEF AppendKey, OneExchange, Awaiting
  <2>2. meInfo'.key \in {meInfo.key, rsaKey} /\ (~meInfo'.exists => meInfo' = NoInfo)
    <3>1. meInfo' = [meInfo EXCEPT !.key = rsaKey] \/ meInfo' = meInfo
      BY <1>2 DEF AppendKey
    <3>2. meInfo.exists
      BY <1>2 DEF AppendKey, FreshKeyInv, NoInfo
    <3> QED  BY <3>1, <3>2 DEF TypeOK, Infos
  <2>3. UNCHANGED <<rsaKey, rsaKeys, accounts>>
    BY <1>2 DEF AppendKey, memory
  <2> QED  BY <2>1, <2>2, <2>3, OldKeys DEF FreshKeyInv
<1>3. CASE AppendKeyThrows \/ SavePrivate
  BY <1>3, Exchanged, FreshKeyQuiet DEF AppendKeyThrows, SavePrivate, memory
<1>5. CASE SendKey
  <2>1. PICK m \in Requests : m.key = rsaKey /\ Transmit(m)
    BY <1>5 DEF SendKey, TypeOK, Infos, Requests, KeyRequest
  <2>2. pc = "send_key" /\ pc' = "await_key"
    BY <1>5, Exchanged DEF SendKey
  <2> QED  BY <1>5, <2>1, <2>2, OldKeys, FreshKeySends DEF SendKey, Awaiting
<1> QED  BY <1>1, <1>2, <1>3, <1>5 DEF Exchange

LEMMA FreshKeyServer == TypeOK /\ OneExchange /\ FreshKeyInv /\ Server => FreshKeyInv'
<1> SUFFICES ASSUME TypeOK, OneExchange, FreshKeyInv, Server PROVE FreshKeyInv'
  OBVIOUS
<1>1. PICK r \in Replies : Answers(r)
  BY ServerServes DEF ServerActs
<1>2. PICK code : Take(code)
  BY ServerServes DEF ServerActs
<1>3. toServer' = <<>> /\ pc \in Awaiting /\ toServer # <<>>
  BY <1>1, <1>2, ServesRequest DEF Take
<1>4. UNCHANGED <<pc, meInfo, rsaKey, rsaKeys>>
  BY ServerServes DEF ServerActs, Outside, files, memory
<1>5. \A u \in DOMAIN accounts' : accounts'[u].pub =< rsaKeys
  BY <1>3, OldKeys, ServerTellsTruth
     DEF ServerTells, PubKept, PubTaken, FreshKeyInv, Nothing
<1> QED  BY <1>3, <1>4, <1>5 DEF FreshKeyInv, Awaiting

LEMMA FreshKeyStep == TypeOK /\ OneExchange /\ FreshKeyInv /\ [Next]_vars => FreshKeyInv'
<1> SUFFICES ASSUME TypeOK, OneExchange, FreshKeyInv, [Next]_vars PROVE FreshKeyInv'
  OBVIOUS
<1> USE DEF net, files, server, memory, Goto
<1>1. CASE Start
  BY <1>1, FreshKeyQuiet DEF Start, Connect, AddressFails, ConnectFails
<1>2. CASE Failures
  BY <1>2, FreshKeyQuiet DEF Failures, SendFails, ReceiveFails, Cancel, OpenFails
<1>3. CASE Register
  BY <1>3, FreshKeyRegister
<1>4. CASE Exchange
  BY <1>4, FreshKeyExchange
<1>5. CASE Reenter
  <2>1. CASE ReRegister
    <3>1. PICK m \in Requests : m.code = "RE_REGISTRATION" /\ Transmit(m)
      BY <2>1 DEF TypeOK, Infos, ReRegister, Complete, Requests, ReRegisterRequest
    <3> QED  BY <2>1, <3>1, FreshKeySends DEF ReRegister, LoadedKey, Awaiting
  <2>2. CASE CredentialsMissing
    BY <2>2, FreshKeyQuiet DEF CredentialsMissing
  <2> QED  BY <1>5, <2>1, <2>2 DEF Reenter
<1>6. CASE ReceiveKey \/ KeyThrows \/ SaveAesKey
  BY <1>6, FreshKeyQuiet DEF ReceiveKey, KeyThrows, SaveAesKey, Receive
<1>7. CASE IdentityRejected
  <2>1. meInfo' = NoInfo /\ pc' = "handler" /\ pc = "await_key" /\ toServer' = toServer
        /\ UNCHANGED <<rsaKey, rsaKeys, accounts>>
    BY <1>7 DEF IdentityRejected, Receive
  <2> QED  BY <2>1, OldKeys DEF FreshKeyInv, Request, NoInfo, Nothing
<1>8. CASE Backup \/ Main
  BY <1>8, FreshKeyQuiet
     DEF Backup, Select, UploadReturns, UploadThrows, Disconnect, HangUp,
         Main, HandlerDisconnects, HandlerThrows, Cleanup, CleanupThrows
<1>9. CASE Server
  BY <1>9, FreshKeyServer
<1>10. CASE Forget
  <2>1. UNCHANGED <<pc, meInfo, rsaKey, rsaKeys, toServer>>
    BY <1>10 DEF Forget, Outside
  <2> QED  BY <1>10, <2>1, Forgets DEF FreshKeyInv, Request
<1>11. CASE LinkBreaks
  BY <1>11 DEF LinkBreaks, FreshKeyInv
<1>12. CASE Crash
  <2>1. CASE meInfo' = meInfo
    BY <1>12, <2>1, FreshKeyQuiet DEF Crash, HangUp
  <2>2. CASE meInfo' = EmptyInfo
    <3>1. meInfo'.key = Nothing /\ meInfo'.exists
      BY <2>2 DEF EmptyInfo, Info
    <3> QED  BY <1>12, <3>1, OldKeys DEF Crash, HangUp, FreshKeyInv, Nothing
  <2> QED  BY <1>12, <2>1, <2>2 DEF Crash
<1>13. CASE NextRun
  BY <1>13, FreshKeyQuiet DEF NextRun
<1>14. CASE UNCHANGED vars
  BY <1>14 DEF vars, FreshKeyInv, Request
<1> QED  BY <1>1, <1>2, <1>3, <1>4, <1>5, <1>6, <1>7, <1>8, <1>9, <1>10, <1>11, <1>12,
            <1>13, <1>14
         DEF Next, Client, KeyReceipt, Surroundings, Over

-----------------------------------------------------------------------------
(* The user id that is new *)

\* No part of the invariant speaks of the other steps of the client.
LEMMA FreshUidQuiet ==
    ASSUME FreshUidInv, UNCHANGED <<meInfo, accounts, faults>>,
           toServer' \in {toServer, <<>>}, toClient' \in {toClient, <<>>},
           pc' \notin {"save_info", "save_private", "send_key"},
           ioFaults' = 0 => ioFaults = 0
    PROVE  FreshUidInv'
BY DEF FreshUidInv, Unkeyed, Request, Answer

LEMMA FreshUidExcused ==
    ASSUME TypeOK, IoFault
    PROVE  FreshUidInv'
BY DEF TypeOK, IoFault, FreshUidInv

\* With nothing under way the invariant speaks of three steps only.
LEMMA FreshUidIdle ==
    ASSUME toServer' = <<>>, toClient' = <<>>,
           pc' \notin {"save_info", "save_private", "send_key"}
    PROVE  FreshUidInv'
BY DEF FreshUidInv

\* The client sends a request that carries no key.
LEMMA FreshUidKeyless ==
    ASSUME TypeOK, OneExchange, NEW m \in Requests, m.code # "PUBLIC_KEY_SEND",
           Transmit(m), pc \notin Awaiting, pc' \in Awaiting
    PROVE  FreshUidInv'
<1>1. toClient' = <<>> /\ (toServer' = <<>> \/ toServer' = <<m>>)
  BY SendsRequest
<1>2. toServer' # <<>> => Request' = m
  BY <1>1 DEF Request
<1> QED  BY <1>1, <1>2 DEF FreshUidInv, Awaiting

LEMMA FreshUidRegister == TypeOK /\ OneExchange /\ FreshUidInv /\ Register => FreshUidInv'
<1> SUFFICES ASSUME TypeOK, OneExchange, FreshUidInv, Register PROVE FreshUidInv'
  OBVIOUS
<1> USE DEF net, files, server, tally, Goto
<1>1. CASE StartRegistration
  BY <1>1, FreshUidQuiet DEF StartRegistration
<1>2. CASE EnterName
  <2>1. PICK m \in Requests : m.code = "REGISTRATION" /\ Transmit(m)
    BY <1>2 DEF EnterName, Requests, RegisterRequest
  <2> QED  BY <1>2, <2>1, FreshUidKeyless DEF EnterName, Awaiting
<1>3. CASE NameTaken \/ RegistrationThrows
  <2>1. toServer' = <<>> /\ toClient' = <<>>
    BY <1>3, TakesAnswer DEF NameTaken, RegistrationThrows
  <2> QED  BY <1>3, <2>1, FreshUidIdle DEF NameTaken, RegistrationThrows, StepAfterTaken
<1>4. CASE Registered
  <2>1. toServer' = <<>> /\ toClient' = <<>> /\ toClient # <<>>
    BY <1>4, TakesAnswer DEF Registered, Receive
  <2>2. ioFaults = 0 /\ faults = 0 => newUid' \in DOMAIN accounts
    BY <1>4, <2>1 DEF Registered, FreshUidInv
  <2> QED  BY <1>4, <2>1, <2>2 DEF Registered, FreshUidInv
<1> QED  BY <1>1, <1>2, <1>3, <1>4 DEF Register

LEMMA FreshUidExchange ==
    TypeOK /\ OneExchange /\ ToldInv /\ FreshUidInv /\ Exchange => FreshUidInv'
<1> SUFFICES ASSUME TypeOK, OneExchange, ToldInv, FreshUidInv, Exchange PROVE FreshUidInv'
  OBVIOUS
<1> USE DEF net, files, server, tally, Goto
<1>0. pc \notin Awaiting => toServer = <<>> /\ toClient = <<>>
  BY DEF OneExchange
<1>1. CASE SaveInfo
  BY <1>0, <1>1, Exchanged, FreshUidIdle DEF SaveInfo, Awaiting
<1>2. CASE AppendKey
  <2>1. pc = "append_key" /\ pc' = "save_private" /\ toServer' = <<>> /\ toClient' = <<>>
    BY <1>0, <1>2, Exchanged DEF AppendKey, Awaiting
  <2>2. CASE IoFault
    BY <2>2, FreshUidExcused
  <2>3. CASE meInfo' = [meInfo EXCEPT !.key = rsaKey] /\ NoIoFault
    <3>1. meInfo'.uid = meInfo.uid
      BY <2>3 DEF TypeOK, Infos
    <3> QED  BY <1>2, <2>1, <2>3, <3>1
             DEF AppendKey, NoIoFault, ToldInv, FreshUidInv, Unkeyed
  <2> QED  BY <1>2, <2>2, <2>3 DEF AppendKey
<1>3. CASE AppendKeyThrows
  BY <1>3, FreshUidQuiet DEF AppendKeyThrows
<1>4. CASE SavePrivate
  <2>1. /\ pc = "save_private" /\ pc' = "send_key" /\ toServer' = <<>> /\ toClient' = <<>>
        /\ UNCHANGED <<meInfo, accounts, faults>>
    BY <1>0, <1>4, Exchanged DEF SavePrivate, Awaiting
  <2>2. CASE IoFault
    BY <2>2, FreshUidExcused
  <2>3. CASE NoIoFault
    BY <2>1, <2>3 DEF NoIoFault, FreshUidInv, Unkeyed
  <2> QED  BY <1>4, <2>2, <2>3 DEF SavePrivate
<1>5. CASE SendKey
  <2>1. PICK m \in Requests : m.key = rsaKey /\ m.uid = meInfo.uid /\ Transmit(m)
    BY <1>5 DEF SendKey, TypeOK, Infos, Requests, KeyRequest
  <2>2. pc = "send_key" /\ pc' = "await_key" /\ rsaKey # Nothing
    BY <1>5, Exchanged DEF SendKey, TypeOK
  <2>3. toClient' = <<>> /\ (toServer' = <<>> \/ toServer' = <<m>>)
    BY <2>1, <2>2, SendsRequest DEF Awaiting
  <2>4. toServer' # <<>> => Request' = m
    BY <2>3 DEF Request
  <2>5. UNCHANGED <<meInfo, accounts, faults, ioFaults>>
    BY <1>5 DEF SendKey
  <2> QED  BY <2>1, <2>2, <2>3, <2>4, <2>5 DEF FreshUidInv, Unkeyed
<1> QED  BY <1>1, <1>2, <1>3, <1>4, <1>5 DEF Exchange

LEMMA FreshUidServer == TypeOK /\ OneExchange /\ Server => FreshUidInv'
<1> SUFFICES ASSUME TypeOK, OneExchange, Server PROVE FreshUidInv'
  OBVIOUS
<1>1. PICK r \in Replies : Answers(r) /\ TrueReply(r)'
  BY ServerTellsTruth DEF ServerTells
<1>2. PICK code : Take(code)
  BY ServerServes DEF ServerActs
<1>3. /\ toServer' = <<>> /\ pc \in Awaiting
      /\ toClient' = <<r>> \/ faults' # 0
  BY <1>1, <1>2, ServesRequest
<1>4. toClient' = <<r>> => Answer' = r
  BY DEF Answer
<1>5. pc' = pc
  BY ServerServes DEF ServerActs, Outside
<1> QED  BY <1>1, <1>3, <1>4, <1>5 DEF FreshUidInv, TrueReply, Awaiting

LEMMA FreshUidStep ==
    TypeOK /\ OneExchange /\ ToldInv /\ FreshUidInv /\ [Next]_vars => FreshUidInv'
<1> SUFFICES ASSUME TypeOK, OneExchange, ToldInv, FreshUidInv, [Next]_vars
             PROVE  FreshUidInv'
  OBVIOUS
<1> USE DEF net, files, server, tally, Goto
<1>1. CASE Start
  BY <1>1, FreshUidQuiet DEF Start, Connect, AddressFails, ConnectFails
<1>2. CASE Failures
  BY <1>2, FreshUidQuiet, FreshUidExcused
     DEF Failures, SendFails, ReceiveFails, Cancel, OpenFails
<1>3. CASE Register
  BY <1>3, FreshUidRegister
<1>4. CASE Exchange
  BY <1>4, FreshUidExchange
<1>5. CASE Reenter
  <2>1. CASE ReRegister
    <3>1. PICK m \in Requests : m.code = "RE_REGISTRATION" /\ Transmit(m)
      BY <2>1 DEF TypeOK, Infos, ReRegister, Complete, Requests, ReRegisterRequest
    <3> QED  BY <2>1, <3>1, FreshUidKeyless DEF ReRegister, Awaiting
  <2>2. CASE CredentialsMissing
    BY <2>2, FreshUidQuiet DEF CredentialsMissing
  <2> QED  BY <1>5, <2>1, <2>2 DEF Reenter
<1>6. CASE ReceiveKey \/ KeyThrows \/ IdentityRejected
  <2>1. toServer' = <<>> /\ toClient' = <<>>
    BY <1>6, TakesAnswer DEF ReceiveKey, KeyThrows, IdentityRejected
  <2> QED  BY <1>6, <2>1, FreshUidIdle DEF ReceiveKey, KeyThrows, IdentityRejected
<1>7. CASE SaveAesKey
  <2>1. CASE IoFault
    BY <2>1, FreshUidExcused
  <2>2. CASE NoIoFault
    BY <1>7, <2>2, FreshUidQuiet DEF SaveAesKey, NoIoFault
  <2> QED  BY <1>7, <2>1, <2>2 DEF SaveAesKey
<1>8. CASE Backup \/ Main
  BY <1>8, FreshUidQuiet, FreshUidExcused
     DEF Backup, Select, UploadReturns, UploadThrows, Disconnect, HangUp,
         Main, HandlerDisconnects, HandlerThrows, Cleanup, CleanupThrows
<1>9. CASE Server
  BY <1>9, FreshUidServer
<1>10. CASE Forget
  <2>1. UNCHANGED <<pc, meInfo, newUid, ioFaults, faults, toServer, toClient>>
    BY <1>10 DEF Forget, Outside, memory
  <2>2. DOMAIN accounts' = DOMAIN accounts /\ \A u : Unkeyed(u)' <=> Unkeyed(u)
    BY <1>10, Forgets DEF Unkeyed
  <2>3. Request' = Request /\ Answer' = Answer
    BY <2>1 DEF Request, Answer
  <2>4. Unkeyed(meInfo.uid)' <=> Unkeyed(meInfo.uid)
    BY <2>1, <1>10, Forgets DEF Unkeyed
  <2> QED  BY <2>1, <2>2, <2>3, <2>4 DEF FreshUidInv
<1>11. CASE LinkBreaks
  BY <1>11 DEF LinkBreaks, FreshUidInv, Unkeyed, memory
<1>12. CASE Crash \/ NextRun
  BY <1>12, FreshUidIdle DEF Crash, HangUp, NextRun
<1>13. CASE UNCHANGED vars
  BY <1>13 DEF vars, memory, FreshUidInv, Request, Answer, Unkeyed
<1> QED  BY <1>1, <1>2, <1>3, <1>4, <1>5, <1>6, <1>7, <1>8, <1>9, <1>10, <1>11, <1>12,
            <1>13
         DEF Next, Client, KeyReceipt, Surroundings, Over

-----------------------------------------------------------------------------
(* The inductive invariant and what follows from it *)

LEMMA SessionInit == Init => SessionInv
BY DEF Init, SessionInv, OneExchange, TrueAnswer, IdentityInv, ToldInv, SessionKeyInv,
       FreshKeyInv, FreshUidInv, NoInfo, Unkeyed, Nothing, Awaiting

\* The invariant holds in every reachable state.
THEOREM SessionInvariant == Spec => [](TypeOK /\ SessionInv)
<1>1. Init => TypeOK /\ SessionInv
  BY TypeInit, SessionInit
<1>2. TypeOK /\ SessionInv /\ [Next]_vars => (TypeOK /\ SessionInv)'
  BY TypeStep, OneExchangeStep, TrueAnswerStep, IdentityStep, ToldStep, SessionKeyStep,
     FreshKeyStep, FreshUidStep DEF SessionInv
<1> QED  BY <1>1, <1>2, PTL DEF Spec

\* The AES key that encrypts an upload is the one the server has for the user
\* in this session, whatever runs, crashes and wrong responses came before.
THEOREM AesKeyAgreed == Spec => []KeyAgreement
<1>1. SessionInv => KeyAgreement
  BY DEF SessionInv, SessionKeyInv, KeyAgreement
<1> QED  BY <1>1, SessionInvariant, PTL

\* A run that was neither killed nor hit by an I/O fault leaves no identity
\* without its private key behind, however it ended.
THEOREM IdentityWhole == Spec => []HalfIdentityOnlyByCrash
<1>1. SessionInv => HalfIdentityOnlyByCrash
  BY DEF SessionInv, IdentityInv, HalfIdentityOnlyByCrash, AtRest
<1> QED  BY <1>1, SessionInvariant, PTL

\* Whenever a run is killed, a public key that the server honours has its
\* private key in me.info.
THEOREM KeySavedFirst == Spec => []KeySavedBeforeTold
<1>1. SessionInv => KeySavedBeforeTold
  BY DEF SessionInv, ToldInv, KeySavedBeforeTold, Unkeyed, Honoured, Known
<1> QED  BY <1>1, SessionInvariant, PTL

\* me.info is removed only when the server would not honour the identity in
\* it, whichever responses are misdirected.
THEOREM IdentityKept == Spec => HonouredIdentityKept
<1>1. TypeOK /\ SessionInv /\ [Next]_vars
         => [meInfo.exists /\ ~meInfo'.exists => ~Honoured(meInfo.uid)]_vars
  <2> SUFFICES ASSUME TypeOK, SessionInv, Next, meInfo.exists, ~meInfo'.exists
               PROVE  ~Honoured(meInfo.uid)
    OBVIOUS
  <2> USE DEF files
  <2>1. ASSUME meInfo' = meInfo PROVE FALSE
    BY <2>1
  <2>2. Info(username, newUid, Nothing).exists /\ EmptyInfo.exists
    BY DEF Info, EmptyInfo
  <2>3. [meInfo EXCEPT !.key = rsaKey].exists = meInfo.exists
    BY DEF TypeOK, Infos
  <2>4. CASE IdentityRejected
    BY <2>4 DEF IdentityRejected, Receive, ForUs, SessionInv, TrueAnswer
  <2>5. CASE SaveInfo \/ AppendKey \/ Crash
    <3>1. \/ meInfo' = Info(username, newUid, Nothing) \/ meInfo' = EmptyInfo
          \/ meInfo' = [meInfo EXCEPT !.key = rsaKey] \/ meInfo' = meInfo
      BY <2>5, Zenon DEF SaveInfo, AppendKey, Crash
    <3> QED  BY <2>1, <2>2, <2>3, <3>1, Zenon
  <2>6. CASE Start \/ Failures \/ Register
    BY <2>1, <2>6
       DEF Start, Connect, AddressFails, ConnectFails,
           Failures, SendFails, ReceiveFails, OpenFails, Cancel,
           Register, StartRegistration, EnterName, NameTaken, Registered, RegistrationThrows
  <2>7. CASE AppendKeyThrows \/ SavePrivate \/ SendKey \/ Reenter
    BY <2>1, <2>7 DEF AppendKeyThrows, SavePrivate, SendKey, Reenter, ReRegister,
       CredentialsMissing
  <2>8. CASE ReceiveKey \/ KeyThrows \/ SaveAesKey \/ Backup \/ Main
    BY <2>1, <2>8
       DEF ReceiveKey, KeyThrows, SaveAesKey,
           Backup, Select, UploadReturns, UploadThrows, Disconnect,
           Main, HandlerDisconnects, HandlerThrows, Cleanup, CleanupThrows
  <2>9. CASE Server
    BY <2>1, <2>9, ServerServes DEF ServerActs, Outside
  <2>10. CASE Forget \/ LinkBreaks \/ NextRun \/ Over
    BY <2>1, <2>10 DEF Forget, LinkBreaks, NextRun, Over, Outside, vars
  <2> QED  BY <2>4, <2>5, <2>6, <2>7, <2>8, <2>9, <2>10
           DEF Next, Client, Exchange, KeyReceipt, Surroundings
<1> QED  BY <1>1, SessionInvariant, PTL DEF Spec, HonouredIdentityKept

-----------------------------------------------------------------------------
(* ClientSession implements KeyStore *)

LEMMA ToldTyped ==
    ASSUME TypeOK
    PROVE  /\ accounts \in Seq(Accounts) /\ Len(accounts) \in Nat
           /\ DOMAIN accounts = 1 .. Len(accounts)
           /\ Told \in Seq(Int) /\ DOMAIN Told = DOMAIN accounts
           /\ Len(Told) = Len(accounts)
           /\ \A u \in DOMAIN accounts :
                  accounts[u].pub \in Nat /\ (Known(u) <=> Told[u] # -1)
<1>1. accounts \in Seq(Accounts) /\ Len(accounts) \in Nat /\ DOMAIN accounts = 1 .. Len(accounts)
  BY DEF TypeOK
<1>2. \A u \in DOMAIN accounts : accounts[u].pub \in Nat
  <2>1. \A u \in DOMAIN accounts : accounts[u] \in Accounts
    BY <1>1
  <2> QED  BY <2>1 DEF Accounts
<1>3. \A u \in DOMAIN accounts :
          /\ (IF Known(u) THEN accounts[u].pub ELSE -1) \in Int
          /\ Known(u) <=> (IF Known(u) THEN accounts[u].pub ELSE -1) # -1
  BY <1>2
<1>4. Told \in [1 .. Len(accounts) -> Int]
  BY <1>1, <1>3 DEF Told
<1>5. Told \in Seq(Int) /\ Len(Told) = Len(accounts)
  BY <1>1, <1>4
<1> QED  BY <1>1, <1>2, <1>3, <1>5 DEF Told

\* What the server has been told stays as it is.
LEMMA ToldSame ==
    ASSUME DOMAIN accounts' = DOMAIN accounts,
           \A u \in DOMAIN accounts : /\ accounts'[u].pub = accounts[u].pub
                                      /\ accounts'[u].status = accounts[u].status
    PROVE  Told' = Told
BY DEF Told, Known

\* An account gets a key, or is lost.
LEMMA ToldChanged ==
    ASSUME TypeOK, NEW u \in DOMAIN accounts, NEW k,
           DOMAIN accounts' = DOMAIN accounts,
           \A v \in DOMAIN accounts : v # u => accounts'[v] = accounts[v],
           k = IF accounts'[u].status = "known" THEN accounts'[u].pub ELSE -1
    PROVE  Told' = [Told EXCEPT ![u] = k]
<1>1. ASSUME NEW v \in DOMAIN accounts
      PROVE  Told'[v] = IF v = u THEN k ELSE Told[v]
  BY <1>1 DEF Told, Known
<1>2. DOMAIN Told' = DOMAIN accounts /\ DOMAIN Told = DOMAIN accounts
  BY DEF Told
<1>3. Told' = [v \in DOMAIN accounts |-> Told'[v]]
  BY DEF Told
<1>4. [Told EXCEPT ![u] = k] = [v \in DOMAIN accounts |-> IF v = u THEN k ELSE Told[v]]
  BY <1>2
<1> QED  BY <1>1, <1>3, <1>4

LEMMA StoreExchange ==
    ASSUME TypeOK, SessionInv, ioFaults = 0, faults = 0, ioFaults' = 0, Exchange
    PROVE  Store!Next \/ UNCHANGED <<Kept, Told>>
<1> USE DEF files, server, SessionInv
<1>1. UNCHANGED accounts /\ Told' = Told
  BY ToldSame DEF Exchange, SaveInfo, AppendKey, AppendKeyThrows, SavePrivate, SendKey
<1>2. ~IoFault
  BY DEF IoFault
<1>3. CASE SaveInfo
  <2>1. pc = "save_info" /\ meInfo' = Info(username, newUid, Nothing)
    BY <1>2, <1>3, Exchanged DEF SaveInfo, Goto
  <2>2. newUid \in DOMAIN accounts /\ Unkeyed(newUid) /\ ~meInfo.exists
    BY <2>1 DEF FreshUidInv, ToldInv, FreshKeyInv
  <2>3. Kept' = Store!Identity(newUid, Store!Nothing) /\ ~Kept.exists
    BY <2>1, <2>2 DEF Kept, Info, Store!Identity, Nothing, Store!Nothing
  <2>4. newUid \in DOMAIN Told /\ Told[newUid] \in {0, -1}
    BY <2>2 DEF Told, Unkeyed, Nothing
  <2>5. Store!Adopt(newUid)
    BY <1>1, <2>3, <2>4 DEF Store!Adopt, Store!Honours, Store!Nothing, Store!Lost
  <2> QED  BY <2>4, <2>5 DEF Store!Next
<1>4. CASE AppendKey
  <2>1. /\ pc = "append_key" /\ meInfo.uid # Nothing
        /\ meInfo' = [meInfo EXCEPT !.key = rsaKey]
    BY <1>2, <1>4, Exchanged DEF AppendKey, Goto
  <2>2. meInfo \in Infos /\ rsaKey \in Nat /\ rsaKey # 0
    BY <2>1 DEF TypeOK, Nothing
  <2>3. /\ Kept.uid # 0 /\ Kept.key = 0 /\ Kept'.key = rsaKey
        /\ Kept' = [Kept EXCEPT !.key = rsaKey]
    BY <2>1, <2>2 DEF Kept, Infos, FreshKeyInv, Nothing
  <2>4. \A u \in DOMAIN Told : Told[u] # rsaKey
    BY <2>1, <2>2, ToldTyped DEF Told, FreshKeyInv
  <2>5. Store!Secure
    BY <1>1, <2>2, <2>3, <2>4 DEF Store!Secure, Store!Nothing
  <2> QED  BY <2>5 DEF Store!Next
<1>5. CASE AppendKeyThrows \/ SavePrivate \/ SendKey
  BY <1>1, <1>5 DEF AppendKeyThrows, SavePrivate, SendKey, Kept
<1> QED  BY <1>3, <1>4, <1>5 DEF Exchange

\* me.info is removed by no other step, and only for a user without a key.
LEMMA StoreRejected ==
    ASSUME TypeOK, SessionInv, IdentityRejected
    PROVE  Store!Next \/ UNCHANGED <<Kept, Told>>
<1>1. UNCHANGED accounts /\ Told' = Told /\ meInfo' = NoInfo
  BY ToldSame DEF IdentityRejected, server
<1>2. ~Honoured(meInfo.uid)
  BY DEF IdentityRejected, Receive, ForUs, SessionInv, TrueAnswer
<1>3. Kept' = Store!NoIdentity
  BY <1>1 DEF Kept, NoInfo, Store!NoIdentity, Nothing, Store!Nothing
<1>4. CASE meInfo.exists
  <2>1. Kept.exists /\ Kept.uid = meInfo.uid
    BY <1>4 DEF Kept
  <2>2. ~Store!Honours(meInfo.uid)
    BY <1>2 DEF Store!Honours, Store!Nothing, Store!Lost, Told, Honoured, Nothing
  <2>3. Store!Discard
    BY <1>1, <1>3, <2>1, <2>2 DEF Store!Discard
  <2> QED  BY <2>3 DEF Store!Next
<1>5. CASE ~meInfo.exists
  BY <1>1, <1>5 DEF SessionInv, FreshKeyInv, Kept
<1> QED  BY <1>4, <1>5

LEMMA StoreClient ==
    ASSUME TypeOK, SessionInv, ioFaults = 0, faults = 0, ioFaults' = 0, Client
    PROVE  Store!Next \/ UNCHANGED <<Kept, Told>>
<1> USE DEF files, server
<1>1. ASSUME UNCHANGED <<meInfo, accounts>> PROVE UNCHANGED <<Kept, Told>>
  BY <1>1, ToldSame DEF Kept
<1>2. CASE Exchange
  BY <1>2, StoreExchange
<1>3. CASE IdentityRejected
  BY <1>3, StoreRejected
<1>4. CASE Start \/ Failures \/ Register
  BY <1>1, <1>4
     DEF Start, Connect, AddressFails, ConnectFails,
         Failures, SendFails, ReceiveFails, OpenFails, Cancel,
         Register, StartRegistration, EnterName, NameTaken, Registered, RegistrationThrows
<1>5. CASE Reenter \/ ReceiveKey \/ KeyThrows \/ SaveAesKey
  BY <1>1, <1>5
     DEF Reenter, ReRegister, CredentialsMissing, ReceiveKey, KeyThrows, SaveAesKey
<1>6. CASE Backup \/ Main
  BY <1>1, <1>6
     DEF Backup, Select, UploadReturns, UploadThrows, Disconnect,
         Main, HandlerDisconnects, HandlerThrows, Cleanup, CleanupThrows
<1> QED  BY <1>2, <1>3, <1>4, <1>5, <1>6 DEF Client, KeyReceipt

LEMMA StoreServer ==
    ASSUME TypeOK, SessionInv, ioFaults = 0, faults = 0, Server
    PROVE  Store!Next \/ UNCHANGED <<Kept, Told>>
<1>1. UNCHANGED meInfo /\ Kept' = Kept
  BY ServerServes DEF ServerActs, Outside, files, Kept
<1>2. CASE ServeRegistration
  <2>1. PICK a \in Accounts : accounts' = Append(accounts, a) /\ a.status = "known" /\ a.pub = 0
    <3>1. Request \in Requests /\ Request.code = "REGISTRATION"
      BY <1>2, RequestTyped DEF ServeRegistration
    <3>2. Request.name \in Usernames
      BY <3>1 DEF Requests, RegisterRequest, ReRegisterRequest, KeyRequest
    <3> QED  BY <1>2, <3>2 DEF ServeRegistration, Accounts, Nothing
  <2>2. PICK n \in Nat : n = Len(accounts) /\ DOMAIN accounts = 1 .. n
    BY ToldTyped
  <2>3. /\ DOMAIN accounts' = 1 .. n + 1 /\ accounts'[n + 1] = a
        /\ \A u \in 1 .. n : accounts'[u] = accounts[u]
    BY <2>1, <2>2, ToldTyped
  <2>0. 1 .. n + 1 = (1 .. n) \cup {n + 1} /\ n + 1 \notin 1 .. n
    OBVIOUS
  <2>4. \A u \in 1 .. n + 1 : Told'[u] = IF u = n + 1 THEN 0 ELSE Told[u]
    BY <2>0, <2>1, <2>2, <2>3 DEF Told, Known
  <2>5. Told' = [u \in 1 .. n + 1 |-> Told'[u]]
    BY <2>3 DEF Told
  <2>6. Append(Told, 0) = [u \in 1 .. n + 1 |-> IF u = n + 1 THEN 0 ELSE Told[u]]
    <3>1. PICK f : f = Append(Told, 0)
      OBVIOUS
    <3>2. Told \in Seq(Int) /\ Len(Told) = n
      BY <2>2, ToldTyped
    <3>3. f \in Seq(Int) /\ Len(f) = n + 1
      BY <3>1, <3>2
    <3>4. f = [u \in 1 .. n + 1 |-> f[u]]
      BY <3>3
    <3>5. \A u \in 1 .. n + 1 : f[u] = IF u = n + 1 THEN 0 ELSE Told[u]
      BY <3>1, <3>2
    <3> QED  BY <3>1, <3>4, <3>5
  <2>7. Store!Issue
    BY <1>1, <2>4, <2>5, <2>6 DEF Store!Issue, Store!Nothing
  <2> QED  BY <2>7 DEF Store!Next
<1>3. CASE ServeKey
  <2>1. Request \in Requests /\ Request.code = "PUBLIC_KEY_SEND" /\ toServer # <<>>
    BY <1>3, RequestTyped DEF ServeKey, Take
  <2>2. PICK u, k : u = meInfo.uid /\ k = meInfo.key
    OBVIOUS
  <2>3. Request.uid = u /\ Request.key = k /\ k # 0 /\ Unkeyed(u) /\ Known(u)
    BY <1>3, <2>1, <2>2 DEF ServeKey, SessionInv, ToldInv, FreshUidInv, Nothing
  <2>4. k \in Nat /\ GiveAesKey("KEY_SEND_SUCCESS", u, k)
    BY <1>3, <2>2, <2>3 DEF ServeKey, TypeOK, Infos
  <2>5. /\ u \in DOMAIN accounts /\ DOMAIN accounts' = DOMAIN accounts
        /\ accounts'[u].pub = k /\ accounts'[u].status = "known"
        /\ \A v \in DOMAIN accounts : v # u => accounts'[v] = accounts[v]
    BY <2>3, <2>4, KeyGiven DEF Known, ReplyCodes, KeyCodes
  <2>6. Told' = [Told EXCEPT ![u] = k]
    BY <2>5, ToldChanged
  <2>7. Told[u] = 0 /\ u \in DOMAIN Told
    BY <2>3, <2>5 DEF Told, Unkeyed, Nothing
  <2>8. Kept.uid = u /\ Kept.key = k
    BY <2>2 DEF Kept
  <2>9. Store!Tell
    BY <1>1, <2>3, <2>6, <2>7, <2>8 DEF Store!Tell, Store!Nothing
  <2> QED  BY <2>9 DEF Store!Next
<1>4. CASE ServeReRegistration
  <2>1. PICK u, k : u = Request.uid /\ k = accounts[u].pub
    OBVIOUS
  <2>2. Known(u) /\ u \in DOMAIN accounts /\ GiveAesKey("RE_REGISTRATION_SUCCESS", u, k)
    BY <1>4, <2>1 DEF ServeReRegistration, Honoured, Known
  <2>3. k \in Nat
    BY <2>1, <2>2, ToldTyped
  <2>4. /\ DOMAIN accounts' = DOMAIN accounts
        /\ accounts'[u].pub = accounts[u].pub /\ accounts'[u].status = accounts[u].status
        /\ \A v \in DOMAIN accounts : v # u => accounts'[v] = accounts[v]
    BY <2>1, <2>2, <2>3, KeyGiven DEF ReplyCodes, KeyCodes
  <2> QED  BY <1>1, <2>4, ToldSame
<1>5. CASE RefuseRegistration \/ RefuseKey \/ RefuseReRegistration
  BY <1>1, <1>5, ToldSame DEF RefuseRegistration, RefuseKey, RefuseReRegistration
<1> QED  BY <1>2, <1>3, <1>4, <1>5 DEF Server

LEMMA StoreSurroundings ==
    ASSUME TypeOK, SessionInv, ioFaults = 0, faults = 0, Surroundings
    PROVE  Store!Next \/ UNCHANGED <<Kept, Told>>
<1>1. CASE Forget
  <2>1. PICK u \in DOMAIN accounts :
            Known(u) /\ accounts' = [accounts EXCEPT ![u].status = "forgotten"]
    BY <1>1 DEF Forget
  <2>2. accounts[u] \in Accounts /\ DOMAIN accounts' = DOMAIN accounts
    BY <2>1, ToldTyped
  <2>3. /\ \A v \in DOMAIN accounts : v # u => accounts'[v] = accounts[v]
        /\ accounts'[u].status = "forgotten"
    BY <2>1, <2>2, ToldTyped DEF Accounts
  <2>4. Told' = [Told EXCEPT ![u] = -1]
    BY <2>2, <2>3, ToldChanged
  <2>5. Told[u] # -1 /\ u \in DOMAIN Told
    BY <2>1, ToldTyped
  <2>6. Kept' = Kept
    BY <1>1 DEF Forget, Outside, files, Kept
  <2>7. Store!Lose(u)
    BY <2>4, <2>5, <2>6 DEF Store!Lose, Store!Lost
  <2> QED  BY <2>5, <2>7 DEF Store!Next
<1>2. CASE Crash
  <2>1. Told' = Told
    BY <1>2, ToldSame DEF Crash, server
  <2>2. CASE meInfo' = meInfo
    BY <2>1, <2>2 DEF Kept
  <2>3. CASE pc = "save_info" /\ meInfo' = EmptyInfo
    <3>1. newUid \in DOMAIN accounts /\ Unkeyed(newUid) /\ ~meInfo.exists
      BY <2>3 DEF SessionInv, FreshUidInv, ToldInv, FreshKeyInv
    <3>2. Kept' = Store!Identity(Store!Nothing, Store!Nothing) /\ ~Kept.exists
      BY <2>3, <3>1 DEF Kept, EmptyInfo, Info, Store!Identity, Nothing, Store!Nothing
    <3>3. newUid \in DOMAIN Told /\ Told[newUid] \in {0, -1}
      BY <3>1 DEF Told, Unkeyed, Nothing
    <3>4. Store!Adopt(newUid)
      BY <2>1, <3>2, <3>3 DEF Store!Adopt, Store!Honours, Store!Nothing, Store!Lost
    <3> QED  BY <3>3, <3>4 DEF Store!Next
  <2> QED  BY <1>2, <2>2, <2>3 DEF Crash
<1>3. CASE LinkBreaks \/ NextRun
  BY <1>3, ToldSame DEF LinkBreaks, NextRun, files, server, Kept
<1> QED  BY <1>1, <1>2, <1>3 DEF Surroundings

LEMMA StoreStep ==
    ASSUME TypeOK, SessionInv, ioFaults = 0, faults = 0, ioFaults' = 0, [Next]_vars
    PROVE  Store!Next \/ UNCHANGED <<Kept, Told>>
<1>1. CASE Over \/ UNCHANGED vars
  BY <1>1, ToldSame DEF Over, vars, files, server, Kept
<1> QED  BY <1>1, StoreClient, StoreServer, StoreSurroundings DEF Next

\* The identity and its key go through their life as KeyStore has it, for any number
\* of runs, crashes, lost connections and lost accounts, as long as the responses are
\* the right ones and the disk keeps what is written: a user id is taken over only
\* when there is none, its key pair is new, the server is told only the key that is
\* kept, once, and an identity is discarded only when the server would refuse it.
THEOREM SessionKeepsIdentity == Spec => IdentityStored
<1>1. Init => Store!Init
  <2> SUFFICES ASSUME Init PROVE Store!Init
    OBVIOUS
  <2>1. meInfo = NoInfo /\ accounts = <<>>
    BY DEF Init
  <2>2. Told = <<>>
    BY <2>1 DEF Told
  <2>3. Kept = Store!NoIdentity
    BY <2>1 DEF Kept, NoInfo, Store!NoIdentity, Nothing, Store!Nothing
  <2> QED  BY <2>2, <2>3 DEF Store!Init
<1>2. TypeOK /\ SessionInv /\ [Next]_vars
        => [Undisturbed /\ Undisturbed' => Store!Next]_<<Kept, Told>>
  <2> SUFFICES ASSUME TypeOK, SessionInv, [Next]_vars, Undisturbed, Undisturbed'
               PROVE  Store!Next \/ UNCHANGED <<Kept, Told>>
    OBVIOUS
  <2> QED  BY StoreStep DEF Undisturbed
<1> QED  BY <1>1, <1>2, SessionInvariant, PTL DEF Spec, IdentityStored

-----------------------------------------------------------------------------
(* No read waits for ever, and no run goes round in circles *)

LEMMA AnswerAwaitedStep ==
    TypeOK /\ OneExchange /\ AnswerAwaited /\ [Next]_vars => AnswerAwaited'
<1> SUFFICES ASSUME TypeOK, OneExchange, AnswerAwaited, [Next]_vars PROVE AnswerAwaited'
  OBVIOUS
<1> USE DEF net, Awaiting
<1>0. Len(<<>>) = 0 /\ \A x : Len(<<x>>) = 1
  OBVIOUS
<1>1. ASSUME pc' \notin Awaiting \/ link' # "up" PROVE AnswerAwaited'
  BY <1>1 DEF AnswerAwaited
<1>2. ASSUME UNCHANGED <<pc, link, toServer, toClient>> PROVE AnswerAwaited'
  BY <1>2 DEF AnswerAwaited
<1>3. ASSUME pc \notin Awaiting, NEW m \in Requests, Transmit(m) PROVE AnswerAwaited'
  <2>1. /\ toClient' = <<>> /\ link' = link
        /\ link = "up" => toServer' = <<m>>
    BY <1>3 DEF OneExchange, Transmit, TypeOK
  <2> QED  BY <1>0, <2>1 DEF AnswerAwaited
<1>4. ASSUME NEW code, Take(code), NEW r \in Replies, Answers(r) PROVE AnswerAwaited'
  <2>1. toServer' = <<>> /\ \E w : toClient' = <<w>>
    BY <1>4, ServesRequest
  <2> QED  BY <1>0, <2>1 DEF AnswerAwaited
<1>5. CASE Start
  BY <1>1, <1>5 DEF Start, Connect, AddressFails, ConnectFails, Goto
<1>6. CASE Failures
  BY <1>1, <1>6 DEF Failures, SendFails, ReceiveFails, OpenFails, Cancel
<1>7. CASE Register
  <2>1. CASE StartRegistration \/ NameTaken \/ Registered \/ RegistrationThrows
    BY <1>1, <2>1
       DEF StartRegistration, NameTaken, StepAfterTaken, Registered, RegistrationThrows, Goto
  <2>2. CASE EnterName
    <3>1. PICK n \in Usernames : Transmit([code |-> "REGISTRATION", name |-> n])
      BY <2>2 DEF EnterName
    <3>2. [code |-> "REGISTRATION", name |-> n] \in Requests
      BY DEF Requests, RegisterRequest
    <3> QED  BY <1>3, <2>2, <3>1, <3>2 DEF EnterName, Goto
  <2> QED  BY <1>7, <2>1, <2>2 DEF Register
<1>8. CASE Exchange
  <2>1. CASE SaveInfo \/ AppendKey \/ AppendKeyThrows \/ SavePrivate
    BY <1>1, <2>1, Exchanged DEF SaveInfo, AppendKey, AppendKeyThrows, SavePrivate, Goto
  <2>2. CASE SendKey
    <3>1. [code |-> "PUBLIC_KEY_SEND", uid |-> meInfo.uid, key |-> rsaKey] \in Requests
      BY DEF TypeOK, Infos, Requests, KeyRequest
    <3> QED  BY <1>3, <2>2, <3>1, Exchanged DEF SendKey, Goto
  <2> QED  BY <1>8, <2>1, <2>2 DEF Exchange
<1>9. CASE Reenter
  <2>1. CASE ReRegister
    <3>1. [code |-> "RE_REGISTRATION", name |-> meInfo.name, uid |-> meInfo.uid] \in Requests
      BY <2>1 DEF TypeOK, Infos, ReRegister, Complete, Requests, ReRegisterRequest
    <3> QED  BY <1>3, <2>1, <3>1 DEF ReRegister, Goto
  <2>2. CASE CredentialsMissing
    BY <1>1, <2>2 DEF CredentialsMissing, Goto
  <2> QED  BY <1>9, <2>1, <2>2 DEF Reenter
<1>10. CASE KeyReceipt
  BY <1>1, <1>10
     DEF KeyReceipt, ReceiveKey, KeyThrows, IdentityRejected, SaveAesKey, Goto
<1>11. CASE Backup
  BY <1>1, <1>11 DEF Backup, Select, UploadReturns, UploadThrows, Disconnect, Goto
<1>12. CASE Main
  BY <1>1, <1>12 DEF Main, HandlerDisconnects, HandlerThrows, Cleanup, CleanupThrows, Goto
<1>13. CASE Server
  <2>1. ServerActs
    BY <1>13, ServerServes
  <2> QED  BY <1>4, <2>1 DEF ServerActs
<1>14. CASE Surroundings
  <2>1. CASE Forget
    BY <1>2, <2>1 DEF Forget, Outside
  <2>2. CASE LinkBreaks \/ Crash \/ NextRun
    BY <1>1, <2>2 DEF LinkBreaks, Crash, NextRun
  <2> QED  BY <1>14, <2>1, <2>2 DEF Surroundings
<1>15. CASE UNCHANGED vars
  BY <1>2, <1>15 DEF vars
<1> QED  BY <1>5, <1>6, <1>7, <1>8, <1>9, <1>10, <1>11, <1>12, <1>13, <1>14, <1>15
         DEF Next, Client, Over

\* The client never waits for a response that will not come, in registration, in
\* re-registration and in the key exchange, whatever responses are wrong: while it
\* reads and the connection is up, its request or the answer is on the way, alone.
THEOREM ReadsAnswered == Spec => []AnswerAwaited
<1>1. Init => AnswerAwaited
  BY DEF Init, AnswerAwaited, Awaiting
<1>2. SessionInv => OneExchange
  BY DEF SessionInv
<1> QED  BY <1>1, <1>2, AnswerAwaitedStep, SessionInvariant, PTL DEF Spec

\* Every step of the client goes to a later stage, but for the next prompt.
LEMMA ClientForward ==
    ASSUME TypeOK, Client
    PROVE  Stage[pc'] > Stage[pc] \/ prompts' = prompts + 1
<1> USE DEF Stage, Goto
<1>1. CASE Start
  BY <1>1 DEF Start, Connect, AddressFails, ConnectFails
<1>2. CASE Failures
  BY <1>2
     DEF Failures, SendFails, ReceiveFails, OpenFails, Cancel, SendPoints, OpenPoints, Awaiting
<1>3. CASE Register
  BY <1>3 DEF Register, StartRegistration, EnterName, NameTaken, StepAfterTaken, Registered,
     RegistrationThrows
<1>4. CASE Exchange
  BY <1>4, Exchanged DEF Exchange, SaveInfo, AppendKey, AppendKeyThrows, SavePrivate, SendKey
<1>5. CASE Reenter
  BY <1>5 DEF Reenter, ReRegister, CredentialsMissing
<1>6. CASE KeyReceipt
  BY <1>6 DEF KeyReceipt, ReceiveKey, KeyThrows, IdentityRejected, SaveAesKey
<1>7. CASE Backup
  BY <1>7 DEF Backup, Select, UploadReturns, UploadThrows, Disconnect
<1>8. CASE Main
  BY <1>8 DEF Main, HandlerDisconnects, HandlerThrows, Cleanup, CleanupThrows
<1> QED  BY <1>1, <1>2, <1>3, <1>4, <1>5, <1>6, <1>7, <1>8 DEF Client

\* A run of the program goes forward from stage to stage: it goes back only to prompt the
\* user for another name, and nothing but the start of a new run begins again. Since
\* every step of the client is one of the two kinds, none of them leaves everything as it
\* is.
THEOREM RunsAdvance == Spec => RunAdvances
<1> DEFINE Forward ==
        /\ Client => Stage[pc'] > Stage[pc] \/ prompts' = prompts + 1
        /\ Stage[pc'] < Stage[pc] => prompts' = prompts + 1 \/ NextRun
<1>1. TypeOK /\ TypeOK' /\ [Next]_vars => Forward
  <2> SUFFICES ASSUME TypeOK, TypeOK', [Next]_vars PROVE Forward
    OBVIOUS
  <2>1. pc \in DOMAIN Stage /\ pc' \in DOMAIN Stage
    BY DEF TypeOK, Stage, Running, Awaiting, AtRest
  <2>2. Stage[pc] \in Nat /\ Stage[pc'] \in Nat
    BY <2>1 DEF Stage
  <2>3. CASE Client
    BY <2>2, <2>3, ClientForward
  <2>4. CASE ~Client /\ pc' = pc
    BY <2>2, <2>4
  <2>5. CASE Crash
    <3>1. Stage[pc'] = 15 /\ Stage[pc] < 15
      BY <2>5 DEF Crash, Running, Awaiting, Stage
    <3> QED  BY <2>2, <3>1
  <2>6. CASE NextRun
    <3>1. ~Client \/ Stage[pc'] > Stage[pc] \/ prompts' = prompts + 1
      BY ClientForward
    <3> QED  BY <2>6, <3>1
  <2>7. CASE Server
    <3>1. UNCHANGED pc
      BY <2>7 DEF Server, ServeRegistration, RefuseRegistration, ServeKey, RefuseKey,
         ServeReRegistration, RefuseReRegistration, Outside
    <3> QED  BY <2>3, <2>4, <3>1
  <2>8. CASE Forget \/ LinkBreaks \/ UNCHANGED vars
    <3>1. UNCHANGED pc
      BY <2>8 DEF Forget, LinkBreaks, vars, Outside
    <3> QED  BY <2>3, <2>4, <3>1
  <2> QED  BY <2>3, <2>5, <2>6, <2>7, <2>8 DEF Next, Over, Surroundings
<1> QED  BY <1>1, TypeCorrect, PTL DEF Spec, RunAdvances

-----------------------------------------------------------------------------
(* Where the comments on the code hold *)

\* The new key, from file to file.
KeyOnDisk ==
    ioFaults = 0 =>
        /\ pc \in {"save_private", "send_key"} => meInfo.key = rsaKey
        /\ pc = "send_key" => privateKey = rsaKey
        /\ LostWriteThrows

LEMMA KeyOnDiskStep == TypeOK /\ KeyOnDisk /\ [Next]_vars => KeyOnDisk'
<1> SUFFICES ASSUME TypeOK, KeyOnDisk, [Next]_vars PROVE KeyOnDisk'
  OBVIOUS
<1> USE DEF LostWriteThrows, Goto
<1> DEFINE KeySteps == {"save_private", "send_key", "await_key"}
<1>0. ioFaults \in Nat
  BY DEF TypeOK
<1>1. ASSUME pc' \notin KeySteps PROVE KeyOnDisk'
  BY <1>1 DEF KeyOnDisk
<1>2. ASSUME UNCHANGED <<pc, meInfo, privateKey, rsaKey, opCode, ioFaults>> PROVE KeyOnDisk'
  BY <1>2 DEF KeyOnDisk
<1>3. ASSUME IoFault PROVE KeyOnDisk'
  BY <1>0, <1>3 DEF KeyOnDisk, IoFault
<1>4. CASE AppendKey
  <2>1. CASE NoIoFault /\ meInfo' = [meInfo EXCEPT !.key = rsaKey]
    <3>1. meInfo'.key = rsaKey
      BY <2>1 DEF TypeOK, Infos
    <3> QED  BY <1>4, <3>1, Exchanged DEF AppendKey, KeyOnDisk, memory
  <2> QED  BY <1>3, <1>4, <2>1 DEF AppendKey
<1>5. CASE SavePrivate
  <2>1. CASE NoIoFault /\ privateKey' = rsaKey
    BY <1>5, <2>1, Exchanged DEF SavePrivate, KeyOnDisk, NoIoFault, memory, tally
  <2> QED  BY <1>3, <1>5, <2>1 DEF SavePrivate
<1>6. CASE SendKey
  BY <1>6, Exchanged DEF SendKey, KeyOnDisk, files, tally
<1>7. CASE ReRegister
  BY <1>7 DEF ReRegister, KeyOnDisk
<1>8. CASE Start \/ Failures \/ Register \/ SaveInfo \/ AppendKeyThrows
  BY <1>1, <1>8, Exchanged
     DEF Start, Connect, AddressFails, ConnectFails, Failures, SendFails, ReceiveFails,
         OpenFails, Cancel, Register, StartRegistration, EnterName, NameTaken, StepAfterTaken,
         Registered, RegistrationThrows, SaveInfo, AppendKeyThrows
<1>9. CASE CredentialsMissing \/ KeyReceipt \/ Backup \/ Main \/ Crash \/ NextRun
  BY <1>1, <1>9
     DEF CredentialsMissing, KeyReceipt, ReceiveKey, KeyThrows, IdentityRejected, SaveAesKey,
         Backup, Select, UploadReturns, UploadThrows, Disconnect, Main, HandlerDisconnects,
         HandlerThrows, Cleanup, CleanupThrows, Crash, NextRun
<1>10. CASE Server \/ Forget \/ LinkBreaks \/ UNCHANGED vars
  BY <1>2, <1>10
     DEF Server, ServeRegistration, RefuseRegistration, ServeKey, RefuseKey,
         ServeReRegistration, RefuseReRegistration, Forget, LinkBreaks, vars, Outside, memory,
         files, tally
<1> QED  BY <1>4, <1>5, <1>6, <1>7, <1>8, <1>9, <1>10
         DEF Next, Client, Exchange, Reenter, Over, Surroundings

\* As long as no file fails, send_rsa_public_key keeps what its comment says: when it has
\* told the server a public key, the private key is in me.info and in private.key.
THEOREM KeyWrittenTwice == Spec => [](ioFaults = 0 => LostWriteThrows)
<1>1. Init => KeyOnDisk
  BY DEF Init, KeyOnDisk, LostWriteThrows
<1>2. KeyOnDisk => (ioFaults = 0 => LostWriteThrows)
  BY DEF KeyOnDisk
<1> QED  BY <1>1, <1>2, KeyOnDiskStep, TypeCorrect, PTL DEF Spec

\* What a refused connection leads to, and what a run that ends leaves.
EndingInv ==
    /\ connectFailed =>
           pc \in {"handler", "terminated", "killed"} /\ (pc # "killed" => socket = "open")
    /\ pc # "handler" /\ pc # "terminated" /\ pc # "killed" => ~connectFailed
    /\ socket = "open" => connectFailed
    /\ pc = "exited" => aesKeyFile = Absent
    /\ pc = "terminated" =>
           \/ connectFailed \/ ioFaults > 0
           \/ socket = "connected" /\ link = "down"

LEMMA EndingStep == TypeOK /\ EndingInv /\ [Next]_vars => EndingInv'
<1> SUFFICES ASSUME TypeOK, EndingInv, [Next]_vars PROVE EndingInv'
  OBVIOUS
<1> USE DEF Goto
<1>0. ioFaults \in Nat /\ connectFailed \in BOOLEAN
  BY DEF TypeOK
<1>1. ASSUME UNCHANGED <<socket, connectFailed>>,
             pc \notin {"handler", "terminated", "killed"},
             pc' \notin {"exited", "terminated", "killed"}
      PROVE  EndingInv'
  BY <1>0, <1>1 DEF EndingInv
<1>2. CASE Start
  BY <1>0, <1>2
     DEF Start, Connect, AddressFails, ConnectFails, EndingInv, tally
<1>3. CASE Failures \/ Register \/ Exchange
  BY <1>1, <1>3, Exchanged
     DEF Failures, SendFails, ReceiveFails, OpenFails, Cancel, SendPoints, OpenPoints, Awaiting,
         IoFault, NoIoFault, Register, StartRegistration, EnterName, NameTaken, StepAfterTaken,
         Registered, RegistrationThrows, Exchange, SaveInfo, AppendKey, AppendKeyThrows,
         SavePrivate, SendKey, tally
<1>4. CASE Reenter \/ KeyReceipt
  BY <1>1, <1>4
     DEF Reenter, ReRegister, CredentialsMissing, KeyReceipt, ReceiveKey, KeyThrows,
         IdentityRejected, SaveAesKey, IoFault, NoIoFault, tally
<1>5. CASE Backup
  BY <1>0, <1>5 DEF Backup, Select, UploadReturns, UploadThrows, Disconnect, HangUp, EndingInv,
     tally
<1>6. CASE Main
  BY <1>0, <1>6 DEF Main, HandlerDisconnects, HandlerThrows, Cleanup, CleanupThrows, HangUp,
     IoFault, EndingInv, tally, files, net
<1>7. CASE Server \/ Forget
  <2>1. UNCHANGED <<pc, socket, connectFailed, aesKeyFile, ioFaults, link>>
    BY <1>7 DEF Server, ServeRegistration, RefuseRegistration, ServeKey, RefuseKey,
       ServeReRegistration, RefuseReRegistration, Forget, Outside, files, tally
  <2> QED  BY <2>1 DEF EndingInv
<1>8. CASE LinkBreaks
  BY <1>8 DEF LinkBreaks, EndingInv, files, tally
<1>9. CASE Crash \/ NextRun
  BY <1>0, <1>9 DEF Crash, NextRun, HangUp, EndingInv
<1>10. CASE UNCHANGED vars
  BY <1>10 DEF vars, net, files, tally, EndingInv
<1> QED  BY <1>2, <1>3, <1>4, <1>5, <1>6, <1>7, <1>8, <1>9, <1>10
         DEF Next, Client, Over, Surroundings

\* The check of the socket in disconnect never does what its comment says: a run whose
\* connection was refused does not return from main. Unless it is killed first, the
\* exception of disconnect ends it.
THEOREM RefusalTerminates ==
    Spec => [](connectFailed => pc \in {"handler", "terminated", "killed"})
<1>1. Init => EndingInv
  BY DEF Init, EndingInv
<1>2. EndingInv => (connectFailed => pc \in {"handler", "terminated", "killed"})
  BY DEF EndingInv
<1> QED  BY <1>1, <1>2, EndingStep, TypeCorrect, PTL DEF Spec

\* aes.key is removed before main exits, as its comment says, unless the connection was
\* refused or lost under a socket still in use, or a file could not be removed.
THEOREM AesKeyRemovedOrLost ==
    Spec => [](\/ AesKeyRemoved
               \/ connectFailed \/ ioFaults > 0
               \/ socket = "connected" /\ link = "down")
<1>1. Init => EndingInv
  BY DEF Init, EndingInv
<1>2. EndingInv => \/ AesKeyRemoved
                   \/ connectFailed \/ ioFaults > 0
                   \/ socket = "connected" /\ link = "down"
  BY DEF EndingInv, AesKeyRemoved
<1> QED  BY <1>1, <1>2, EndingStep, TypeCorrect, PTL DEF Spec
=============================================================================

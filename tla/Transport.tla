------------------------------ MODULE Transport ------------------------------
(***************************************************************************)
(* CommunicationManager on one TCP connection, byte by byte: send_request  *)
(* writes the bytes of Wire, receive_response reads a header and then as   *)
(* many bytes as the header says. TCP delivers bytes in order, knows no    *)
(* messages and can be cut at any byte. The server is external: it reads a *)
(* header and a payload as the client does, and answers. The caller sends  *)
(* and receives in the way the flows do: it reads a response after every   *)
(* request except a packet before the last, CRC_ERROR and DISCONNECT.      *)
(***************************************************************************)
EXTENDS Wire

CONSTANTS
    Requests,    \* the requests the caller may send, DISCONNECT apart
    Answers,     \* the responses the server may give
    WrongSizes,  \* payload sizes that a response may claim wrongly
    MaxRequests, \* bound: requests on the connection
    MaxFaults    \* bound: responses with a wrong size

ASSUME TransportAssumption ==
    /\ Requests \subseteq RequestRecords
    /\ \A r \in Requests : WellBuilt(r) /\ r.code # Codes.DISCONNECT
    /\ \A r \in Requests \cup {Disconnect} : DeclaredSize(r) \in U32
    /\ \A r \in Answers : Len(ResponsePayload(r)) \in U32
    /\ Answers \subseteq Responses
    /\ WrongSizes \subseteq U32
    /\ {MaxRequests, MaxFaults} \subseteq Nat

VARIABLES
    pc,         \* where the client is
    header,     \* header_buffer of receive_response
    sent,       \* history: the requests sent, as they were meant
    got,        \* history: the responses returned by receive_response
    link,       \* "up"; "cut": what is under way still arrives, and no more
    toServer, toClient, \* bytes under way
    served,     \* server: the requests it read
    answered,   \* server: the responses it gave
    faults      \* server: responses with a wrong size so far

client == <<pc, header, sent, got>>
server == <<served, answered, faults>>
vars   == <<client, link, toServer, toClient, server>>

Init ==
    /\ pc = "idle" /\ header = <<>>
    /\ sent = <<>> /\ got = <<>>
    /\ link = "up" /\ toServer = <<>> /\ toClient = <<>>
    /\ served = <<>> /\ answered = <<>> /\ faults = 0

Answered(r) ==
    /\ r.code \notin {Codes.CRC_ERROR, Codes.DISCONNECT}
    /\ r.code = Codes.CREATE_BACKUP => r.packet = r.total

-----------------------------------------------------------------------------
(* CommunicationManager::send_request *)

Write(r) ==
    /\ sent' = Append(sent, r)
    /\ toServer' = toServer \o Serialize(r)

SendRequest(r) ==
    /\ pc = "idle" /\ link = "up"
    /\ Len(sent) < MaxRequests
    /\ Write(r)
    /\ pc' = IF Answered(r) THEN "header" ELSE "idle"
    /\ UNCHANGED <<header, got, link, toClient, server>>

\* The write fails: boost::system::system_error. Some of the bytes may have
\* arrived before, which Cut allows for.
SendFails ==
    /\ pc = "idle" /\ link = "cut"
    /\ pc' = "threw"
    /\ UNCHANGED <<header, sent, got, link, toServer, toClient, server>>

\* ClientHandler::disconnect, at the end of the session or in the handler of an
\* exception: no answer is read, and the socket is closed.
SendDisconnect ==
    /\ pc \in {"idle", "threw"} /\ link = "up"
    /\ Write(Disconnect)
    /\ pc' = "closed"
    /\ link' = "cut" /\ toClient' = <<>>
    /\ UNCHANGED <<header, got, server>>

-----------------------------------------------------------------------------
(* CommunicationManager::receive_response *)

\* fault variant: one byte of the payload stays on the connection
BytesToRead_Short(data) == PayloadSize(data) - 1

BytesToRead(data) == PayloadSize(data)

Accept(r) == pc' = "idle" /\ got' = Append(got, r)

Refuse == pc' = "threw" /\ UNCHANGED got

\* The header is complete. Without a payload nothing more is read, and
\* deserialize throws.
ReadHeader ==
    /\ pc = "header" /\ Len(toClient) >= ResponseHeaderLen
    /\ header' = Slice(toClient, 0, ResponseHeaderLen)
    /\ toClient' = Slice(toClient, ResponseHeaderLen, Len(toClient) - ResponseHeaderLen)
    /\ IF BytesToRead(header') = 0
       THEN Refuse
       ELSE pc' = "payload" /\ UNCHANGED got
    /\ UNCHANGED <<sent, link, toServer, server>>

\* The payload is complete: header and payload go to Response::deserialize.
ReadPayload ==
    LET count == BytesToRead(header)
        data  == header \o Slice(toClient, 0, count)
    IN  /\ pc = "payload" /\ Len(toClient) >= count
        /\ toClient' = Slice(toClient, count, Len(toClient) - count)
        /\ IF WellFormed(data) THEN Accept(Deserialize(data)) ELSE Refuse
        /\ UNCHANGED <<header, sent, link, toServer, server>>

\* The connection ends before the bytes are there: boost::system::system_error.
ReadFails ==
    /\ link = "cut"
    /\ \/ pc = "header" /\ Len(toClient) < ResponseHeaderLen
       \/ pc = "payload" /\ Len(toClient) < BytesToRead(header)
    /\ pc' = "threw"
    /\ UNCHANGED <<header, sent, got, link, toServer, toClient, server>>

-----------------------------------------------------------------------------
(* The server *)

\* A header, and the payload it declares, have arrived.
RequestArrived ==
    /\ Len(toServer) >= RequestHeaderLen
    /\ Len(toServer) >= RequestHeaderLen + ClaimedSize(toServer)

Incoming == ReadRequest(Slice(toServer, 0, RequestHeaderLen + ClaimedSize(toServer)))

TakeRequest ==
    LET count == RequestHeaderLen + ClaimedSize(toServer)
    IN  /\ RequestArrived
        /\ served' = Append(served, Incoming)
        /\ toServer' = Slice(toServer, count, Len(toServer) - count)

\* A request that has no answer, or whose answer will not arrive.
ServeSilently ==
    /\ TakeRequest
    /\ ~Answered(Incoming) \/ link = "cut"
    /\ UNCHANGED <<client, link, toClient, answered, faults>>

Serve ==
    /\ TakeRequest
    /\ Answered(Incoming) /\ link = "up"
    /\ \E r \in Answers :
           /\ answered' = Append(answered, r)
           /\ \/ toClient' = toClient \o ResponseBytes(r) /\ UNCHANGED faults
              \/ /\ faults < MaxFaults /\ faults' = faults + 1
                 /\ \E size \in WrongSizes : toClient' = toClient \o Claiming(r, size)
    /\ UNCHANGED <<client, link>>

-----------------------------------------------------------------------------
\* The connection is lost: of the bytes under way each way some still arrive.
Cut ==
    /\ link = "up"
    /\ link' = "cut"
    /\ \E n \in 0 .. Len(toServer) : toServer' = Slice(toServer, 0, n)
    /\ \E n \in 0 .. Len(toClient) : toClient' = Slice(toClient, 0, n)
    /\ UNCHANGED <<client, server>>

Client == \/ \E r \in Requests : SendRequest(r)
          \/ SendFails \/ SendDisconnect \/ ReadHeader \/ ReadPayload \/ ReadFails

Server == Serve \/ ServeSilently

\* The caller is done, or the client waits for bytes that a response with a
\* wrong size promised.
Over == pc \in {"threw", "closed"} /\ UNCHANGED vars

Next == Client \/ Server \/ Cut \/ Over

Spec == Init /\ [][Next]_vars

\* A read returns when its bytes are there, and the server serves requests. The
\* caller need not send anything, and the connection need not be lost.
FairSpec == Spec /\ WF_vars(ReadHeader \/ ReadPayload \/ ReadFails) /\ WF_vars(Server)
-----------------------------------------------------------------------------
(* Properties *)

\* Every variable has its type, and a payload is waited for only when the header
\* announces one.
TypeOK ==
    /\ pc \in {"idle", "header", "payload", "threw", "closed"}
    /\ header \in {<<>>} \cup Bytes(ResponseHeaderLen)
    /\ pc = "payload" => header # <<>> /\ BytesToRead(header) > 0
    /\ sent \in Seq(Requests \cup {Disconnect})
    /\ got \in Seq(Responses)
    /\ link \in {"up", "cut"}
    /\ toServer \in Seq(Byte) /\ toClient \in Seq(Byte)
    /\ served \in Seq(RequestRecords)
    /\ answered \in Seq(Answers)
    /\ faults \in 0 .. MaxFaults

\* The server reads the requests that were sent, each with the fields it was
\* given, in their order and without a gap, wherever the connection is cut:
\* Request::serialize and the payload sizes its callers declare agree.
ToServer == INSTANCE MessageChannel
    WITH Messages <- Requests \cup {Disconnect},
         offered <- sent, taken <- served, misframed <- FALSE

RequestsInOrder == ToServer!Spec

\* receive_response returns the responses the server gave, field by field, in
\* their order and without a gap, as long as the server claims the right sizes.
ToClient == INSTANCE MessageChannel
    WITH Messages <- Answers,
         offered <- answered, taken <- got, misframed <- faults > 0

ResponsesInOrder == ToClient!Spec

\* A read that was begun returns a response, or throws because the connection
\* was lost; it waits for ever, or throws for another reason, only after the
\* server claimed a wrong size.
Reading == pc \in {"header", "payload"}

EveryReadEnds ==
    Reading ~> \/ pc = "idle"
               \/ pc = "threw" /\ link = "cut"
               \/ faults > 0

\* While a read waits for its bytes the server has a request to serve: until the server
\* claims a wrong size, client and server never wait for each other's bytes, however the
\* requests with an answer and those without follow each other.
ReadReady ==
    \/ pc = "header" /\ Len(toClient) >= ResponseHeaderLen
    \/ pc = "payload" /\ Len(toClient) >= BytesToRead(header)

NoMutualWait ==
    Reading /\ link = "up" /\ faults = 0 => ReadReady \/ RequestArrived

\* receive_response throws only because the connection was lost: until the server claims
\* a wrong size, no response is refused for its header or its payload.
ReadThrowsWhenCut ==
    [][Reading /\ pc' = "threw" => link = "cut" \/ faults > 0]_vars

\* The declaration of payload_size_: it "represents the size of the serialized
\* request payload in bytes".
DeclaredSizeIsSerialized ==
    \A i \in DOMAIN sent : DeclaredSize(sent[i]) = Len(Payload(sent[i]))
=============================================================================

# Verification of the encrypted backup client

TLA+ models of the client in `src/`, the configurations that model-check them
with TLC, and theorems about them that TLAPS proves. The repository holds the
client only; the server is modelled as far as the client's code shows what it
expects of it, and every such definition is marked *external* in `PROJECT.json`.

Paths below are those of the repository (`src/core/ClientHandler.cpp` is the
file that `PROJECT.json` names `src/src/core/ClientHandler.cpp`).

## 1. The system

One thread, one TCP connection, no timeouts. `main` runs `ClientHandler::run`:
connect, register or re-register, back up the selected files, disconnect. All
calls are synchronous; the parts share the socket and three files in the working
directory. What runs concurrently with the client is outside of it: the server,
the network, the user's other programs, and whatever kills the process.

| part | state it keeps | operations | what makes it correct |
|---|---|---|---|
| `main.cpp`, `core/ClientHandler.cpp` | the socket | `run`, `connect`, `handle_registration`, `backup_files`, `disconnect`, the three handlers of `main`, `cleanup_temporary_aes_key` | every run ends; `aes.key` does not outlive it; a failure is reported, not a crash |
| `registration/registration_flow.cpp` | the entered name | prompt, `REGISTRATION`, response, writing name and user id to `me.info` | an identity on the disk is one the server gave |
| `registration/key_exchange.cpp` | the key pair, `private.key`, `aes.key` | append the private key to `me.info`, write `private.key`, `PUBLIC_KEY_SEND`, decrypt and write the AES key; remove `me.info` | the key is saved before it is told; `me.info` is removed only when it is worthless; the AES key is the server's |
| `registration/re_registration_flow.cpp`, `client_credentials.cpp` | `me.info` | load name, user id, private key; `RE_REGISTRATION` | a complete identity is always usable again |
| `crypto/FileAuthentication.cpp` | loop index, `crc_failures`, `crc_error_`, `encrypted_file_size_`, the bytes read | for each file: read, encrypt, send packets, verify the response, `CRC_SUCCESS` / `CRC_ERROR` / `CRC_FAILURE`, acknowledgement | "sent successfully" only when it is; at most three attempts; one outcome a file; it ends |
| chunk arithmetic (`get_chunk_size`, `AESWrapper::encrypt`, the send loop) | none | sizes, offsets, counts, casts to 16 bits | packets cover the ciphertext exactly and are numbered without loss |
| `core/CommunicationManager.cpp`, `protocol/*` | the header buffer, what is under way on the socket | serialize and write; read header, then payload; deserialize | messages are taken whole, in order and as they were meant; a read ends |
| `ui/backup_selection.cpp`, `registration_flow.cpp` (its prompt), `utils/input_validation.cpp` | what of `std::cin` is unread, the names entered | prompts and validators | a backup starts with the names asked for; no name is cut in its field; the prompts end |
| `config/config_handling.cpp` | none | reading the address; the port goes from 64 bits to an `int` to 16 bits | the port connected to is the one that was looked at |
| `utils/encoding_utils` | none | user ids to text and back, Base64 | an id read from `me.info` is the one that was written |
| `utils/logger.cpp`, `protocol_formatting.cpp` | none | logging; printing | output only |

Hard behaviour, and where it is dealt with (the full list, line by line, is
`hazards` in `PROJECT.json`):

- *Order without numbers.* Requests and responses carry no request number. Only
  the order of writes and reads keeps client and server in step, through retries,
  rejections, exceptions that end one file, and a request (`CRC_ERROR`) that has
  no response.
- *Files that change.* The selected files are re-read for every attempt while
  the user may edit or delete them.
- *Crashes and partial writes.* `me.info` is written in two steps, with a
  network exchange and two more files around them; `aes.key` can be left over.
- *Failures inside the failure path.* `disconnect` is called in a catch block.
- *A stream without frames.* TCP knows no messages: what keeps them apart is a
  length that each sender computes apart from the bytes it writes, and that each
  reader trusts. The connection can be lost inside a message.
- *Three prompts, one input.* One reads lines and two read words, from the same
  stream, which may end at any point.
- *Boundaries.* 16-bit packet fields, the 1 MiB threshold, whole AES blocks, byte
  orders, names as long as their fields, a port that does not fit an `int`.

## 2. Modules

| module | models | used by |
|---|---|---|
| `Chunking` | chunk arithmetic, no state | `FileUpload` extends it |
| `FileUpload` | `FileAuthentication`, the disk, the connection and the server's side of an upload | |
| `BackupPromise` | abstract: what `backup_files` promises | instantiated by `FileUpload` |
| `ClientSession` | `main`, `ClientHandler`, registration, re-registration, key exchange, stored credentials, over several runs | |
| `KeyStore` | abstract: what becomes of an identity and its key | instantiated by `ClientSession` |
| `Wire` | the bytes of requests and responses, no state | `Transport` extends it |
| `Transport` | `CommunicationManager` over a byte stream, with a server at its other end | |
| `MessageChannel` | abstract: messages in order, in one direction | instantiated twice by `Transport` |
| `UserInput` | the prompts, the validators, the port of the configuration | |
| `ChunkingProofs`, `WireProofs` | theorems about the operators of `Chunking` and `Wire` | `FileUploadProofs`, `MCChunkingProofs` and `TransportProofs` cite them |
| `MCChunkingProofs` | the properties of the run `chunking` as theorems | |
| `FileUploadProofs` | types, retries and the pairing of responses in `FileUpload` | `FileUploadRefinement` extends it |
| `FileUploadRefinement` | success and `BackupPromise`, with a wrong response | |
| `ClientSessionProofs`, `TransportProofs`, `UserInputProofs` | theorems about `ClientSession`, `Transport` and `UserInput` | |
| `MCChunking`, `MCFileUpload`, `MCClientSession`, `MCTransport`, `MCUserInput` | instances for TLC | |

How they compose:

- A backup is one step of `ClientSession` (`UploadReturns`, `UploadThrows`), which
  is what `FileUpload` is about; the interface between the two is
  `BackupPromise`: the call returns or it throws, and `aes.key` and `me.info` are
  not written by it.
- `FileUpload` and `ClientSession` send and receive whole messages over queues that
  may be cut. That this is what `send_request` and `receive_response` give them is
  `MessageChannel`, which `Transport` implements in both directions.
- The names that `FileUpload` and `ClientSession` start from are those that
  `UserInput` lets through: `ValidUsername` and `ValidFilename` accept only what fits
  its field with a terminator, which is what `Wire` needs (`WellBuilt`).

### Chunking

`EncryptedSize` is `AESWrapper::encrypt` (an IV, then CBC with PKCS padding),
`ChunkSize` is `get_chunk_size`, and `TotalPackets`, `TotalPacketsField`,
`StartOffset`, `ChunkLength` are the expressions of the loop in
`send_encrypted_file_request`. The constants of the code are CONSTANTS here;
`ChunkingAssumption` asks that they are positive and that the largest file, in
either chunk size, has fewer packets than the 16-bit field has values. TLC
evaluates this on the real values in the run `chunking`.

### FileUpload

Each action is the code from one blocking call or disk access to the next; `pc`
says which comes next. `idx`, `crcFailures`, `fileData`, `crcError`,
`encryptedFileSize` and `packet` are the variables of the code with these names.
`SkipFile`, `StartFile` and `Return` are the loop of `backup_files`; `OpenFails`,
`ReadFails`, `FileTooLarge` and `EncryptFile` are `encrypt_file`; `SendPacket`
is one turn of the send loop; `SendSuccess`, `SendError`, `SendFailure` are
`send_crc_status_request`; the actions `Verify...` are the exits of
`verify_upload_crc_response`, and `ReadAck` and `AckThrows` those of
`process_srv_ack_response`. A `ClientException` ends one file (`Settle`), any
other exception ends the call (`pc \in Threw`).

Contents are model values with a size and a checksum. Two different contents are
assumed to be told apart by CRC32 only as far as an instance says so: `Crc` is
any function in the proofs, and injective in the instances. `iv` numbers
the encryptions. `tries` and `outcomes` are history variables.

The server reassembles packets, answers the last one, confirms or drops the
upload. Two things may go wrong with it: the bytes it ends up with
(`MaxDamages`), and its responses (`MaxFaults`: another response of the
protocol, for any user, instead of the right one, or the right one twice). What
it reports as encrypted size is the constant `ServerReports`: with `"last_chunk"`
it is the value the client compares it with, which is the only choice under which
a file of more than one packet can ever be accepted.

Not in the module: `load_user_id` failing in the middle of an upload (nothing in
the program changes `me.info` then), also on a good verdict; `fs::exists` itself
throwing, for a path the system refuses to look at; a directory whose name passes
`is_valid_filename` behaves like a file that is too large or cannot be read, and
both are there.

### ClientSession

The three files, the socket (`closed`, `open` but not connected, `connected`),
what the process has in memory, and the server's accounts. Each action is the
code between two points at which the outside can interfere: a blocking call, a
prompt, a file being written. `KeyExchangeSteps` is the order of
`complete_registration_key_exchange` and `send_rsa_public_key`, so that a crash
can fall between any two of its steps. A run ends by returning from `main`
(`exited`), in `std::terminate` (`terminated`) or by being killed (`killed`);
`NextRun` starts the program again with the files as they are and new memory.

Key pairs, AES keys and user ids are numbered as they are made, which is what
randomness gives: a new one is different from all before. `IoFault` stands for a
file that cannot be opened or removed and for a write that is lost; a lost write
loses the whole text, the coarsest of the outcomes an unchecked stream has.
`KeyThrows` lets a right response end in an exception, because
`handle_rsa_key_response` hands bytes without a terminator to a function that
measures them with `strlen`.

The external server may forget an account, refuse a registration, and give wrong
responses (`MaxFaults`), with one exception that `HonouredIdentityKept` is
relative to: it does not tell a user it knows to register again.

### KeyStore

What is kept of an identity (its user id and its private key) and what the server was
told, by user id, with no requests, files or steps in it. A user id that the server
issued is taken over only when there is no identity and no key is known for it; the
identity gets a private key that no account has; the server is told only the key that
is kept, and once; an identity is discarded only when the server would not honour it.
`ClientSession!IdentityStored` says that the session starts and steps as this
specification does (as long as it is `Undisturbed`), under the refinement mapping
`kept <- Kept` (`me.info` without the name) and `told <- Told` (the server's accounts, and
`Lost` for a forgotten one). `private.key`, `aes.key`, the connection and the process are
not in it, so that a crash between two steps of the exchange is a stutter, and one in the
middle of writing name and user id takes over an identity of which nothing is known.

### Wire

Byte sequences, with the layouts as concatenations of fields: `Header` and
`Payload` are `Request::serialize` in the order of its calls, `Parsed` and
`WellFormed` are `Response::deserialize` with each `validate_available_bytes`. The
widths of names, ids and keys are CONSTANTS; those of the numbers are the ones of
`protocol_types.h`. Numbers keep their bytes: `Host16` and `Host32` write them as
they are in the memory of the host, of either byte order, and `Ntohs`, `Ntohl`,
`Load16`, `Load32` are what `deserialize` does to read them. `DeclaredSize` is the
payload size that each of the senders computes. `Registration`, `PublicKeySend`,
`ReRegistration`, `CreateBackup`, `CrcStatus` and `Disconnect` are the requests as
the flows build them; a field no setter was called for is zero.

`ToHex` is `bytes_to_hex`, and `FromHex` and `IsHex` are `hex_string_to_byte_array`
with what `std::stoul` accepts as two characters, which includes a sign or a blank
followed by a digit. A text is a sequence of the numbers 0 to 19: the digits, `+`,
`-`, a blank, and any other character.

`ReadRequest` is external: a server that reads the fields in the order in which
they are written, little-endian, since that is what the client's host sends.

### Transport

`SendRequest`, `SendFails`, `SendDisconnect` are `send_request` and `disconnect`;
`ReadHeader`, `ReadPayload`, `ReadFails` are the two blocking reads of
`receive_response` and `deserialize` after them. The caller behaves as the flows do:
one response is read after each request, except after a packet before the last,
`CRC_ERROR` and `DISCONNECT`. `Cut` loses the connection, and with it any number of
the bytes under way, in each direction. The server takes a request off the stream
when a header and as many bytes as it declares are there, and answers; up to
`MaxFaults` of its answers claim a wrong size.

### MessageChannel

A receiver takes the messages that were sent, in order; after the sender broke the
format (`misframed`) nothing is promised. `RequestsInOrder` and `ResponsesInOrder`
are this specification with `sent`/`served`, and `answered`/`got`, for its
variables.

### UserInput

What the user types is a sequence of words and ends of lines, chosen before the
program starts; the input is closed behind it. `UsernameEntered`, `UsernameRefused`
and `UsernameCancelled` are `prompt_valid_username`; `Directory...` is
`prompt_backup_directory`; `ReadLine` and `LinesEnd` are one turn and the end of the
loop of `prompt_files_to_backup`. `Word` and `AfterWord` are `operator>>`, which
skips ends of lines and leaves the rest of the line; `Line` and `AfterLine` are
`std::getline`; `Discard` is `discard_remaining_input_line`. A word is known by its
length, the classes of its characters, and whether a directory has this name.
`LoadAddress` is `load_server_address`: `ToInt` is the conversion of the 64-bit value
to `int`, and `% (MaxPortNumber + 1)` the one to 16 bits. Whether there is a name to
enter is open (`known`), as is whether the server takes it.

### BackupPromise

Files are settled in order, once each; one is reported as sent only if the vault
holds a copy with the checksum of what was read; the call returns only when all
are settled. `FileUpload!KeepsPromise` is this specification under the refinement
mapping `vault <- stored`, `settled <- outcomes` with the checksum of the bytes read, and
`status` from `pc`.

## 3. What is checked

| run | instance | result |
|---|---|---|
| `chunking` | real constants, 583 sizes within 40 bytes of every boundary | `PacketNumbersFit`, `PacketsContiguous`, `CiphertextPadded` hold |
| `upload` | three names (one invalid), four contents of 1, 3, 12 and 13 bytes, 245 334 states | `TypeOK`, `SavedIsStored`, `RetryBudget`, `PairedReplies`, `NoSpuriousRetry`, `ReadAnswered`, `KeepsPromise`, `UploadAdvances`, `Terminates` hold |
| `session` | three runs of the program, two free names and a taken one, 386 540 states | `TypeOK`, `KeyAgreement`, `HalfIdentityOnlyByCrash`, `KeySavedBeforeTold`, `AnswerAwaited`, `HonouredIdentityKept`, `IdentityStored`, `RunAdvances`, `RunEnds` hold |
| `transport` | three requests out of five, two responses, cut at any byte, 196 838 states | `TypeOK`, `NoMutualWait`, `RequestsInOrder`, `ResponsesInOrder`, `ReadThrowsWhenCut`, `EveryReadEnds` hold |
| `input` | all texts of up to four lines out of eight kinds, 168 859 states | `TypeOK`, `SelectionAsTyped`, `DirectoryAsTyped`, `PortNotCut`, `PromptsEnd` hold |
| `upload_size` | one file | `EncryptedSizeIsTotal` is violated |
| `upload_missing` | one file | `MissingIsSkipped` is violated |
| `session_aes_key` | one run of the program | `AesKeyRemoved` is violated |
| `session_connect` | one run of the program | `FailedConnectHandled` is violated |
| `session_write` | one run of the program | `LostWriteThrows` is violated |
| `transport_size` | one request | `DeclaredSizeIsSerialized` is violated |
| `input_port` | ports that do not fit an `int` | `BadPortThrows` is violated |

The properties:

- `SavedIsStored`: a file reported as sent is on the server with the checksum of
  the bytes the last attempt read.
- `RetryBudget`: at most `CRC_TRIALS_COUNT` uploads of a file, and "failed after
  three attempts" only after three mismatches of this file.
- `PairedReplies`: while the server's responses are right, the response being
  read answers the request sent last, and none is left over.
- `NoSpuriousRetry`: editing a file during the backup never causes a mismatch.
- `ReadAnswered`: a read on a connection that is up finds a response, or a request is
  on its way that the server will answer, however many responses were wrong.
- `KeepsPromise`: refinement of `BackupPromise`.
- `UploadAdvances`: each step of the client leaves less to do (`Work`: files, uploads of
  the file, steps of the upload, packets), and nobody else's step changes what is left.
- `Terminates`: `backup_files` ends.
- `KeyAgreement`: uploads are encrypted with the AES key the server has for this
  user in this session.
- `HalfIdentityOnlyByCrash`: as long as no run was killed or hit by an I/O fault,
  every run leaves `me.info` removed, or complete with the key in `private.key`.
- `KeySavedBeforeTold`: the server never honours a public key whose private key
  is not in `me.info`.
- `HonouredIdentityKept`: `me.info` is removed only when the server would not
  honour it.
- `IdentityStored`: refinement of `KeyStore`, until a write is lost or a response is wrong.
- `AnswerAwaited`: while the client reads and the connection is up, its request or the
  answer is on the way, and nothing else.
- `RunAdvances`: each step of the program goes to a later `Stage`, or prompts for another
  name; only a new run goes back.
- `RunEnds`: every run of the program ends.
- `RequestsInOrder`: the server reads the requests that were sent, with their
  fields, in order and without a gap, wherever the connection is cut.
- `ResponsesInOrder`: the same for the responses that `receive_response` returns,
  until the server claims a wrong size.
- `NoMutualWait`: while a read waits for its bytes, the server has a request to serve,
  until it claims a wrong size.
- `ReadThrowsWhenCut`: until then, a read throws only because the connection was lost.
- `EveryReadEnds`: a read that was begun returns a response, or throws because the
  connection was lost, unless the server claimed a wrong size.
- `SelectionAsTyped`: a backup starts only after `done`, with some name before it
  and no `quit`, and with exactly the names typed, in their order.
- `DirectoryAsTyped`: the directory is the first answer to its prompts that will do, with
  no `quit` before it. Each line typed is one answer, its first word; only the rest of
  the line with the user name is an answer as well.
- `PortNotCut`: the conversion of the port to 16 bits changes nothing.
- `PromptsEnd`: the prompts end, whatever is typed.

### The seven violations

They are disagreements between the code and what its comments say, and are
listed under `findings`: `encrypted_file_size_` is the size of the last chunk and
not the total; a file that disappears after `fs::exists` ends the whole backup;
`disconnect` throwing in a catch block ends the program before `aes.key` is
removed; a refused connection leaves the socket open, so that the check in
`disconnect` does not prevent the very exception its comment speaks of; a write to
`me.info` or `private.key` that is lost does not throw, and the server is told a key
whose private half is gone; `DISCONNECT` declares eight bytes less than it sends
(nothing follows it, so that `RequestsInOrder` holds all the same); and a port of
2^32 + 80 is accepted as 80.

### Bounds

- Chunk sizes are scaled down in `MCFileUpload` (4 and 6 bytes, blocks of 2, a
  field of 8 values), so that contents take one packet, two small or three large
  ones; one is above the server's limit and one above `MaxFileSize`. That covers
  an upload whose first packet is its last, one with a packet in between, and a
  partial last packet; longer uploads are `PacketsContiguous`, proved for all
  sizes.
- `disk` holds nothing under an invalid name: the client never looks there.
- Two valid files are enough for anything to be carried from one to the next.
- Three damaged uploads exhaust the attempts of one file, or spread over two.
- `MaxFaults = 1` in `upload` is as far as `SavedIsStored` and `KeepsPromise` go: with two
  wrong responses they are violated, since a repeated verdict for the file before and a
  forged `ACK` together report a file as sent that is not there. No check of the client
  could detect this, for lack of request numbers. The theorems have the same limit, and
  no other.
- Three runs let a run inherit what a second one left after a first one
  registered; two prompts, one name taken by others and two that are free, one
  I/O fault, one wrong response, one forgotten account. The theorems have none of
  these bounds.
- `IdentityStored` looks at steps before the first lost write and the first wrong response
  (`Undisturbed`), for a reason: a lost write makes the server learn a key that is nowhere
  (`session_write`), and a forged `REGISTRATION_SUCCESS` gives the user an id that is not
  his. TLC finds it violated without this restriction.
- `transport`: names of one character, user ids of two bytes, keys of one; numbers
  with their real widths, among them a file size, a response's size and a checksum of
  more than one byte. Three requests let two packets and another request follow each
  other. The wrong sizes are 0, 10 and 13 (below and at the fixed part) and 20 (more
  than what follows). The host is little-endian: on another one the server
  external to this repository would read other numbers. TLC computes with 32 bits,
  so that larger numbers are left to the theorems.
- `input`: four lines are a name, a directory, a file and `done`, or a directory and
  three lines for files; `ann path` is a name followed by an answer to the next prompt, or
  a refused directory whose line is dropped; `wide` and `huge` are exactly as long as the
  field of a user name and of a file. An `int` has 32 values and a port 8 in these instances.

### Fairness

`FairSpec` is weak fairness of the client as a whole and of the server as a whole.
The client is one thread whose every action is code that runs on; the prompts
return because their user answers or closes the input. A server that is up serves
the requests it has received; without this the client may wait for ever, since a
read has no timeout. In `Transport` the same
holds of each read and of the server, but not of the caller, which need not send.
In `UserInput` the user types on or closes the input, and the server answers.
Nothing is assumed of the user's edits, the link, crashes,
or starting the program again. `RunEnds` bounds the user to `MaxPrompts` names:
with a user who always enters names that are taken, the loop in
`client_registration` is endless by design.

## 4. What is proved

All theorems hold for every value of the constants that satisfies the assumptions
`ChunkingAssumption`, `UploadAssumption`, `SessionAssumption`, `WireAssumption`,
`TransportAssumption` and `InputAssumption`, and for `MCChunkingProofs` also
`EdgesAssumption` (the sizes the walk starts from are sizes `encrypt_file` lets through).
TLC evaluates all of them. Every safety property of every passing run is a theorem.
What a theorem assumes beyond them is in its statement.

**Chunking.** `CiphertextIsBlocks`, `PacketsCoverFile`, `PacketsNumbered`: the
formulas that `MCChunking` checks, for every legal file size and all chunk sizes.
They rest on `CeilDiv`, what rounding up a quotient means. `MCChunkingProofs` states
the properties of the run themselves (`AlwaysPadded`, `PacketsMeet`, `NumbersNeverCut`):
a file that grows stays a legal one (`SizeLegal`).

**FileUpload.**
- `TypeCorrect`: `TypeOK` is inductive as it stands.
- `RetriesBounded`: `RetryBudget` is not inductive, since it says nothing of the
  counter that decides. `RetryInv` adds that `tries` and `crcFailures` go
  together, action by action.
- `RepliesPaired`: the inductive invariant is `InStep`: with right responses
  either the request of this step is still to be served and the client's inbox is
  empty, or its answer is the only thing in the inbox (`AwaitsVerdict`,
  `AwaitsAck`), and requests under way belong to the step the client is at
  (`InFlight`). `SendInv` adds that the number of packets fits its field, so that
  the server takes exactly the last packet for the last one; there the chunking
  theorem is used.
- `NoRetryWithoutDamage`: `NoSpuriousRetry`. The invariant
  `CleanInv` follows an attempt from the disk to the verdict: the packets under way
  and those the server has are those of the bytes in `fileData`, in order
  (`PacketsInOrder`); the verdict has their checksum and the size of the last one
  (`VerdictMatches`); so no mismatch is counted (`NoRetry`).
- `NoFalseSuccess` (`FileUploadRefinement`): `Spec => [](faults =< 1 => SavedIsStored)`.
  `InStep` does not survive a wrong response. `OneFaultInv` says what does: the client is
  still in step (`InSync`), or, after a response that came twice, it is one response
  behind for good (`OneBehind`): it reads the answer to its last request but one, and
  what it reads when it waits for an `ACK` is none. For a success to be told all the same,
  the verdict that was read and the `ACK` both have to be about the current file:
  `OursComesLast` says that what the server takes before `CRC_SUCCESS` is a copy of this
  file, and `ConfirmLast` that nothing follows a `CRC_SUCCESS`. TLC checked `OneFaultInv` on
  the instance of `upload` before it was proved, and finds it to fail where it should,
  with two wrong responses.
- `UploadKeepsPromise` (`FileUploadRefinement`): `Spec /\ [](faults =< 1) =>
  KeepsPromise`. Every step of the client is a step of `BackupPromise` or leaves its
  variables alone, one lemma for each group of actions; that a success is told only
  of a stored copy is `OneFaultInv` at the reading of the acknowledgement.
- `NoReadUnanswered`: `ReadAnswered`, without `InStep` and for any number of wrong
  responses. What the client has sent when it reads is answered (`RequestSent`), and the
  server takes what is answered off the queue only with an answer (`AnswerGiven`).
- `BackupAdvances`: `UploadAdvances`. `Work` is ordered lexicographically (`Less`); that it
  is made of natural numbers needs `RetryInv` and `SendInv` (`WorkTyped`), and every
  action of the client lessens it (`WorkStep`).
- `SizeIsTotalOfOnePacket`, `MissingSkippedUnlessEdited`: where the two comments hold that
  the runs `upload_size` and `upload_missing` find violated.
- `EveryFileTold`: what is left of the promise with any number of wrong responses: the
  user is told about every selected file, once and in order, before the call returns.

**ClientSession.** One inductive invariant, `SessionInv`, of seven parts proved
one after the other: `OneExchange` (one message under way, and only while the
client waits), `TrueAnswer` (what a response says is still so when it is read),
`IdentityInv` (the identity on the disk from step to step), `ToldInv` (the key on
the disk and the one the server has or is about to get), `SessionKeyInv` (the AES
key from the response to the file), `FreshKeyInv` (the pair that is about to be saved is
newer than every key in use) and `FreshUidInv` (the user id from the response to `me.info`
and back to the server: issued, and without a key). `AesKeyAgreed`, `IdentityWhole`,
`KeySavedFirst` follow from it, and `IdentityKept` is the action property that
follows from `TrueAnswer` and `OneExchange`. `SessionKeepsIdentity` is the refinement of `KeyStore`: `SaveInfo` is `Adopt`,
`AppendKey` is `Secure`, the server taking `PUBLIC_KEY_SEND` is `Tell`, the removal of `me.info`
is `Discard`, and every other step leaves `Kept` and `Told` alone. That `Adopt` takes a
user id without a key is `FreshUidInv`, that `Secure` takes a new key is `FreshKeyInv`, that
`Tell` tells the key that is kept is `ToldInv`, and that `Discard` loses nothing is
`TrueAnswer`.

`ReadsAnswered` is `AnswerAwaited`, inductive together with `OneExchange`. `RunsAdvance` is
`RunAdvances`, action by action. `KeyWrittenTwice`, `AesKeyRemovedOrLost` and
`RefusalTerminates` say of the three comments that the runs `session_write`,
`session_aes_key` and `session_connect` find violated how far they hold: as long as no
file fails (`KeyOnDisk`); unless the connection was refused, or lost under a socket in use,
or a file could not be removed; and never (`EndingInv`).

**Wire.** Round trips: `RequestRoundTrip` (little-endian host), `ResponseRoundTrip`
(either byte order), `NamesKept`, `HexRoundTrip`; `ChecksSuffice`: of the checks in
`deserialize`, the one of the payload size implies the others, for any bytes
`receive_response` can hand to it; `DeclaredSizes`: what every sender declares, and
by how much `DISCONNECT` is wrong; `LooseHex`: the check of a user id in `me.info`
lets texts pass that are none. They rest on what a slice of a concatenation is
(`SliceOfFirst`, `SliceOfSecond`), used for four and five fields in a row
(`FourFields`, `FiveFields`), and on the bytes of a number (`Numbers16`, `Numbers32`).

**Transport.** `TransportTypes`, `RequestsArriveInOrder`, `ResponsesArriveInOrder`,
for any requests, responses, wrong sizes and widths, on a little-endian host.
Neither direction's property is inductive: it says what was received, and nothing of
the bytes under way. The invariant adds them (`Stream`): they are a beginning of the
messages that are still to be taken, and all of these while the connection stands;
what follows the last one is shorter than a header, so that it is never taken for
a message (`InvServer`; it is the eight bytes of `DISCONNECT`). In the other
direction (`InvClient`) the header that was read ahead of its payload is part of the
stream. A stream is described by a function that gives the bytes after each message
(`Framed`), because the concatenation of all messages would be a recursive
definition. Four lemmas then suffice: what a message more, a message taken and a
cut do to a stream (`StreamPut`, `StreamTake`, `StreamCut`), and that the header of
a message tells its length (`SizeIsSeen`, `SizeIsKnown`).

`ReadsAreSupplied` is `NoMutualWait`. It is not inductive: `ResponseDue` is, which says
that while a read is under way a response was given and not returned yet, or the
last request is one with an answer and was not read. From the streams it follows that all
bytes of that response, or of the next request, are there (`StreamWhole`).
`ReadsThrowWhenCut` is `ReadThrowsWhenCut`: a header that was read announces a payload
(`HeaderIsTaken`), and header and payload together are a response that `deserialize` takes
(`PayloadIsAnswer`). `SizesDeclaredTillDisconnect` is where the comment of `payload_size_`
holds.

**UserInput.** `TypeCorrect`; its main part is that what the prompts have not read is
always the end of what was typed (`rest`), which needs the least element of a set of
positions, since `Line` and `Word` look for the next end of a line or word. `PortIsWhole`
is inductive with it. `DirectoryIsAsTyped` rests on `DirectoryInv`: what the prompts for
the name have read has no `quit` in it and ends with the name, and what those for the
directory have read are whole lines whose answers would not do; `WordPlace` and
`LinePlace` say where in the text a word is and a line ends. `SelectionIsAsTyped` rests on `SelectionInv`: while
the files are entered, `rest` begins where a line begins (`LineStarts`), and `selection`
is the names on the lines up to there, in their order (`SelectedUpTo`). `PromptsAdvance`:
every step of the prompts leaves less of the text, or as much and fewer prompts
(`PromptsLeft`). `BadPortRefusedInInt`: where the comment holds that `input_port` finds
violated.

**Only model-checked:** liveness (`Terminates`, `RunEnds`, `EveryReadEnds`,
`PromptsEnd`), which is out of the prover's reach, and the seven violations. Of each of
the four, what safety there is in it is proved: that every step goes forward in a
well-founded order (`BackupAdvances`, `RunsAdvance`, `PromptsAdvance`), and that
somebody can always go on, since no read waits for what will not come
(`NoReadUnanswered`, `ReadsAnswered`, `ReadsAreSupplied`). What is left to TLC is the step
from there to liveness: it takes ENABLED for the fairness, and induction over the order.
There is nothing to prove of `SavedIsStored` and `KeepsPromise` with two wrong responses or of
`IdentityStored` with a lost write: they do not hold then.

## 5. Not modelled

- The ciphers and encodings of Crypto++: a key pair is a number, a ciphertext is
  known by its length and its encryption. Base64 and the formats of keys are the
  library's.
- The parser of `server_config.json`: that the file is missing or is not what it
  should be is one exception in `ClientSession`.
- The trimming of lines and the joining of the lines of a key in `me.info`, and a
  write that is cut in the middle of a line: a lost write loses all of it.
- The text of prompts, messages and logs, `protocol_formatting.cpp`, and the progress
  output, including that `crc_error_` of a file that was given up suppresses it for
  the next file.
- Setters and getters that only tests use.
- Blanks inside a line of input other than as an end of a word, and the extraction of
  words into strings of unlimited length.

## 6. Plan

Done, in this order:

1. `Chunking`, `ChunkingProofs`.
2. `FileUpload` with `BackupPromise`; type, retry, pairing and success theorems.
3. `ClientSession`; session invariant.
4. `Wire`, `Transport` with `MessageChannel`; round trips, and both directions proved.
5. `UserInput`.
6. `NoSpuriousRetry` and, for right responses, `KeepsPromise` proved.
7. `UserInputProofs`, `MCChunkingProofs`.
8. `KeyStore`, refined by `ClientSession`: checked and proved.
9. `SavedIsStored` and `KeepsPromise` proved with one wrong response.
10. The safety part of every liveness property, checked and proved; the conditions under
    which the seven violated comments hold, proved.

Left:

- The partial outcomes of a lost write to `me.info` (a first line only, a cut key).
- One module for `FileUpload` on top of `Transport`, instead of the promise between
  them.

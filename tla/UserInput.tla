------------------------------ MODULE UserInput ------------------------------
(***************************************************************************)
(* What the client reads before it sends files: the port of                *)
(* server_config.json, the user name (registration_flow.cpp), and the      *)
(* directory and the files to back up (backup_selection.cpp). The prompts  *)
(* share one stream, std::cin, some reading it word by word and some line  *)
(* by line. The text typed is a sequence of words and ends of lines, and   *)
(* ends where the input is closed; blanks around words are left out.       *)
(***************************************************************************)
EXTENDS Integers, Sequences, FiniteSets

CONSTANTS
    Words, EOL,    \* what the text consists of
    quit, done,    \* input_keywords::CANCEL and FINISH_SELECTION
    LengthOf,      \* the length of each word
    CharsOf,       \* the classes of characters in each word
    Directories,   \* the words that name an existing directory
    MinUsernameLen, UsernameLen, DirectoryNameLen, FileNameLen,
    Ports,         \* the values "port" may have in the file, of 64 bits
    IntValues,     \* how many values an int has
    MaxPortNumber,
    Texts          \* what may be typed before the input is closed

Classes == {"plain", "slash", "other"} \* "plain": letters, digits, '.', '_', '-'

ASSUME InputAssumption ==
    /\ {quit, done} \subseteq Words /\ quit # done
    /\ EOL \notin Words
    /\ LengthOf \in [Words -> Nat \ {0}]
    /\ CharsOf \in [Words -> SUBSET Classes]
    /\ Directories \subseteq Words
    /\ {MinUsernameLen, UsernameLen, DirectoryNameLen, FileNameLen} \subseteq Nat
    /\ Ports \subseteq Int
    /\ {IntValues, MaxPortNumber} \subseteq Nat
    /\ Texts \subseteq Seq(Words \cup {EOL})
    /\ IntValues % 2 = 0 /\ MaxPortNumber < IntValues \div 2

VARIABLES
    pc,         \* where the program is
    configured, \* "port" in the file
    port,       \* the port to connect to
    known,      \* me.info exists: there is no name to enter
    text,       \* history: all that is typed before the input is closed
    rest,       \* what of it is unread
    username,   \* the name sent to the server
    directory,  \* the directory chosen
    selection,  \* file_names of prompt_files_to_backup
    chosenAt    \* history: what was unread when the directory was chosen

vars == <<pc, configured, port, known, text, rest, username, directory, selection, chosenAt>>

None == <<>>

Init ==
    /\ pc = "config"
    /\ text \in Texts /\ rest = text
    /\ configured \in Ports /\ port = 0
    /\ known \in BOOLEAN
    /\ username = None /\ directory = None /\ selection = <<>> /\ chosenAt = <<>>

-----------------------------------------------------------------------------
(* input_validation.cpp *)

\* matches_validation_rules
Matches(w, min, max, pattern) ==
    LengthOf[w] >= min /\ LengthOf[w] < max /\ CharsOf[w] \subseteq pattern

ValidUsername(w) == Matches(w, MinUsernameLen, UsernameLen, {"plain"})
ValidDirName(w)  == Matches(w, 1, DirectoryNameLen, {"plain", "slash"})

\* A line of several words has a blank in it.
ValidFilename(line) == Len(line) = 1 /\ Matches(line[1], 1, FileNameLen, {"plain"})

-----------------------------------------------------------------------------
(* load_server_address *)

\* static_cast<int> of an int64_t
ToInt(v) == ((v + IntValues \div 2) % IntValues) - IntValues \div 2

\* fault variant: only negative ports are refused
PortInRange_NoMaximum(p) == p >= 0

PortInRange(p) == p >= 0 /\ p =< MaxPortNumber

LoadAddress ==
    /\ pc = "config"
    /\ IF PortInRange(ToInt(configured))
       THEN /\ port' = ToInt(configured) % (MaxPortNumber + 1) \* static_cast<uint16_t>
            /\ pc' = IF known THEN "directory" ELSE "username"
       ELSE pc' = "threw" /\ UNCHANGED port
    /\ UNCHANGED <<configured, known, text, rest, username, directory, selection, chosenAt>>

-----------------------------------------------------------------------------
(* std::cin *)

\* operator>>: the next word, on this line or on a later one
HasWord == \E i \in DOMAIN rest : rest[i] # EOL
WordAt  == CHOOSE i \in DOMAIN rest :
               rest[i] # EOL /\ \A j \in 1 .. (i - 1) : rest[j] = EOL
Word      == rest[WordAt]
AfterWord == SubSeq(rest, WordAt + 1, Len(rest))

\* How many words there are before the end of the line, or of the input.
LineLen(s) == CHOOSE n \in 0 .. Len(s) :
                  /\ n < Len(s) => s[n + 1] = EOL
                  /\ \A j \in 1 .. n : s[j] # EOL
Line(s)      == SubSeq(s, 1, LineLen(s))
AfterLine(s) == SubSeq(s, LineLen(s) + 2, Len(s))

\* fault variant: the rest of the line stays in the stream
Discard_Nothing(s) == s

\* discard_remaining_input_line
Discard(s) == AfterLine(s)

Stop(where) ==
    /\ pc' = where
    /\ UNCHANGED <<configured, port, known, text, username, directory, selection, chosenAt>>

-----------------------------------------------------------------------------
(* prompt_valid_username and the loop of client_registration *)

UsernameCancelled ==
    /\ pc = "username"
    /\ \/ ~HasWord /\ rest' = <<>>
       \/ HasWord /\ Word = quit /\ rest' = AfterWord
    /\ Stop("cancelled")

UsernameRefused ==
    /\ pc = "username" /\ HasWord /\ Word # quit /\ ~ValidUsername(Word)
    /\ rest' = AfterWord
    /\ Stop("username")

UsernameEntered ==
    /\ pc = "username" /\ HasWord /\ Word # quit /\ ValidUsername(Word)
    /\ username' = <<Word>>
    /\ rest' = AfterWord
    /\ pc' = "registering"
    /\ UNCHANGED <<configured, port, known, text, directory, selection, chosenAt>>

\* The server answers USERNAME_TAKEN, or REGISTRATION_SUCCESS.
ServerAnswers ==
    /\ pc = "registering"
    /\ \E where \in {"username", "directory"} : Stop(where)
    /\ UNCHANGED rest

-----------------------------------------------------------------------------
(* prompt_backup_directory *)

DirectoryCancelled ==
    /\ pc = "directory"
    /\ \/ ~HasWord /\ rest' = <<>>
       \/ HasWord /\ Word = quit /\ rest' = Discard(AfterWord)
    /\ Stop("cancelled")

Usable(w) == ValidDirName(w) /\ w \in Directories

\* fault variant: only an answer that will do takes its line along
DirectoryRefused_KeepsLine ==
    /\ pc = "directory" /\ HasWord /\ Word # quit /\ ~Usable(Word)
    /\ rest' = AfterWord
    /\ Stop("directory")

DirectoryRefused ==
    /\ pc = "directory" /\ HasWord /\ Word # quit /\ ~Usable(Word)
    /\ rest' = Discard(AfterWord)
    /\ Stop("directory")

DirectoryChosen ==
    /\ pc = "directory" /\ HasWord /\ Word # quit /\ Usable(Word)
    /\ directory' = <<Word>>
    /\ rest' = Discard(AfterWord)
    /\ chosenAt' = AfterWord
    /\ pc' = "files"
    /\ UNCHANGED <<configured, port, known, text, username, selection>>

-----------------------------------------------------------------------------
(* prompt_files_to_backup *)

\* fault variant: the end of the input is looked for only when there are names
InputClosed_WithNames == rest = <<>> /\ selection # <<>>

\* !std::cin after the loop over the lines
InputClosed == rest = <<>>

\* fault variant: an empty line is a name as well
IsName_Blank(line) == line \notin {<<quit>>, <<done>>}

IsName(line) == line \notin {<<>>, <<quit>>, <<done>>}

\* After the last line of a prompt: return the names, or prompt again.
Finish ==
    /\ pc' = IF selection = <<>> THEN "files" ELSE "backup"
    /\ UNCHANGED <<configured, port, known, text, username, directory, selection, chosenAt>>

LinesEnd ==
    /\ pc = "files" /\ rest = <<>>
    /\ IF InputClosed THEN Stop("cancelled") ELSE Finish
    /\ UNCHANGED rest

ReadLine ==
    /\ pc = "files" /\ rest # <<>>
    /\ rest' = AfterLine(rest)
    /\ CASE Line(rest) = <<quit>> -> Stop("cancelled")
         [] Line(rest) = <<done>> -> Finish
         [] OTHER ->
              /\ selection' = IF IsName(Line(rest)) THEN Append(selection, Line(rest))
                                                   ELSE selection
              /\ UNCHANGED <<pc, configured, port, known, text, username, directory, chosenAt>>

-----------------------------------------------------------------------------
Over == pc \in {"backup", "cancelled", "threw"} /\ UNCHANGED vars

Step ==
    \/ LoadAddress
    \/ UsernameCancelled \/ UsernameRefused \/ UsernameEntered \/ ServerAnswers
    \/ DirectoryCancelled \/ DirectoryRefused \/ DirectoryChosen
    \/ LinesEnd \/ ReadLine

Next == Step \/ Over

Spec == Init /\ [][Next]_vars

\* The user types or closes the input, and the server answers.
FairSpec == Spec /\ WF_vars(Step)

-----------------------------------------------------------------------------
(* Properties *)

\* Every variable has its type; what is unread is the end of what was typed, and a
\* name of a file is never empty nor a keyword.
TypeOK ==
    /\ pc \in {"config", "username", "registering", "directory", "files",
               "backup", "cancelled", "threw"}
    /\ configured \in Ports /\ port \in 0 .. MaxPortNumber /\ known \in BOOLEAN
    /\ text \in Seq(Words \cup {EOL})
    /\ \E n \in 0 .. Len(text) : rest = SubSeq(text, n + 1, Len(text))
    /\ username \in {None} \cup {<<w>> : w \in Words}
    /\ directory \in {None} \cup {<<w>> : w \in Directories}
    /\ selection \in Seq(Seq(Words) \ {<<>>, <<quit>>, <<done>>})
    /\ \E n \in 0 .. Len(text) : chosenAt = SubSeq(text, n + 1, Len(text))

\* Where a line begins after the one with the directory, and the line; the last one
\* may lack its end.
LineStarts == {i \in DOMAIN chosenAt : i > 1 /\ chosenAt[i - 1] = EOL}
LineAt(i)  == Line(SubSeq(chosenAt, i, Len(chosenAt)))

\* The lines before position p that are names of files.
NamesBefore(p) == {i \in LineStarts : i < p /\ IsName(LineAt(i))}

\* The names selected are those before p, each at its place among them; nobody has
\* typed `quit' before p, nor `done' after a name.
SelectedUpTo(p) ==
    /\ Len(selection) = Cardinality(NamesBefore(p))
    /\ \A i \in NamesBefore(p) : selection[Cardinality(NamesBefore(i)) + 1] = LineAt(i)
    /\ \A i \in LineStarts :
           i < p => /\ LineAt(i) # <<quit>>
                    /\ LineAt(i) = <<done>> => NamesBefore(i) = {}

\* A backup is started with the names the user asked for: of the lines after the
\* one with the directory, up to the first `done' that has a name before it, the
\* names, in their order. There is such a line and no `quit' before it: a user who
\* cancels, or closes the input after some names, starts no backup.
SelectionAsTyped ==
    pc = "backup" =>
        \E last \in LineStarts :
            /\ LineAt(last) = <<done>>
            /\ NamesBefore(last) # {}
            /\ SelectedUpTo(last)

\* How much of the text was read, and where in it the word of the directory is.
Read        == Len(text) - Len(rest)
DirectoryAt == Len(text) - Len(chosenAt)

\* The words that answer the prompts for the directory when the first of them begins
\* after position u: one a line, the first, and what is left of the line of u.
Answers(u) == {i \in DOMAIN text : i > u /\ text[i] # EOL /\ (i = u + 1 \/ text[i - 1] = EOL)}

\* Of the answers up to p, none was `quit' and none would do.
Refused(u, p) == \A i \in Answers(u) : i =< p => text[i] # quit /\ ~Usable(text[i])

\* The last word a prompt for the name has read is the name, and it was never `quit'.
NamedAt(u) == username = <<text[u]>> /\ \A i \in 1 .. u : text[i] # quit

\* Where the prompts for the directory may have begun.
Began(u) == IF known THEN u = 0 /\ username = None ELSE u \in DOMAIN text /\ NamedAt(u)

\* The directory is the first answer that will do, with no `quit' before it. A second
\* word on a line is never one, but for the word after the name: that prompt keeps
\* the rest of its line for the next prompt, those for the directory drop it.
DirectoryAsTyped ==
    directory # None =>
        \E u \in 0 .. Len(text) :
            /\ Began(u)
            /\ DirectoryAt \in Answers(u) /\ directory = <<text[DirectoryAt]>>
            /\ Usable(text[DirectoryAt]) /\ Refused(u, DirectoryAt - 1)

\* The port the client connects to is the int that was looked at: the second
\* conversion, to 16 bits, changes nothing.
PortNotCut ==
    pc \notin {"config", "threw"} => port = ToInt(configured)

\* The prompts come to an end, with a backup or without one, whatever is typed.
PromptsEnd == <>(pc \in {"backup", "cancelled", "threw"})

\* load_server_address "throws std::out_of_range if the configured port is outside
\* the valid range".
BadPortThrows ==
    pc \notin {"config", "threw"} => configured \in 0 .. MaxPortNumber

-----------------------------------------------------------------------------
(* The inductive invariant of the selection *)

\* While files are asked for, what is unread begins with a line, and what is
\* selected are the names before it.
SelectionInv ==
    /\ pc \in {"config", "username", "registering", "directory"} => selection = <<>>
    /\ pc = "files" =>
           \E p \in 2 .. Len(chosenAt) + 2 :
               /\ p \in DOMAIN chosenAt => p \in LineStarts
               /\ rest = SubSeq(chosenAt, p, Len(chosenAt))
               /\ SelectedUpTo(p)

(* The inductive invariant of the directory *)

\* The prompts for the name have read no `quit', and the last word they read is the
\* name; those for the directory have read whole lines, and none of the answers would do.
DirectoryInv ==
    /\ pc \in {"config", "username", "registering", "directory"} => directory = None
    /\ pc = "config" => Read = 0 /\ username = None
    /\ pc \in {"username", "registering"} => ~known /\ \A i \in 1 .. Read : text[i] # quit
    /\ pc = "registering" => Read \in DOMAIN text /\ NamedAt(Read)
    /\ pc = "directory" =>
           \E u \in 0 .. Read :
               /\ Began(u) /\ Refused(u, Read)
               /\ Read \in {u, Len(text)} \/ text[Read] = EOL
=============================================================================

--------------------------- MODULE BackupPromise ---------------------------
(***************************************************************************)
(* What FileAuthentication::backup_files promises its caller, with nothing *)
(* of the protocol in it: the selected files are settled one by one, in    *)
(* the order they were selected, each exactly once; a file is reported as  *)
(* sent only if the server had already confirmed a copy with the checksum  *)
(* of the bytes the client read; the call returns normally only when every *)
(* file is settled, and otherwise leaves with an exception.                *)
(* FileUpload is the detailed specification that implements this one.      *)
(***************************************************************************)
EXTENDS Integers, Sequences

CONSTANTS
    Files,   \* the selected file names, a sequence
    Sums     \* the checksums

VARIABLES
    vault,    \* the copies the server confirmed, a set of [name, sum]
    settled,  \* how each file ended, with the checksum of what was read of it
    status    \* "running", "returned" or "threw"

pvars == <<vault, settled, status>>

Results == {"skipped", "too_large", "rejected", "saved", "gave_up"}

Copy == [name : {Files[i] : i \in DOMAIN Files}, sum : Sums]

Init ==
    /\ vault = {}
    /\ settled = <<>>
    /\ status = "running"

\* The file being worked on: the first one not settled.
Pending == Len(settled) < Len(Files)

Current == Files[Len(settled) + 1]

\* The server confirms a copy of the file being worked on. It may do so after
\* the client left: the confirmation request can still be on its way.
Confirm(c) ==
    /\ Pending
    /\ c.name = Current
    /\ vault' = vault \cup {c}
    /\ UNCHANGED <<settled, status>>

\* The user is told how the file being worked on ended; `sum' is the checksum
\* of the bytes the client had read of it.
Settle(result, sum) ==
    /\ status = "running"
    /\ Pending
    /\ result = "saved" => [name |-> Current, sum |-> sum] \in vault
    /\ settled' = Append(settled, [name |-> Current, result |-> result, sum |-> sum])
    /\ UNCHANGED <<vault, status>>

Return ==
    /\ status = "running"
    /\ ~Pending
    /\ status' = "returned"
    /\ UNCHANGED <<vault, settled>>

Throw ==
    /\ status = "running"
    /\ status' = "threw"
    /\ UNCHANGED <<vault, settled>>

Next ==
    \/ \E c \in Copy : Confirm(c)
    \/ \E result \in Results, sum \in Sums : Settle(result, sum)
    \/ Return
    \/ Throw

Spec == Init /\ [][Next]_pvars
=============================================================================

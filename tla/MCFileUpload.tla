---------------------------- MODULE MCFileUpload ----------------------------
(***************************************************************************)
(* Small instances of FileUpload. The chunk sizes are scaled down so that  *)
(* a file of 1 byte takes one packet and one of 3 bytes two; one of 12     *)
(* bytes takes three larger ones and is above the server's limit; 13 bytes *)
(* are above MaxFileSize. The checksum is the content itself, so that no   *)
(* two contents collide.                                                   *)
(***************************************************************************)
EXTENDS FileUpload, TLC

CONSTANTS
    f, g, slashed,        \* file names; slashed has a "/" in it, and is not valid
    one, two, wide, big,  \* file contents
    alice, bob            \* user ids

MCSizeOf == one :> 1 @@ two :> 3 @@ wide :> 12 @@ big :> 13
MCCrc    == [d \in Contents |-> d]
MCSizes  == [d \in Contents |-> MCSizeOf[d]]
MCSums   == Contents \cup {BadSum}

BadNameFirst == <<slashed, f, g>>
OneFile      == <<f>>
=============================================================================

--------------------------- MODULE MCClientSession ---------------------------
(***************************************************************************)
(* Small instances of ClientSession: two user names are free and one is    *)
(* taken.                                                                  *)
(***************************************************************************)
EXTENDS ClientSession

CONSTANTS ann, amy, tom \* user names
=============================================================================

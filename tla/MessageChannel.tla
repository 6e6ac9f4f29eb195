--------------------------- MODULE MessageChannel ---------------------------
(***************************************************************************)
(* What the transport promises in one direction, with no bytes in it: the  *)
(* receiver takes the sender's messages as they were meant, each once and  *)
(* in order, or the channel fails and nothing more is taken. A sender that *)
(* does not keep to the format has no promise to rely on.                  *)
(* Transport implements it twice, once in each direction.                  *)
(***************************************************************************)
EXTENDS Integers, Sequences

CONSTANT Messages

VARIABLES
    offered,  \* the messages sent
    taken,    \* the messages received
    misframed \* the sender did not keep to the format

chvars == <<offered, taken, misframed>>

Init == offered = <<>> /\ taken = <<>> /\ misframed = FALSE

Offer(m) ==
    /\ ~misframed
    /\ offered' = Append(offered, m)
    /\ UNCHANGED <<taken, misframed>>

Take ==
    /\ ~misframed
    /\ Len(taken) < Len(offered)
    /\ taken' = Append(taken, offered[Len(taken) + 1])
    /\ UNCHANGED <<offered, misframed>>

Misframe == misframed'

Next == (\E m \in Messages : Offer(m)) \/ Take \/ Misframe

Spec == Init /\ [][Next]_chvars
=============================================================================

------------------------------ MODULE KeyStore ------------------------------
(***************************************************************************)
(* What becomes of the identity of one installation, with no requests,     *)
(* files or steps in it: a user id that the server issued is taken over    *)
(* only when there is no identity; it gets a private key that no account   *)
(* has yet; the server is told the public half only of a key that is kept, *)
(* once; and an identity is given up only when the server would not honour *)
(* it. ClientSession is the detailed specification that implements this    *)
(* one, with crashes between any two of its steps.                         *)
(***************************************************************************)
EXTENDS Integers, Sequences

VARIABLES
    kept, \* what of an identity there is on the disk: its user id and private key
    told  \* by user id issued, the public key the server has

ksvars == <<kept, told>>

Nothing == 0
Lost    == -1 \* the server does not know the user any more

Identity(u, k) == [exists |-> TRUE, uid |-> u, key |-> k]
NoIdentity     == [exists |-> FALSE, uid |-> Nothing, key |-> Nothing]

Honours(u) == u \in DOMAIN told /\ told[u] \notin {Nothing, Lost}

Init == kept = NoIdentity /\ told = <<>>

\* The server issues a user id.
Issue ==
    /\ told' = Append(told, Nothing)
    /\ UNCHANGED kept

\* A user id that has no key is taken over; of an identity that is cut off at its
\* first step nothing is known.
Adopt(u) ==
    /\ ~kept.exists /\ ~Honours(u)
    /\ kept' \in {Identity(u, Nothing), Identity(Nothing, Nothing)}
    /\ UNCHANGED told

\* It gets a key of its own.
Secure ==
    /\ kept.uid # Nothing /\ kept.key = Nothing
    /\ kept'.key \notin {Nothing} \cup {told[u] : u \in DOMAIN told}
    /\ kept' = [kept EXCEPT !.key = kept'.key]
    /\ UNCHANGED told

\* The server learns the key that is kept.
Tell ==
    /\ kept.key # Nothing
    /\ kept.uid \in DOMAIN told /\ told[kept.uid] = Nothing
    /\ told' = [told EXCEPT ![kept.uid] = kept.key]
    /\ UNCHANGED kept

\* The server loses an account.
Lose(u) ==
    /\ told[u] # Lost
    /\ told' = [told EXCEPT ![u] = Lost]
    /\ UNCHANGED kept

Discard ==
    /\ kept.exists /\ ~Honours(kept.uid)
    /\ kept' = NoIdentity
    /\ UNCHANGED told

Next ==
    \/ Issue \/ Secure \/ Tell \/ Discard
    \/ \E u \in DOMAIN told : Adopt(u) \/ Lose(u)

Spec == Init /\ [][Next]_ksvars
=============================================================================

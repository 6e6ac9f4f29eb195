----------------------------- MODULE MCUserInput -----------------------------
(***************************************************************************)
(* UserInput with the lengths of the code. `ann' is good for a user and a  *)
(* file, `path' for a directory; `wide' is one character too long for a    *)
(* user, and `huge' for a file. An int has 32 values and a port 8.         *)
(***************************************************************************)
EXTENDS UserInput, TLC

CONSTANTS ann, path, wide, huge

MCLength == (ann :> 5) @@ (path :> 9) @@ (wide :> 64) @@ (huge :> 255) @@ (quit :> 4) @@ (done :> 4)
MCChars  == [w \in Words |-> IF w = path THEN {"plain", "slash"} ELSE {"plain"}]

\* bound: lines typed
MaxLines == 4

MCLines == {<<>>, <<ann>>, <<path>>, <<ann, path>>, <<path, wide>>, <<huge>>, <<quit>>, <<done>>}

\* Up to MaxLines lines, the last one with its end or without.
MCTexts ==
    LET whole[n \in 0 .. MaxLines] ==
            IF n = 0 THEN {<<>>}
            ELSE LET shorter == whole[n - 1]
                 IN  {<<>>} \cup {s \o line \o <<EOL>> : s \in shorter, line \in MCLines}
        texts == whole[MaxLines]
    IN  texts \cup {SubSeq(s, 1, Len(s) - 1) : s \in texts \ {<<>>}}

OneLine == {Append(line, EOL) : line \in MCLines}

MCPorts   == {5, 9}
WidePorts == {-1, 5, 32 + 5} \* the last one does not fit an int
=============================================================================

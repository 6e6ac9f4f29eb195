----------------------------- MODULE MCTransport -----------------------------
(***************************************************************************)
(* Transport with fields of one or two bytes, names of one byte, and a     *)
(* little-endian host. Numbers stay below 2^31, which is what TLC computes *)
(* with; a size of 12 read the wrong way round is 201326592.               *)
(***************************************************************************)
EXTENDS Transport

ann == <<97>>
me  == <<7, 9>>
id  == ToHex(me)

MCRequests ==
    { Registration(ann),
      PublicKeySend(id, ann, <<5>>),
      CreateBackup(id, ann, 300, 1, 2, <<3, 4>>),
      CreateBackup(id, ann, 300, 2, 2, <<6>>),
      CrcStatus(Codes.CRC_ERROR, id, ann) }

Response(code, key, name, size, sum) ==
    [ok |-> TRUE, version |-> 3, code |-> code, uid |-> me, aesKey |-> key, size |-> size,
     fileName |-> name, checksum |-> sum]

MCAnswers ==
    { Response(210, <<8, 0, 1>>, <<0, 0>>, 0, 0),
      Response(220, <<>>, <<97, 0>>, 259, 513) }

\* nothing, less than the fixed part, less and more than what follows
MCWrongSizes == {0, 10, 13, 20}
=============================================================================

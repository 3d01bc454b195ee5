---------------------------- MODULE MCKitPacket ----------------------------
(* Small commands and answers for KitPacket. *)
EXTENDS KitPacket

MCBytes == {0, 10, 173}
MCLoads == UNION {[1..n -> MCBytes] : n \in 0..2}

(* Every kind of command, and one that is too long for the buffer. *)
MCCommands ==
    [kind : {"ecc", "board"}, load : MCLoads \union {<<0, 10, 173>>},
     closed : BOOLEAN, upper : BOOLEAN]

MCAnswers == UNION {[1..n -> MCBytes] : n \in 1..3}
============================================================================

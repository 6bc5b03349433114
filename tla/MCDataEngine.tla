---------------------------- MODULE MCDataEngine ----------------------------
(* Three reports for one server, one of which can never be packed.         *)
EXTENDS DataEngine

MCSeqNr == [r \in Reports |-> IF r = "r1" THEN 1 ELSE 2]
MCFormat == [r \in Reports |-> CASE r = "r1" -> "unknown" [] r = "r2" -> "packable"
                                 [] OTHER -> "capability"]
=============================================================================

--------------------------- MODULE MCLedgerUpgrade ---------------------------
(***************************************************************************)
(* Two programs with different environments.                               *)
(***************************************************************************)
EXTENDS LedgerUpgrade

MCPrograms      == {"server", "cli"}
MCEnvProfile    == [p \in MCPrograms |-> IF p = "server" THEN Busy ELSE Standard]
=============================================================================

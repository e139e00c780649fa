------------------------------ MODULE MCStartup ------------------------------
\* A server and a CLI session with different environments, over one midnight.
EXTENDS Startup

MCPrograms   == {"server", "cli"}
MCEnvProfile == [p \in MCPrograms |-> IF p = "server" THEN Busy ELSE Standard]
MCNetwork    == [p \in MCPrograms |-> IF p = "server" THEN "kerala-v1" ELSE "legacy"]
=============================================================================

--------------------------- MODULE MCServerProcess ---------------------------
(* A small instance of ServerProcess: more keys than the usage reporter    *)
(* has room for, a request that may outlive the server, and the process    *)
(* with all its parts or with an external database and no upgrade.         *)
EXTENDS ServerProcess

CONSTANTS k1, k2, k3, h1

MCConfigurations == {{}, {"database", "upgrade"}}
=============================================================================

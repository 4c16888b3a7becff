--------------------------- MODULE MCServerProcess ---------------------------
(* ServerProcess for TLC: three clients of a server with a slot for the      *)
(* listening task and one for a connection.                                  *)
EXTENDS ServerProcess, TLC

CONSTANTS c1, c2, c3

lo == [usable |-> FALSE, address |-> TRUE]
eth == [usable |-> TRUE, address |-> TRUE]
down == [usable |-> TRUE, address |-> FALSE]

MCConnections == {c1, c2, c3}

\* No interface at all, the loopback one alone and twice, and usable ones with
\* and without an address.
MCInterfaceLists == {<<>>, <<lo>>, <<lo, lo>>, <<lo, eth>>, <<down, eth>>}
=============================================================================

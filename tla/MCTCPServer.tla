---------------------------- MODULE MCTCPServer ----------------------------
(***************************************************************************)
(* TCPServer for TLC: the requests clients may send.                       *)
(***************************************************************************)
EXTENDS TCPServer, TLC

CONSTANTS k1, v1

Plain    == <<"text", "eol", "eol">>
WithZero == <<"text", "nul", "eol", "eol">>

Command(type, pieces) ==
    [type |-> type, key |-> k1, value |-> v1, pieces |-> pieces]

AllCommands ==
    {Command(t, Plain) : t \in {"ADD", "UPDATE", "GET", "DELETE", "INVALID"}}
        \cup {Command("GET", WithZero)}
AddAndGet   == {Command("ADD", Plain), Command("GET", Plain)}
GetOnly     == {Command("GET", Plain)}

Symmetry == Permutations(Clients)
=============================================================================

---------------------------- MODULE MCDHCPServer ----------------------------
\* Small instances of DHCPServer.  The pool 127..129 keeps the width of the
\* bitmap words (32) and contains 128, the slot read with an undefined shift.
EXTENDS DHCPServer, TLC

MCPools == {<<127, 128>>, <<128, 129>>}
MCPoolsOne == {<<127, 128>>}
MCLocals == {1}
MCRequests == Slots \cup {Foreign}
Stations == Permutations(Clients)
=============================================================================

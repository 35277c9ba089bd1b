--------------------------- MODULE MCPinnedConnect ---------------------------
(***************************************************************************)
(* PinnedConnect with two permitted addresses, one of them under two       *)
(* scopes, one denied address, and an unreadable row.                      *)
(***************************************************************************)
EXTENDS PinnedConnect

CONSTANTS p1, p2, d1

MCIp == {p1, p2, d1}
MCPermitted == {p1, p2}
=============================================================================

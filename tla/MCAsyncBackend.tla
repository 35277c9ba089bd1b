---------------------------- MODULE MCAsyncBackend ----------------------------
(***************************************************************************)
(* AsyncBackend with two requests sharing one slot.                        *)
(***************************************************************************)
EXTENDS AsyncBackend

CONSTANTS r1, r2, p1, p2, d1

MCTask == {r1, r2}
MCIp == {p1, p2, d1}
MCPermitted == {p1, p2}
=============================================================================

---------------------------- MODULE MCUdpResolver ----------------------------
(***************************************************************************)
(* UdpResolver asking two servers twice each for two record types, with a  *)
(* timeout that ends before the schedule does unless servers fail at once. *)
(***************************************************************************)
EXTENDS UdpResolver

CONSTANTS aaaa, a

MCFamilies == <<aaaa, a>>
=============================================================================

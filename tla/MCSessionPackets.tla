-------------------------- MODULE MCSessionPackets --------------------------
(***************************************************************************)
(* Seven of the eight kinds: "unsafe" differs from "logout" only in what   *)
(* "safe" does as well.                                                    *)
(***************************************************************************)
EXTENDS SessionPackets

MCKinds == DOMAIN Status \ {"unsafe"}
=============================================================================

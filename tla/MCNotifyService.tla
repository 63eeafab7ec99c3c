--------------------------- MODULE MCNotifyService ---------------------------
(***************************************************************************)
(* NotifyService for TLC: the VPP plugin and the Linux plugin push, the    *)
(* client "vpp" asks for the notifications of the first, "all" for all.    *)
(***************************************************************************)
EXTENDS NotifyService

MCFilters == [c \in Clients |-> IF c = "vpp" THEN {"VppNotification"} ELSE {}]
=============================================================================

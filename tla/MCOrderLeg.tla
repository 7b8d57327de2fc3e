----------------------------- MODULE MCOrderLeg -----------------------------
(* Small instances of OrderLeg for TLC.                                     *)
EXTENDS OrderLeg

OpenAndClose == {"open", "close"}
PartialOnly == {"partial"}
BothReports == {"open", "partial"}
=============================================================================

-------------------------- MODULE MCLegacySession ---------------------------
(***************************************************************************)
(* A small instance of LegacySession: one connection with traffic, and one *)
(* that comes and goes.                                                    *)
(***************************************************************************)
EXTENDS LegacySession

CONSTANTS k1, k2

OneBusy ==
  [c \in Conn |->
     IF c = k1 THEN <<{"handled", "oversize"}, {"raw", "unhandled", "unknownSession"}, FrameKind>>
               ELSE <<>>]
=============================================================================

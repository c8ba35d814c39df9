---------------------------- MODULE MCEventFeed -----------------------------
(* Instance of EventFeed for TLC.                                          *)
EXTENDS EventFeed
=============================================================================

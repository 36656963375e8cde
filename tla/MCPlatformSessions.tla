-------------------------- MODULE MCPlatformSessions --------------------------
(* PlatformSessions on a small instance: two sessions, so that starts, stops *)
(* and the shutdown of one overlap with those of another, and two stop       *)
(* requests, so that a session is stopped twice at once.                     *)
EXTENDS PlatformSessions
=============================================================================

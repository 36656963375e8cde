---------------------------- MODULE MCFrontendPage ----------------------------
(* FrontendPage on a small instance: two clicks on start, two calls and one  *)
(* poll in flight.                                                           *)
EXTENDS FrontendPage
=============================================================================

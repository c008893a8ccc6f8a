---------------------------- MODULE MCHttpServer ----------------------------
(***************************************************************************)
(* An instance of HttpServer for TLC: two application requests and a       *)
(* probe, whose handler may hang.                                          *)
(***************************************************************************)
EXTENDS HttpServer

CONSTANTS r1, r2, h
=============================================================================

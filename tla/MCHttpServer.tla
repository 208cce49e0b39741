---------------------------- MODULE MCHttpServer -----------------------------
(* The instance of HttpServer for TLC. *)
EXTENDS HttpServer

CONSTANTS r1, r2, r3
=============================================================================

---------------------------- MODULE MCHttpServer ----------------------------
(***************************************************************************)
(* HttpServer with streams of up to 13 symbols: two requests, one of them    *)
(* with a header, or one with three.                                         *)
(***************************************************************************)
EXTENDS HttpServer

=============================================================================

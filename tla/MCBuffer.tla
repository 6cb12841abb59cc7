------------------------------ MODULE MCBuffer ------------------------------
(***************************************************************************)
(* Buffer with kCheapPrepend = 1, kInitialSize = 2 and an extrabuf of 2: the  *)
(* same order of sizes as 8, 1024 and 65536, small enough that chunks of up  *)
(* to 3 bytes grow the vector, fill it exactly, move it down and spill into   *)
(* extrabuf.  Two values of a byte tell an order from another.                *)
(***************************************************************************)
EXTENDS Buffer

MCChunks == {<<>>, <<0>>, <<1>>, <<0, 1>>, <<0, 1, 1>>}

=============================================================================

-------------------------- MODULE MCStaticFileServer --------------------------
(***************************************************************************)
(* StaticFileServer with paths of up to four of the characters / . % + space *)
(* and a, which is a hexadecimal digit too, in every way of escaping them.   *)
(***************************************************************************)
EXTENDS StaticFileServer, TLC

MCChars == {47, 46, 37, 43, 32, 97}
MCFiles == {Index, <<47, 97>>, <<47, 97, 46, 97>>, <<47, 37, 97>>, <<47, 97, 32>>}
MCDirectories == {<<47, 46>>, <<47, 47>>}
MCTypes == <<97>> :> "type of a"

=============================================================================

------------------------- MODULE MCDistributedWork -------------------------
(***************************************************************************)
(* An instance of DistributedWork for TLC: an empty text, one with fewer   *)
(* bytes than instances, and one with an empty line, a line that a range   *)
(* cuts and a last line without its newline.                               *)
(***************************************************************************)
EXTENDS DistributedWork

MCInputs == {<<>>, <<"x", "newline">>, <<"newline", "x", "newline", "x", "x">>}

MCPaths ==
  {[input |-> "gs", output |-> "gs"], [input |-> "local", output |-> "local"]}
=============================================================================

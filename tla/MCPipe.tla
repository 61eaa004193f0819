------------------------------- MODULE MCPipe -------------------------------
(* Strings to write, and threads that are interchangeable.                 *)
EXTENDS Pipe

Strings == {<<0>>, <<0, 1, 1>>}

Symmetry == Permutations(Writer) \cup Permutations(Reader)
=============================================================================

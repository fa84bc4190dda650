--------------------------- MODULE MCSpiffsFiles ----------------------------
(* Two names, two descriptors, two cache pages and up to two bytes. *)
EXTENDS SpiffsFiles, TLC

CONSTANTS a, b, f1, f2, x, y

Objs2 == 1 .. 2
Pages1 == {1}
Pages2 == 1 .. 2
ReadWrite == {{"RDONLY", "WRONLY"}}
Symmetry == Permutations(Names) \cup Permutations(Fds) \cup Permutations(Bytes)

(* No call reads what the last one returned: states that differ in it alone  *)
(* have the same successors, and are one in FilesShared.                     *)
Lasting == <<dir, data, fd, page>>

=============================================================================

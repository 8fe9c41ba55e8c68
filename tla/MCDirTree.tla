------------------------------- MODULE MCDirTree -------------------------------
(* DirTree for TLC: a directory "outer" in the base directory, a directory   *)
(* "inner" in it, and, where there is a file, "file" beside "inner".         *)
EXTENDS DirTree, TLC

CONSTANTS base, outer, inner, file

Chain == (outer :> base) @@ (inner :> outer)

FileBeside == Chain @@ (file :> outer)

\* What follows the loss of an event is not explored further: the properties of
\* the run with this constraint promise little or nothing then.
NothingLost == ~lost
=============================================================================

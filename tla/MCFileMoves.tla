------------------------------ MODULE MCFileMoves ------------------------------
(* FileMoves for TLC.                                                       *)
EXTENDS FileMoves

\* What follows the loss of an event is not explored further: the properties of
\* the runs with this constraint promise nothing then.
NothingLost == ~lost
=============================================================================

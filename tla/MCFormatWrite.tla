--------------------------- MODULE MCFormatWrite ---------------------------
(* FormatWrite on a few files of every fate and two workers. *)
EXTENDS FormatWrite
CONSTANTS w1, w2
=============================================================================

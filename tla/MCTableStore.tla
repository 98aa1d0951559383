---------------------------- MODULE MCTableStore ----------------------------
(* A table of one column or two, and up to two rows.  The files of column  *)
(* a are two, those of b one.                                              *)
EXTENDS TableStore

CONSTANTS a, b, dflt, v, lost
=============================================================================

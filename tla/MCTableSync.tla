----------------------------- MODULE MCTableSync -----------------------------
(* Two writers, one of them careful, and a reader, over two columns.       *)
EXTENDS TableSync

MCFirstCols == <<"a">>
==============================================================================

---------------------------- MODULE MCTableReads ----------------------------
(* Bounds for TableReads: four rows of six columns, two reference tables,  *)
(* the second over the table or over the first.                            *)
EXTENDS TableReads, TLC

MCCols    == {"uvw", "list", "time", "flag", "data", "cell"}
MCManager == [c \in MCCols |-> CASE c \in {"uvw", "list"} -> "Ssm" [] c = "time" -> "Ism" [] OTHER -> "Tsm"]
MCShape   == [c \in MCCols |-> CASE c = "uvw"  -> <<2, 3>>
                                  [] c = "time" -> <<>>
                                  [] c = "flag" -> <<3>>
                                  [] c = "data" -> <<2, 2>>
                                  [] OTHER      -> <<0>>]
MCType    == [c \in MCCols |-> IF c = "flag" THEN "Bool" ELSE "Number"]

MCUnset == {<<"list", 1>>, <<"data", 2>>, <<"cell", 0>>}

MCRowLists == {<<3, 0, 2>>, <<1, 1, 2, 0>>, <<0, 1, 2>>}

Read(op, c, h, s, n, blc, trc, inc) ==
  [op |-> op, col |-> c, on |-> h, start |-> s, nrow |-> n, blc |-> blc, trc |-> trc, inc |-> inc]

Handles == 0..2
Ranges  == {<<0, 3>>, <<1, 2>>, <<5, 0>>, <<2, 3>>}

Whole == {Read(op, c, h, r[1], r[2], <<>>, <<>>, <<>>) :
            op \in {"col", "raw", "bits"}, c \in MCCols, h \in Handles, r \in Ranges}
Single == {Read(op, c, h, r, 1, <<>>, <<>>, <<>>) :
            op \in {"cell", "defined"}, c \in MCCols, h \in Handles, r \in {0, 4}}

Boxes(c) ==
  CASE c = "uvw"  -> {<<<<0, 0>>, <<1, 2>>, <<1, 2>>>>, <<<<0, 1>>, <<1, 1>>, <<>>>>, <<<<0, 0>>, <<2, 0>>, <<>>>>,
                      <<<<1, 1>>, <<1, 2>>, <<0, 3>>>>, <<<<0, 0>>, <<0, Word + 1>>, <<>>>>,
                      <<<<0, 0>>, <<0, Word + 1>>, <<1, 3>>>>, <<<<0>>, <<1>>, <<>>>>}
    [] c = "list" -> {<<<<0>>, <<2>>, <<2>>>>, <<<<1>>, <<0>>, <<>>>>}
    [] c = "data" -> {<<<<1, 0>>, <<1, 1>>, <<1, 1>>>>}
    [] OTHER      -> {<<<<0>>, <<0>>, <<>>>>}

Slices == UNION {{Read("slice", c, h, r[1], r[2], b[1], b[2], b[3]) : b \in Boxes(c)} :
                   c \in {"uvw", "list", "data", "time"}, h \in Handles, r \in {<<0, 2>>, <<1, 2>>}}

MCRequests == Whole \cup Single \cup Slices

MCPatchRows == <<0, 2>>
MCFreeShape == <<3>>
MCFree      == <<0>>
=============================================================================

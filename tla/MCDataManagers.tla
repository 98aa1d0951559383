--------------------------- MODULE MCDataManagers ---------------------------
(* Bounds for DataManagers: one manager of each type, two or three rows    *)
(* per bucket or tile, files as this program writes them and as others do. *)
EXTENDS DataManagers, TLC

MCSsmKinds == <<"fixed", "string", "array", "shaped">>

MCCellValues(what) ==
  CASE what = "fixed"  -> {1}
    [] what = "string" -> {<<1, 1, 1>>}
    [] what = "array"  -> {<<<<2>>, <<1, 2>>>>}
    [] what = "shaped" -> {Shaped(1)}
    [] what = "ism"    -> {1, 2}
    [] what = "tsm"    -> {<<<<3>>, <<1, 0, 1>>>>, <<<<3>>, <<1, 1, 1>>>>}

MCTsmShape   == <<3>>
MCTsmRequest == <<2, 2>>

Fill(cols, n, F(_)) == [c \in cols |-> [r \in 0..(n - 1) |-> F(c)]]
Long == <<2, 2, 2>>

SsmCells(n) == Fill(SsmCols, n, LAMBDA c : IF SsmKinds[c] = "string" THEN Long
                                           ELSE IF SsmKinds[c] = "array" THEN Shaped(2)
                                           ELSE Default("ssm", c))

Own(k, cs, n) ==
  [kind |-> k, nrow |-> n, big |-> FALSE, spec |-> Layout(SsmRpb), cells |-> cs, file |-> Build(k, n, cs)]

(* The shaped cells of the first two rows share a record that counts them. *)
ShareRecord(f, at) ==
  [f EXCEPT !.bucket[0][2][at + 1] = f.bucket[0][2][at],
            !.arr.counted = TRUE,
            !.arr.rec[f.bucket[0][2][at][2]].refs = 2]

Shared ==
  [Own("ssm", SsmCells(2), 2) EXCEPT
     !.file = ShareRecord(Build("ssm", 2, SsmCells(2)), Layout(SsmRpb).offset[4] + 1)]

IsmCells(n) == Fill(1..IsmCols, n, LAMBDA c : 0)

(* A bucket that holds more rows than this program would put there.        *)
Fuller ==
  [Own("ism", IsmCells(3), 3) EXCEPT
     !.file = [hdr |-> [big |-> FALSE, size |-> IsmSize, nb |-> 1],
               slot |-> [b \in 0..1 |->
                 IF b = 0 THEN EncodeBucket(IsmSize, [c \in 1..IsmCols |-> <<0, 0, 0>>])
                 ELSE EncodeIndex(<<0, 3>>, <<0>>)]]]

TsmCells(n) == Fill({1}, n, LAMBDA c : <<TsmShape, <<0, 1, 1>>>>)

(* The first row is unset: no cube has it.                                 *)
Later(one) == [one EXCEPT !.hdr.rows = 2, !.hdr.map = <<[row |-> 1, cube |-> 1, pos |-> 0]>>]

Unstored ==
  [kind |-> "tsm", nrow |-> 2, big |-> FALSE, spec |-> Layout(SsmRpb),
   cells |-> [c \in {1} |-> (0 :> Default("tsm", 1)) @@ (1 :> <<TsmShape, <<0, 1, 1>>>>)],
   file |-> Later(TsmBuild(TsmShape, TsmRequest, <<<<TsmShape, <<0, 1, 1>>>>>>)[2])]

MCLayouts ==
  {Own("ssm", SsmCells(1), 1), Shared, Own("ism", IsmCells(1), 1), Fuller,
   Own("tsm", TsmCells(1), 1), Unstored}

(* A StandardStMan with three rows in a bucket.                            *)
Wide == INSTANCE StandardStMan WITH SsmRpb <- SsmRpb + 1

MCWideLayouts ==
  {[Own("ssm", SsmCells(2), 2) EXCEPT !.spec = Layout(SsmRpb + 1),
                                      !.file = Wide!SsmBuild(2, SsmCells(2))]}

MCOwnLayouts == {Own("ssm", SsmCells(1), 1)}
MCOwnIsm     == {Own("ism", IsmCells(1), 1)}
=============================================================================

---------------------------- MODULE MCTableLock ----------------------------
(* Two processes: p1 has a read handle and a writer, p2 a writer.          *)
EXTENDS TableLock, TLC

CONSTANTS p1, p2, r1, w1, w2

MCOwner == (r1 :> p1) @@ (w1 :> p1) @@ (w2 :> p2)
MCMode  == (r1 :> "auto") @@ (w1 :> "user") @@ (w2 :> "permwait")
=============================================================================

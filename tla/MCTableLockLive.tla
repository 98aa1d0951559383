-------------------------- MODULE MCTableLockLive --------------------------
(* One read handle in auto mode against one writer of another process.     *)
EXTENDS TableLock, TLC

CONSTANTS p1, p2, r1, w2

MCOwner == (r1 :> p1) @@ (w2 :> p2)
MCMode  == (r1 :> "auto") @@ (w2 :> "auto")
=============================================================================

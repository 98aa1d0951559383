----------------------------- MODULE TableLock -----------------------------
(***************************************************************************)
(* The handles of one table and the lock they share: `Table` snapshots and *)
(* `WritableTable`s of several processes (crates/casacure/src/table.rs)    *)
(* over the LockFile of each process.                                      *)
(*                                                                         *)
(* A handle operates in steps.  An acquire that cannot be granted at once  *)
(* enters the request list, waits, and leaves the list again, all of it    *)
(* under the mutex of its process's LockFile: until it returns, no other   *)
(* handle of the process can touch the lock.  A flush takes the write lock *)
(* (unless the handle holds it already), writes, and gives it back.        *)
(***************************************************************************)
EXTENDS LockFile

CONSTANTS
  Writers,  \* the handles that are a WritableTable; the others are a Table
  Mode,     \* Mode[h]: the effective lock mode handle h is opened with
  Queried,  \* the read handles whose query() and sort() results may live on
  Patience  \* how explicit locks may try: once, several times, or block

LockModes == {"auto", "autonoread", "user", "perm", "permwait"}

ASSUME TableLockAssumption ==
  /\ Writers \subseteq Handle
  /\ Mode \in [Handle -> LockModes]
  /\ Queried \subseteq Handle \ Writers
  /\ Patience \subseteq {"once", "some", "block"}

(* A process has one writable backing of a table: WRITE_REGISTRY hands the *)
(* same WritableTable to every writable handle of the path.                *)
ASSUME OneWriterAssumption ==
  \A g, h \in Writers : Owner[g] = Owner[h] => g = h

VARIABLES
  pc,     \* pc[h]: where handle h is in its current operation
  hold,   \* hold[h]: Table::lock_held; for a writer, "write" iff write_held
  req,    \* req[h]: the acquire under way: for what, which lock, how patient
  saved,  \* saved[h]: the request list as h last read it
  shared, \* the read handles of whose snapshot a query() or sort() result lives
  kept    \* kept[h]: lock_held of an earlier snapshot of h that only results
          \* still have, or "gone" (one such snapshot of a handle at a time)

snapshots == <<shared, kept>>
vars == <<lockVars, pc, hold, req, saved, snapshots>>

Acquiring == {"adding", "counting", "wait", "won", "lost"}
PcState   == {"closed", "probing", "attached", "ready", "locked", "flushing"}
               \cup Acquiring

Request   == [job   : {"open", "lock", "relock", "reopen", "flush", "unlock"},
              want  : {"read", "write"},
              tries : {"once", "some", "block"}]
NoRequest == [job |-> "open", want |-> "read", tries |-> "once"]

Tables    == Handle \ Writers
Permanent == {"perm", "permwait"}

Init ==
  /\ LockInit
  /\ pc = [h \in Handle |-> "closed"]
  /\ hold = [h \in Handle |-> "none"]
  /\ req = [h \in Handle |-> NoRequest]
  /\ saved = [h \in Handle |-> EmptyList]
  /\ shared = {}
  /\ kept = [h \in Handle |-> "gone"]

-----------------------------------------------------------------------------
(* The LockFile mutex is held for the whole of a blocking acquire.         *)
MutexFree(p) == \A h \in Handle : Owner[h] = p => pc[h] \notin Acquiring

(* Handle h, of a live process, is at point c and may lock the mutex.      *)
At(h, c) == Owner[h] \in alive /\ pc[h] = c /\ MutexFree(Owner[h])

Flushes(r) == r.job \in {"flush", "unlock"}

(* What the handle believes it holds once the acquire of r succeeded.  A    *)
(* WritableTable records only an explicit write lock, and the binding's    *)
(* lock() of a read handle records nothing until it has opened anew.       *)
HoldAfter(h, r) ==
  IF r.job \in {"open", "reopen"} /\ Mode[h] \in {"user", "autonoread"} THEN "none"
  ELSE IF r.job = "relock" \/ Flushes(r) \/ (h \in Writers /\ r.want = "read")
    THEN hold[h]
    ELSE r.want

(* A user-mode open gives its read lock straight back.  A new snapshot     *)
(* replaces the old one, whose Drop gives back the lock that one recorded: *)
(* unless a result has the old one too.                                    *)
GivesBack(h, r) ==
  \/ r.job \in {"open", "reopen"} /\ Mode[h] = "user"
  \/ r.job = "reopen" /\ hold[h] # "none" /\ h \notin shared

(* Handle h parts from its snapshot, and leaves it to the results.         *)
LeaveToResults(h) ==
  /\ shared' = shared \ {h}
  /\ kept' = [kept EXCEPT ![h] = IF h \in shared THEN hold[h] ELSE @]

(* A snapshot of h is dropped, the instance being s by then, while another *)
(* of its snapshots may be there.                                          *)
LetGo(h, s, other) ==
  IF other THEN lf' = [lf EXCEPT ![Owner[h]] = s] /\ UNCHANGED <<users, closing>>
  ELSE DetachLock(h, s)

(* The acquire of request r by h has succeeded and left the instance as s. *)
Succeed(h, r, s) ==
  /\ lf' = [lf EXCEPT ![Owner[h]] = IF GivesBack(h, r) THEN ReleaseRead(s) ELSE s]
  /\ hold' = [hold EXCEPT ![h] = HoldAfter(h, r)]
  /\ pc' = [pc EXCEPT ![h] = IF Flushes(r) THEN "flushing"
                             ELSE IF r.job = "relock" THEN "locked" ELSE "ready"]
  /\ req' = [req EXCEPT ![h] = IF Flushes(r) THEN r ELSE NoRequest]
  /\ saved' = [saved EXCEPT ![h] = EmptyList]
  /\ IF r.job = "reopen" THEN LeaveToResults(h) ELSE UNCHANGED snapshots
  /\ UNCHANGED <<users, closing>>

(* It has failed: a constructor drops the handle, any other operation      *)
(* returns its error and leaves the handle as it was.                      *)
Refuse(h, r) ==
  /\ IF r.job = "open"
       THEN LetGo(h, lf[Owner[h]], kept[h] # "gone") /\ pc' = [pc EXCEPT ![h] = "closed"]
       ELSE UNCHANGED <<lf, users, closing>> /\ pc' = [pc EXCEPT ![h] = "ready"]
  /\ req' = [req EXCEPT ![h] = NoRequest]
  /\ saved' = [saved EXCEPT ![h] = EmptyList]
  /\ UNCHANGED <<hold, snapshots>>

(* LockFile::acquire: one try; a request that is refused and may be        *)
(* repeated goes through the request list.                                 *)
Acquire(h, r) ==
  LET p == Owner[h] IN
  /\ UNCHANGED <<inuse, list, alive, ro, probing>>
  /\ \/ /\ Immediate(p, r.want)
        /\ Succeed(h, r, Acquired(p, r.want))
     \/ /\ ~Immediate(p, r.want)
        /\ r.tries = "once"
        /\ Refuse(h, r)
     \/ /\ ~Immediate(p, r.want)
        /\ r.tries # "once"
        /\ pc' = [pc EXCEPT ![h] = IF AddSkips(p) THEN "wait" ELSE "adding"]
        /\ req' = [req EXCEPT ![h] = r]
        /\ saved' = [saved EXCEPT ![h] = IF AddSkips(p) THEN EmptyList
                                           ELSE [EmptyList EXCEPT !.n = list.n]]
        /\ UNCHANGED <<lf, users, closing, hold, snapshots>>

AddEntry(h) ==
  /\ Owner[h] \in alive
  /\ pc[h] = "adding"
  /\ WriteEntry(Owner[h], saved[h].n)
  /\ pc' = [pc EXCEPT ![h] = "counting"]
  /\ UNCHANGED <<lf, inuse, users, alive, ro, probing, closing, hold, req, saved, snapshots>>

AddCount(h) ==
  /\ Owner[h] \in alive
  /\ pc[h] = "counting"
  /\ WriteCount(saved[h].n)
  /\ pc' = [pc EXCEPT ![h] = "wait"]
  /\ saved' = [saved EXCEPT ![h] = EmptyList]
  /\ UNCHANGED <<lf, inuse, users, alive, ro, probing, closing, hold, req, snapshots>>

(* The kernel grants the lock to a process blocked in F_SETLKW, or one of  *)
(* the later F_SETLK tries gets it.                                        *)
Granted(h) ==
  LET p == Owner[h] IN
  /\ p \in alive
  /\ pc[h] = "wait"
  /\ Grantable(p, req[h].want)
  /\ lf' = [lf EXCEPT ![p].kernel = req[h].want]
  /\ pc' = [pc EXCEPT ![h] = "won"]
  /\ UNCHANGED <<inuse, users, list, alive, ro, probing, closing, hold, req, saved, snapshots>>

(* The last of a bounded number of tries has failed.                       *)
GiveUp(h) ==
  /\ Owner[h] \in alive
  /\ pc[h] = "wait"
  /\ req[h].tries = "some"
  /\ ~Grantable(Owner[h], req[h].want)
  /\ pc' = [pc EXCEPT ![h] = "lost"]
  /\ UNCHANGED <<lockVars, hold, req, saved, snapshots>>

(* F_SETLKW fails (EINTR, or EDEADLK when two upgrades wait for each       *)
(* other): the error leaves acquire at once, past remove_req_id.           *)
WaitFails(h) ==
  /\ Owner[h] \in alive
  /\ pc[h] = "wait"
  /\ req[h].tries = "block"
  /\ Refuse(h, req[h])
  /\ UNCHANGED <<inuse, list, alive, ro, probing>>

ReadList(h) ==
  /\ Owner[h] \in alive
  /\ pc[h] \in {"won", "lost"}
  /\ saved[h] = EmptyList
  /\ ~RemoveSkips(Owner[h])
  /\ saved' = [saved EXCEPT ![h] = list]
  /\ UNCHANGED <<lockVars, pc, hold, req, snapshots>>

(* remove_req_id writes the list back, or had nothing to write; acquire    *)
(* then returns.                                                           *)
LeaveList(h) ==
  LET p == Owner[h] IN
  /\ p \in alive
  /\ pc[h] \in {"won", "lost"}
  /\ \/ saved[h] = EmptyList /\ RemoveSkips(p) /\ UNCHANGED list
     \/ saved[h] # EmptyList /\ WriteKept(p, saved[h])
  /\ IF pc[h] = "won"
       THEN Succeed(h, req[h], [lf[p] EXCEPT !.held = req[h].want])
       ELSE Refuse(h, req[h])
  /\ UNCHANGED <<inuse, alive, ro, probing>>

-----------------------------------------------------------------------------
(* Opening and closing.                                                    *)

(* LOCK_REGISTRY's mutex is held for the whole of an attach.               *)
RegistryFree(p) == \A h \in Handle : Owner[h] = p => pc[h] # "probing"

Attach(h) ==
  /\ At(h, "closed") /\ RegistryFree(Owner[h])
  /\ \/ /\ ShareLock(h) \/ AttachReadOnly(h)
        /\ pc' = [pc EXCEPT ![h] = "attached"]
     \/ /\ ProbeWrite(h)
        /\ pc' = [pc EXCEPT ![h] = "probing"]
  /\ UNCHANGED <<hold, req, saved, snapshots>>

AttachProbed(h) ==
  /\ At(h, "probing")
  /\ EndProbe(h)
  /\ pc' = [pc EXCEPT ![h] = "attached"]
  /\ UNCHANGED <<hold, req, saved, snapshots>>

(* The lock an open takes: permanent modes the lock of the access asked    *)
(* for, auto and user mode a read lock, autonoread none.                   *)
OpenTable(h) ==
  /\ h \in Tables
  /\ At(h, "attached")
  /\ \/ /\ Mode[h] \in Permanent
        /\ \E t \in {"read", "write"} :
             Acquire(h, [job |-> "open", want |-> t,
                         tries |-> IF Mode[h] = "perm" THEN "once" ELSE "block"])
     \/ /\ Mode[h] \in {"auto", "user"}
        /\ Acquire(h, [job |-> "open", want |-> "read", tries |-> "block"])
     \/ /\ Mode[h] = "autonoread"
        /\ pc' = [pc EXCEPT ![h] = "ready"]
        /\ UNCHANGED <<lockVars, hold, req, saved, snapshots>>

(* attach_write_lock: only the permanent modes lock at once.               *)
OpenWriter(h) ==
  /\ h \in Writers
  /\ At(h, "attached")
  /\ \/ /\ Mode[h] \in Permanent
        /\ Acquire(h, [job |-> "open", want |-> "write",
                       tries |-> IF Mode[h] = "perm" THEN "once" ELSE "block"])
     \/ /\ Mode[h] \notin Permanent
        /\ pc' = [pc EXCEPT ![h] = "ready"]
        /\ UNCHANGED <<lockVars, hold, req, saved, snapshots>>

(* query() and sort() of a read handle share its snapshot with the result. *)
Query(h) ==
  /\ h \in Queried /\ kept[h] = "gone"
  /\ Owner[h] \in alive /\ pc[h] = "ready"
  /\ shared' = shared \cup {h}
  /\ UNCHANGED <<lockVars, pc, hold, req, saved, kept>>

(* Drop: a snapshot that believes it holds a lock releases it, a Table its *)
(* read lock, a writer its write lock; its Arc goes with it.               *)
Dropped(h, held) ==
  LET p == Owner[h] IN
  IF held = "none" THEN lf[p] ELSE IF h \in Writers THEN ReleaseWrite(lf[p]) ELSE ReleaseRead(lf[p])

(* A handle is closed; the results keep its snapshot, and the lock with it.*)
Drop(h) ==
  /\ At(h, "ready")
  /\ IF h \in shared THEN UNCHANGED <<lf, users, closing>>
     ELSE LetGo(h, Dropped(h, hold[h]), kept[h] # "gone")
  /\ LeaveToResults(h)
  /\ hold' = [hold EXCEPT ![h] = "none"]
  /\ pc' = [pc EXCEPT ![h] = "closed"]
  /\ UNCHANGED <<inuse, list, alive, ro, probing, req, saved>>

(* The last result that has a snapshot is dropped.                         *)
DropResult(h) ==
  /\ Owner[h] \in alive /\ MutexFree(Owner[h])
  /\ \/ h \in shared /\ shared' = shared \ {h} /\ UNCHANGED <<lf, users, closing, kept>>
     \/ /\ kept[h] # "gone" /\ kept' = [kept EXCEPT ![h] = "gone"]
        /\ LetGo(h, Dropped(h, kept[h]), pc[h] \notin {"closed", "probing"})
        /\ UNCHANGED shared
  /\ UNCHANGED <<inuse, list, alive, ro, probing, pc, hold, req, saved>>

(* The fd of an instance without owners is closed.                         *)
CloseLock(p) == CloseFile(p) /\ UNCHANGED <<pc, hold, req, saved, snapshots>>

(* Faulty variant: one waiter is taken for the handle's own entry.         *)
AutoTickForTwo(h) ==
  /\ h \in Tables
  /\ Mode[h] = "auto"
  /\ list.n > 1
  /\ Drop(h)

(* auto_tick: a read handle in auto mode that sees a waiter trades its     *)
(* snapshot for an unlocked one, until its next operation opens again.     *)
(* The snapshot goes, unless results have it.                              *)
AutoTick(h) ==
  /\ h \in Tables
  /\ Mode[h] = "auto"
  /\ list.n > 0
  /\ Drop(h)

-----------------------------------------------------------------------------
(* Explicit locking.                                                       *)

(* Table::lock returns early on a hold of its own that covers the request. *)
(* (A snapshot that is shared cannot be locked so, only by the binding.)   *)
LockTable(h) ==
  /\ h \in Tables \ shared
  /\ At(h, "ready")
  /\ \E t \in {"read", "write"}, n \in Patience :
       /\ hold[h] \notin {"write", t}
       /\ Acquire(h, [job |-> "lock", want |-> t, tries |-> n])

(* The binding locks a read handle by an acquire of its own; whatever the  *)
(* lock, it then opens a new snapshot in the place of the old one.         *)
Relock(h) ==
  /\ h \in Tables
  /\ At(h, "ready")
  /\ \E t \in {"read", "write"}, n \in Patience :
       Acquire(h, [job |-> "relock", want |-> t, tries |-> n])

Reopen(h) ==
  /\ At(h, "locked")
  /\ \/ /\ Mode[h] # "autonoread"
        /\ Acquire(h, [job |-> "reopen", want |-> "read",
                       tries |-> IF Mode[h] = "perm" THEN "once" ELSE "block"])
     \/ /\ Mode[h] = "autonoread"
        /\ Succeed(h, [job |-> "reopen", want |-> "read", tries |-> "once"],
                   lf[Owner[h]])
        /\ UNCHANGED <<inuse, list, alive, ro, probing>>

(* Table::unlock, and the binding's unlock and close of a read handle,     *)
(* only ever release a read hold; the binding leaves lock_held alone.      *)
UnlockTable(h) ==
  /\ h \in Tables
  /\ At(h, "ready")
  /\ lf' = [lf EXCEPT ![Owner[h]] = ReleaseRead(@)]
  /\ (h \notin shared /\ hold' = [hold EXCEPT ![h] = "none"]) \/ UNCHANGED hold
  /\ UNCHANGED <<inuse, users, list, alive, ro, probing, closing, pc, req, saved, snapshots>>

LockWriter(h) ==
  /\ h \in Writers
  /\ At(h, "ready")
  /\ \E t \in {"read", "write"}, n \in Patience :
       Acquire(h, [job |-> "lock", want |-> t, tries |-> n])

-----------------------------------------------------------------------------
(* Flushing.                                                               *)

(* ensure_write_lock, for flush and for the flush unlock starts with.      *)
BeginFlush(h) ==
  /\ h \in Writers
  /\ Owner[h] \in alive
  /\ pc[h] = "ready"
  /\ \E job \in {"flush", "unlock"} :
       LET r == [job |-> job, want |-> "write", tries |-> "block"] IN
       \/ /\ hold[h] = "write"
          /\ pc' = [pc EXCEPT ![h] = "flushing"]
          /\ req' = [req EXCEPT ![h] = r]
          /\ UNCHANGED <<lockVars, hold, saved, snapshots>>
       \/ /\ hold[h] # "write"
          /\ MutexFree(Owner[h])
          /\ Acquire(h, r)

(* finish_write_lock, after a flush that wrote or one that failed: the     *)
(* lock goes unless the handle keeps it.  An unlock releases it too, but   *)
(* not when its flush failed.                                              *)
EndFlush(h) ==
  LET p == Owner[h] IN
  /\ At(h, "flushing")
  /\ \E ok \in BOOLEAN :
       LET gives == req[h].job = "unlock" /\ ok IN
       /\ lf' = [lf EXCEPT ![p] = IF hold[h] = "write" /\ ~gives
                                    THEN @ ELSE ReleaseWrite(@)]
       /\ hold' = [hold EXCEPT ![h] = IF gives THEN "none" ELSE @]
  /\ pc' = [pc EXCEPT ![h] = "ready"]
  /\ req' = [req EXCEPT ![h] = NoRequest]
  /\ UNCHANGED <<inuse, users, list, alive, ro, probing, closing, saved, snapshots>>

(* is_multi_used probes byte 1 with a write lock and unlocks it again: a   *)
(* probe that succeeds takes the process's own shared lock away with it.   *)
IsMultiUsed(h) ==
  LET p == Owner[h] IN
  /\ At(h, "ready")
  /\ p \notin ro
  /\ inuse \subseteq {p}
  /\ inuse' = {}
  /\ UNCHANGED <<lf, users, list, alive, ro, probing, closing, pc, hold, req, saved, snapshots>>

(* A process dies at any point; the kernel closes its files.               *)
Die(p) ==
  LET dead == {h \in Handle : Owner[h] = p} IN
  /\ p \in alive
  /\ alive' = alive \ {p}
  /\ lf' = [lf EXCEPT ![p] = Unheld]
  /\ inuse' = inuse \ {p}
  /\ users' = [users EXCEPT ![p] = {}]
  /\ pc' = [h \in Handle |-> IF h \in dead THEN "closed" ELSE pc[h]]
  /\ hold' = [h \in Handle |-> IF h \in dead THEN "none" ELSE hold[h]]
  /\ req' = [h \in Handle |-> IF h \in dead THEN NoRequest ELSE req[h]]
  /\ saved' = [h \in Handle |-> IF h \in dead THEN EmptyList ELSE saved[h]]
  /\ probing' = probing \ {p}
  /\ closing' = closing \ {p}
  /\ shared' = shared \ dead
  /\ kept' = [h \in Handle |-> IF h \in dead THEN "gone" ELSE kept[h]]
  /\ UNCHANGED <<list, ro>>

-----------------------------------------------------------------------------
AcquireStep(h) ==
  \/ AddEntry(h) \/ AddCount(h) \/ Granted(h) \/ GiveUp(h) \/ WaitFails(h)
  \/ ReadList(h) \/ LeaveList(h)

Next ==
  \/ \E h \in Handle :
       \/ AcquireStep(h)
       \/ Attach(h) \/ AttachProbed(h) \/ OpenTable(h) \/ OpenWriter(h) \/ Drop(h) \/ AutoTick(h)
       \/ Query(h) \/ DropResult(h)
       \/ LockTable(h) \/ Relock(h) \/ Reopen(h)
       \/ UnlockTable(h) \/ LockWriter(h)
       \/ BeginFlush(h) \/ EndFlush(h)
       \/ IsMultiUsed(h)
  \/ \E p \in Proc : CloseLock(p) \/ Die(p)

(* Threads run: what an operation has begun goes on (but a lock need never *)
(* be granted).  A read handle that is in use ticks again and again, since *)
(* the binding ticks before every operation but lock and unlock.           *)
Fairness ==
  \A h \in Handle :
    /\ WF_vars(AddEntry(h)) /\ WF_vars(AddCount(h))
    /\ WF_vars(ReadList(h)) /\ WF_vars(LeaveList(h))
    /\ WF_vars(EndFlush(h)) /\ WF_vars(Reopen(h))
    /\ SF_vars(AutoTick(h))
FairClose == \A p \in Proc : WF_vars(CloseLock(p))

Spec     == Init /\ [][Next]_vars
FairSpec == Spec /\ Fairness /\ FairClose

-----------------------------------------------------------------------------
TypeOK ==
  /\ lf \in [Proc -> Instance]
  /\ inuse \subseteq Proc
  /\ users \in [Proc -> SUBSET Handle]
  /\ list \in ReqList
  /\ alive \subseteq Proc
  /\ ro \subseteq Proc
  /\ probing \subseteq Proc
  /\ closing \subseteq Proc
  /\ pc \in [Handle -> PcState]
  /\ hold \in [Handle -> LockState]
  /\ req \in [Handle -> Request]
  /\ saved \in [Handle -> ReqList]
  /\ shared \subseteq Tables
  /\ kept \in [Handle -> {"gone"} \cup LockState]

(* While no acquire is under way in a process, LockFile::held is what the  *)
(* kernel has: the process neither believes in a lock it lost nor keeps    *)
(* one it forgot.  (A read-only instance is the exception the code makes;  *)
(* without Racing the property does not hold: a late close takes the locks *)
(* of the next instance.)                                                  *)
HeldIsReal ==
  \A p \in Proc \ (ro \cup Racing) :
    MutexFree(p) /\ users[p] # {} => lf[p].kernel = lf[p].held

(* A write lock a WritableTable counts on, held explicitly or for the      *)
(* flush it is in the middle of, is really the process's: nothing another  *)
(* handle does (opening, ticking, unlocking, closing) takes it away.       *)
WriterIsCovered ==
  \A h \in Writers :
    /\ Owner[h] \notin ro \cup Racing
    /\ hold[h] = "write" \/ pc[h] = "flushing"
    => lf[Owner[h]].kernel = "write"

(* No two processes write the table's files at the same time, as long as   *)
(* both have an instance that can lock for writing and neither is Racing.  *)
FlushExclusion ==
  \A g, h \in Writers :
    /\ pc[g] = "flushing" /\ pc[h] = "flushing"
    /\ Owner[g] \notin ro \cup Racing /\ Owner[h] \notin ro \cup Racing
    => Owner[g] = Owner[h]

(* Found not to hold: the same with Racing processes, "the fd (and its     *)
(* locks) live until the last referencing handle drops" (lockfile.rs 802). *)
LocksOutliveClose ==
  \A h \in Writers :
    /\ Owner[h] \notin ro
    /\ hold[h] = "write" \/ pc[h] = "flushing"
    => lf[Owner[h]].kernel = "write"

(* The same for every two processes that have write permission on the lock *)
(* file, even if they open it at the same time.                            *)
WritersExclude ==
  \A g, h \in Writers :
    /\ pc[g] = "flushing" /\ pc[h] = "flushing"
    /\ Owner[g] \notin Lacking /\ Owner[h] \notin Lacking
    => Owner[g] = Owner[h]

(* Whatever waiting processes do to each other's request lists, the list   *)
(* never outgrows its 260 bytes, behind which the sync record lies.        *)
ListFits ==
  /\ list.n <= ReqLimit
  /\ \A h \in Handle : pc[h] \in {"adding", "counting"} => saved[h].n < ReqLimit

(* lock() of a read handle that returns without an error leaves its        *)
(* process with the lock.  (Found not to hold.)                            *)
LockGivesLock ==
  [][\A h \in Handle :
       pc[h] = "locked" /\ pc'[h] = "ready" => lf'[Owner[h]].kernel # "none"]_vars

(* A process that has the table open holds its mark on byte 1.  (Found not *)
(* to hold.)                                                               *)
InUseIsMarked == \A p \in Proc : users[p] # {} => p \in inuse

Yields(h) == lf[Owner[h]].kernel # "read" \/ list.n = 0 \/ ~MutexFree(Owner[h])

Results(h) == h \in shared \/ kept[h] # "gone"

(* Once the list shows that some process waits, the kernel's read lock of  *)
(* a read handle in auto mode is given up - unless its own process is      *)
(* blocked on the lock, or a result of query() or sort() that was made     *)
(* from the handle is alive.                                               *)
ListedIsYieldedTo ==
  \A h \in Tables :
    (Mode[h] = "auto" /\ hold[h] = "read" /\ list.n > 0) ~> Yields(h) \/ Results(h)

(* Found not to hold: the same whatever results are alive, as the binding  *)
(* says of auto_tick (casacure-python table.rs 1325).  A result shares the *)
(* snapshot and its lock, and nothing gives that lock back before the      *)
(* result is dropped.                                                      *)
AlwaysYieldedTo ==
  \A h \in Tables :
    (Mode[h] = "auto" /\ hold[h] = "read" /\ list.n > 0) ~> Yields(h)

(* A waiting process that is in the request list stays there: only then    *)
(* does ListedIsYieldedTo speak for it until it has its lock.  (Found not  *)
(* to hold.)                                                               *)
Listed(p) == \E i \in 1..list.n : list.slot[i] = p

WaiterStaysListed ==
  [][\A g \in Handle :
       /\ Owner[g] \in alive' /\ Listed(Owner[g])
       /\ pc[g] = "wait" /\ pc'[g] = "wait"
       => Listed(Owner[g])']_vars
=============================================================================

-------------------------- MODULE TableLockProofs --------------------------
(***************************************************************************)
(* What TableLock promises, for any number of processes, handles and list  *)
(* slots: the inductive invariant IInv and its consequences.               *)
(***************************************************************************)
EXTENDS TableLock, FiniteSetTheorems, TLAPS

(* The registry's shares are exactly the open handles of the process, and  *)
(* those of which results have a snapshot.                                 *)
UsersOpen ==
  \A p \in Proc, h \in Handle :
    h \in users[p] <=> Owner[h] = p /\ (pc[h] \notin {"closed", "probing"} \/ kept[h] # "gone")

(* An instance that is gone believes in no lock; what the kernel has of it *)
(* goes with its fd, before a process that is not Racing attaches again.   *)
Orphaned ==
  \A p \in Proc \ Racing :
    /\ users[p] = {} => lf[p].held = "none" /\ (p \notin closing => lf[p].kernel = "none")
    /\ p \in closing => users[p] = {}

(* The registry's mutex: while a handle probes, its process has no         *)
(* instance, nor another handle that probes.                               *)
ProbingAlone ==
  \A h \in Handle :
    pc[h] = "probing" =>
      /\ users[Owner[h]] = {} /\ (Owner[h] \notin Racing => Owner[h] \notin closing)
      /\ \A g \in Handle : Owner[g] = Owner[h] /\ pc[g] = "probing" => g = h

(* Only the snapshots of read handles are shared.                          *)
KeptByTables == \A h \in Handle : kept[h] # "gone" => h \in Tables

(* One handle of a process at a time is inside acquire.                    *)
OneInMutex ==
  \A g, h \in Handle :
    Owner[g] = Owner[h] /\ pc[g] \in Acquiring /\ pc[h] \in Acquiring => g = h

(* An acquire that had to wait asked for a lock the process did not have,  *)
(* through an fd that can lock.                                            *)
Uncovered ==
  \A h \in Handle :
    pc[h] \in Acquiring =>
      ~Covered(Owner[h], req[h].want) /\ ~Degrades(Owner[h], req[h].want)

(* `held` lags behind the kernel only while a granted acquire leaves the   *)
(* list.                                                                   *)
KernelTracked ==
  /\ \A h \in Handle : pc[h] = "won" /\ Owner[h] \notin Racing
                        => lf[Owner[h]].kernel = req[h].want
  /\ \A p \in Proc \ (ro \cup Racing) :
       /\ p \notin closing
       /\ \A h \in Handle : Owner[h] = p => pc[h] # "won"
       => lf[p].kernel = lf[p].held

(* A handle that is not open yet believes in no lock.                      *)
IdleHold ==
  \A h \in Handle :
    \/ pc[h] \in {"closed", "probing", "attached"}
    \/ pc[h] \in Acquiring /\ req[h].job = "open"
    => hold[h] = "none"

(* Only a writer flushes, and a flush asks for the write lock; only a read *)
(* handle is opened anew.                                                  *)
Suits(h, r) ==
  /\ Flushes(r) => r.want = "write" /\ h \in Writers
  /\ r.job \in {"relock", "reopen"} => h \in Tables

JobFits ==
  \A h \in Handle :
    /\ pc[h] = "flushing" => h \in Writers
    /\ pc[h] = "locked" => h \in Tables
    /\ pc[h] \in Acquiring => Suits(h, req[h])

(* The process of a writer that counts on the write lock has it recorded.  *)
WriterHolds ==
  \A h \in Writers :
    /\ Owner[h] \notin ro
    /\ hold[h] = "write" \/ pc[h] = "flushing"
    => lf[Owner[h]].held = "write"

(* The kernel's rule: a write lock excludes the other processes.           *)
Exclusive ==
  \A p, q \in Proc : p # q /\ lf[p].kernel = "write" => lf[q].kernel = "none"

(* Counts fit the list, also those a process read earlier.                 *)
ListBounded ==
  /\ list.n <= ReqLimit
  /\ \A h \in Handle :
       /\ saved[h].n <= ReqLimit
       /\ pc[h] \in {"adding", "counting"} => saved[h].n < ReqLimit

IInv ==
  /\ TypeOK
  /\ UsersOpen /\ OneInMutex /\ Uncovered /\ KernelTracked /\ Orphaned /\ ProbingAlone
  /\ IdleHold /\ JobFits /\ WriterHolds /\ KeptByTables /\ Exclusive /\ ListBounded
-----------------------------------------------------------------------------
(* Facts about the operators of LockFile.                                  *)

(* What the instance of a process becomes stays an instance.               *)
LEMMA InstanceTypes ==
  /\ Unheld \in Instance
  /\ EmptyList \in ReqList /\ EmptyList.n = 0
  /\ NoRequest \in Request
  /\ \A s \in Instance : ReleaseRead(s) \in Instance /\ ReleaseWrite(s) \in Instance
BY LockFileAssumption
DEF Unheld, Instance, LockState, EmptyList, ReqList, NoRequest, Request,
    ReleaseRead, ReleaseWrite

(* A list stays one when its count is rewritten.                           *)
LEMMA CountTypes ==
  ASSUME NEW l \in ReqList, NEW n \in Nat
  PROVE  [l EXCEPT !.n = n] \in ReqList /\ [l EXCEPT !.n = n].n = n
BY DEF ReqList

(* The entries remove_req_id keeps are no more than it read.               *)
LEMMA KeptBounded ==
  ASSUME NEW p, NEW read \in ReqList
  PROVE  /\ Kept(p, read) \subseteq 1..read.n
         /\ Cardinality(Kept(p, read)) \in Nat
         /\ Cardinality(Kept(p, read)) <= read.n
<1>1. Kept(p, read) \subseteq 1..read.n
  BY DEF Kept
<1>2. read.n \in Nat
  BY DEF ReqList
<1>3. IsFiniteSet(1..read.n) /\ Cardinality(1..read.n) = read.n
  <2>1. /\ IsFiniteSet(1..read.n)
        /\ Cardinality(1..read.n) = IF 1 > read.n THEN 0 ELSE read.n - 1 + 1
    BY <1>2, FS_Interval
  <2>. QED
    BY <1>2, <2>1
<1>4. IsFiniteSet(Kept(p, read)) /\ Cardinality(Kept(p, read)) <= Cardinality(1..read.n)
  BY <1>1, <1>3, FS_Subset
<1>5. Cardinality(Kept(p, read)) \in Nat
  BY <1>4, FS_CardinalityType
<1>. QED
  BY <1>1, <1>3, <1>4, <1>5

(* remove_req_id writes back a well-formed list no longer than the one it  *)
(* read.                                                                   *)
LEMMA WriteKeptBounded ==
  ASSUME NEW p \in Proc, NEW read \in ReqList, read.n <= ReqLimit,
         list \in ReqList, alive \subseteq Proc, WriteKept(p, read)
  PROVE  list' \in ReqList /\ list'.n <= ReqLimit
<1>. DEFINE keep == Kept(p, read)
            slot == [j \in 1..ReqLimit |->
                       IF \E i \in keep : Rank(i, keep) = j
                         THEN read.slot[CHOOSE i \in keep : Rank(i, keep) = j]
                         ELSE list.slot[j]]
<1>1. list' = [n |-> Cardinality(keep), slot |-> slot]
  BY DEF WriteKept
<1>2. Cardinality(keep) \in Nat /\ Cardinality(keep) <= read.n
  BY KeptBounded
<1>3. ReqLimit \in Nat /\ read.n \in Nat
  BY LockFileAssumption DEF ReqList
<1>4. ASSUME NEW j \in 1..ReqLimit
      PROVE  slot[j] \in Proc \cup {NoProc}
  <2>1. CASE \E i \in keep : Rank(i, keep) = j
    <3>. DEFINE c == CHOOSE i \in keep : Rank(i, keep) = j
    <3>1. c \in keep
      BY <2>1
    <3>2. read.slot[c] \in alive \ {p}
      BY <3>1 DEF Kept
    <3>. QED
      BY <2>1, <3>2
  <2>2. CASE ~\E i \in keep : Rank(i, keep) = j
    BY <2>2 DEF ReqList
  <2>. QED
    BY <2>1, <2>2
<1>5. slot \in [1..ReqLimit -> Proc \cup {NoProc}]
  BY <1>4
<1>. HIDE DEF keep, slot
<1>. QED
  BY <1>1, <1>2, <1>3, <1>5 DEF ReqList
-----------------------------------------------------------------------------
(* What the two ends of an acquire preserve.                               *)

(* An acquire may end well: the instance is the one the kernel could       *)
(* grant, and covers the request and whatever the process wrote under.     *)
LEMMA SucceedKeeps ==
  ASSUME IInv,
         NEW h \in Handle, NEW r \in Request, NEW s \in Instance,
         pc[h] \notin {"closed", "probing"},
         \A g \in Handle : Owner[g] = Owner[h] /\ pc[g] \in Acquiring => g = h,
         Owner[h] \notin ro \cup Racing => s.kernel = s.held,
         s.kernel = lf[Owner[h]].kernel \/ Grantable(Owner[h], s.kernel),
         lf[Owner[h]].held = "write" => s.held = "write",
         r.want = "write" => s.held = "write",
         Suits(h, r),
         Succeed(h, r, s),
         list' \in ReqList, list'.n <= ReqLimit,
         inuse' = inuse, alive' = alive, ro' = ro, probing' = probing
  PROVE  IInv'
<1>. DEFINE p == Owner[h]
            t == IF GivesBack(h, r) THEN ReleaseRead(s) ELSE s
<1>. USE DEF IInv
<1>1. p \in Proc /\ t \in Instance
  BY LockFileAssumption, InstanceTypes
<1>2. /\ lf' = [lf EXCEPT ![p] = t]
      /\ hold' = [hold EXCEPT ![h] = HoldAfter(h, r)]
      /\ pc' = [pc EXCEPT ![h] = IF Flushes(r) THEN "flushing"
                                ELSE IF r.job = "relock" THEN "locked" ELSE "ready"]
      /\ req' = [req EXCEPT ![h] = IF Flushes(r) THEN r ELSE NoRequest]
      /\ saved' = [saved EXCEPT ![h] = EmptyList]
      /\ users' = users /\ closing' = closing
  BY DEF Succeed
<1>20. /\ shared' \subseteq shared
       /\ kept' = kept \/ (kept' = [kept EXCEPT ![h] = hold[h]] /\ h \in Tables)
  <2>1. CASE r.job = "reopen"
    BY <2>1 DEF Succeed, LeaveToResults, TypeOK, Suits
  <2>2. CASE r.job # "reopen"
    BY <2>2 DEF Succeed, snapshots
  <2>. QED
    BY <2>1, <2>2
<1>21. \A g \in Handle \ {h} : kept'[g] = kept[g]
  BY <1>20 DEF TypeOK
<1>22. KeptByTables'
  BY <1>20 DEF KeptByTables, TypeOK
<1>3. HoldAfter(h, r) \in LockState
  BY DEF HoldAfter, TypeOK, LockState, Request
<1>4. TypeOK'
  BY <1>1, <1>2, <1>3, <1>20, InstanceTypes DEF TypeOK, PcState, Acquiring
<1>5. pc'[h] \in {"flushing", "ready", "locked"} /\ \A g \in Handle \ {h} : pc'[g] = pc[g]
  BY <1>2 DEF TypeOK
<1>6. UsersOpen'
  BY <1>2, <1>5, <1>21 DEF UsersOpen
<1>7. \A g \in Handle : Owner[g] = p => pc'[g] \notin Acquiring
  BY <1>5 DEF Acquiring
<1>8. OneInMutex'
  BY <1>5 DEF OneInMutex, Acquiring
<1>9. \A q \in Proc : lf'[q] = IF q = p THEN t ELSE lf[q]
  BY <1>1, <1>2 DEF TypeOK
<1>10. \A g \in Handle \ {h} : req'[g] = req[g] /\ hold'[g] = hold[g] /\ saved'[g] = saved[g]
  BY <1>2 DEF TypeOK
<1>11. Uncovered'
  BY <1>5, <1>7, <1>9, <1>10, LockFileAssumption DEF Uncovered, Covered, Degrades
<1>12. p \notin ro \cup Racing => t.kernel = t.held
  BY DEF ReleaseRead, Unheld
<1>13. KernelTracked'
  BY <1>2, <1>5, <1>7, <1>9, <1>10, <1>12, LockFileAssumption DEF KernelTracked, Acquiring
<1>23. Orphaned' /\ ProbingAlone'
  <2>1. Orphaned'
    BY <1>1, <1>2, <1>9 DEF Orphaned, UsersOpen
  <2>2. ProbingAlone'
    BY <1>2, <1>5 DEF ProbingAlone
  <2>. QED
    BY <2>1, <2>2
<1>14. IdleHold'
  BY <1>5, <1>10 DEF IdleHold, Acquiring
<1>15. JobFits'
  BY <1>2, <1>5, <1>10 DEF JobFits, Suits, TypeOK, Acquiring
<1>16. WriterHolds'
  <2>. SUFFICES ASSUME NEW g \in Writers,
                       Owner[g] \notin ro, hold'[g] = "write" \/ pc'[g] = "flushing"
                PROVE  lf'[Owner[g]].held = "write"
    BY DEF WriterHolds
  <2>1. g \in Handle /\ Owner[g] \in Proc
    BY TableLockAssumption, LockFileAssumption
  <2>2. s.held = "write" => t.held = "write"
    BY DEF ReleaseRead
  <2>3. CASE g # h
    BY <1>5, <1>9, <1>10, <2>1, <2>2, <2>3 DEF WriterHolds
  <2>4. CASE g = h /\ Flushes(r)
    BY <1>9, <2>1, <2>2, <2>4 DEF Suits
  <2>5. CASE g = h /\ ~Flushes(r)
    <3>1. hold'[h] = HoldAfter(h, r) /\ hold'[h] = "write"
      BY <1>2, <2>5 DEF TypeOK
    <3>2. r.want = "write" \/ hold[h] = "write"
      BY <2>5, <3>1 DEF HoldAfter
    <3>. QED
      BY <1>9, <2>1, <2>2, <2>5, <3>2 DEF WriterHolds
  <2>. QED
    BY <2>3, <2>4, <2>5
<1>17. t.kernel = "none" \/ t.kernel = lf[p].kernel \/ Grantable(p, t.kernel)
  BY DEF ReleaseRead, Unheld
<1>18. Exclusive'
  BY <1>1, <1>9, <1>17 DEF Exclusive, Grantable, Instance, LockState, TypeOK
<1>19. ListBounded'
  BY <1>2, <1>5, <1>10, InstanceTypes, LockFileAssumption
  DEF ListBounded, TypeOK
<1>. QED
  BY <1>4, <1>6, <1>8, <1>11, <1>13, <1>14, <1>15, <1>16, <1>18, <1>19, <1>22, <1>23

(* What is left when a snapshot of h goes, the instance being s by then:   *)
(* with the last owner the instance goes too, and its fd is to be closed.  *)
LEMMA LetGoForms ==
  ASSUME IInv, NEW h \in Handle, NEW s \in Instance, NEW other \in BOOLEAN,
         h \in users[Owner[h]], LetGo(h, s, other)
  PROVE  \E t \in Instance :
           /\ lf' = [lf EXCEPT ![Owner[h]] = t] /\ t.kernel = s.kernel
           /\ t = s \/ (t.held = "none" /\ users[Owner[h]] = {h} /\ ~other)
           /\ users' = [users EXCEPT ![Owner[h]] = IF other THEN @ ELSE @ \ {h}]
           /\ closing' \subseteq Proc
           /\ \A q \in Proc \ {Owner[h]} : q \in closing' <=> q \in closing
           /\ Owner[h] \notin closing' => t = s
           /\ Orphaned'
<1>. USE DEF IInv
<1>. DEFINE p == Owner[h]
            last == ~other /\ users[p] = {h}
            t == IF last THEN [s EXCEPT !.held = "none"] ELSE s
<1>1. p \in Proc
  BY LockFileAssumption
<1>2. t \in Instance /\ t.kernel = s.kernel /\ (last => t.held = "none")
  BY DEF Instance, LockState
<1>3. /\ lf' = [lf EXCEPT ![p] = t]
      /\ users' = [users EXCEPT ![p] = IF other THEN @ ELSE @ \ {h}]
      /\ closing' = IF last THEN closing \cup {p} ELSE closing
  <2>1. CASE other
    BY <1>1, <2>1 DEF LetGo, TypeOK
  <2>2. CASE ~other
    BY <1>1, <2>2 DEF LetGo, DetachLock, TypeOK
  <2>. QED
    BY <2>1, <2>2
<1>4. closing' \subseteq Proc
  BY <1>1, <1>3 DEF TypeOK
<1>5. /\ \A q \in Proc \ {p} : lf'[q] = lf[q] /\ users'[q] = users[q] /\ (q \in closing' <=> q \in closing)
      /\ lf'[p] = t /\ users'[p] = IF other THEN users[p] ELSE users[p] \ {h}
  BY <1>1, <1>3 DEF TypeOK
<1>6. Orphaned'
  <2>. SUFFICES ASSUME NEW q \in Proc \ Racing
                PROVE  /\ users'[q] = {} => lf'[q].held = "none" /\ (q \notin closing' => lf'[q].kernel = "none")
                       /\ q \in closing' => users'[q] = {}
    BY DEF Orphaned
  <2>1. CASE q # p
    BY <1>5, <2>1 DEF Orphaned
  <2>2. CASE q = p
    <3>1. q \notin closing
      BY <2>2 DEF Orphaned
    <3>2. users'[q] = {} => last
      BY <1>5, <2>2
    <3>3. q \in closing' <=> last
      BY <1>3, <2>2, <3>1
    <3>4. last => users'[q] = {}
      BY <1>5, <2>2
    <3>. QED
      BY <1>2, <1>5, <2>2, <3>2, <3>3, <3>4
  <2>. QED
    BY <2>1, <2>2
<1>. HIDE DEF t
<1>7. t = s \/ (t.held = "none" /\ users[p] = {h} /\ ~other)
  BY <1>2 DEF t
<1>8. p \notin closing' => t = s
  BY <1>3 DEF t
<1>. QED
  BY <1>2, <1>3, <1>4, <1>5, <1>6, <1>7, <1>8

(* An acquire may end badly: a handle that was opening goes away.          *)
LEMMA RefuseKeeps ==
  ASSUME IInv,
         NEW h \in Handle, NEW r \in Request,
         pc[h] \notin {"closed", "probing", "won"},
         \A g \in Handle : Owner[g] = Owner[h] /\ pc[g] \in Acquiring => g = h,
         r.job = "open" => hold[h] = "none",
         Refuse(h, r),
         list' \in ReqList, list'.n <= ReqLimit,
         inuse' = inuse, alive' = alive, ro' = ro, probing' = probing
  PROVE  IInv'
<1>. DEFINE p == Owner[h]
            gone == r.job = "open" /\ users[p] = {h} /\ kept[h] = "gone"
<1>. USE DEF IInv
<1>1. p \in Proc /\ lf[p] \in Instance /\ h \in users[p]
  BY LockFileAssumption DEF TypeOK, UsersOpen
<1>2. /\ pc' = [pc EXCEPT ![h] = IF r.job = "open" THEN "closed" ELSE "ready"]
      /\ req' = [req EXCEPT ![h] = NoRequest]
      /\ saved' = [saved EXCEPT ![h] = EmptyList]
      /\ UNCHANGED <<hold, shared, kept>>
  BY DEF Refuse, snapshots
<1>20. /\ \E t \in Instance :
             /\ lf' = [lf EXCEPT ![p] = t] /\ t.kernel = lf[p].kernel
             /\ t = lf[p] \/ (t.held = "none" /\ gone)
             /\ p \notin closing' => t = lf[p]
       /\ users' = [users EXCEPT ![p] = IF r.job = "open" /\ kept[h] = "gone" THEN @ \ {h} ELSE @]
       /\ closing' \subseteq Proc
       /\ \A q \in Proc \ {p} : q \in closing' <=> q \in closing
       /\ Orphaned'
  <2>1. CASE r.job = "open"
    <3>. DEFINE other == kept[h] # "gone"
    <3>1. LetGo(h, lf[p], other) /\ other \in BOOLEAN
      BY <2>1 DEF Refuse
    <3>. HIDE DEF other
    <3>2. PICK t \in Instance :
            /\ lf' = [lf EXCEPT ![Owner[h]] = t] /\ t.kernel = lf[p].kernel
            /\ t = lf[p] \/ (t.held = "none" /\ users[Owner[h]] = {h} /\ ~other)
            /\ users' = [users EXCEPT ![Owner[h]] = IF other THEN @ ELSE @ \ {h}]
            /\ closing' \subseteq Proc
            /\ \A q \in Proc \ {Owner[h]} : q \in closing' <=> q \in closing
            /\ Owner[h] \notin closing' => t = lf[p]
            /\ Orphaned'
      BY <1>1, <3>1, LetGoForms
    <3>3. users' = [users EXCEPT ![p] = IF r.job = "open" /\ kept[h] = "gone" THEN @ \ {h} ELSE @]
      BY <2>1, <3>2 DEF other
    <3>4. t = lf[p] \/ (t.held = "none" /\ gone)
      BY <2>1, <3>2 DEF other
    <3>. HIDE DEF gone
    <3>. QED
      BY <3>2, <3>3, <3>4
  <2>2. CASE r.job # "open"
    <3>1. UNCHANGED <<lf, users, closing>>
      BY <2>2 DEF Refuse
    <3>. QED
      BY <1>1, <2>2, <3>1 DEF TypeOK, Orphaned
  <2>. QED
    BY <2>1, <2>2
<1>21. PICK t \in Instance : /\ lf' = [lf EXCEPT ![p] = t] /\ t.kernel = lf[p].kernel
                             /\ t = lf[p] \/ (t.held = "none" /\ gone)
                             /\ p \notin closing' => t = lf[p]
  BY <1>20
<1>3. pc'[h] \in {"closed", "ready"} /\ \A g \in Handle \ {h} : pc'[g] = pc[g]
  BY <1>2 DEF TypeOK
<1>4. \A q \in Proc : lf'[q] = IF q = p THEN t ELSE lf[q]
  BY <1>1, <1>21 DEF TypeOK
<1>5. \A g \in Handle \ {h} : req'[g] = req[g] /\ saved'[g] = saved[g]
  BY <1>2 DEF TypeOK
<1>6. TypeOK'
  BY <1>1, <1>2, <1>20, <1>21, InstanceTypes DEF TypeOK, PcState
<1>7. UsersOpen'
  <2>1. (pc'[h] = "closed") <=> (r.job = "open")
    BY <1>2 DEF TypeOK
  <2>2. /\ \A q \in Proc \ {p} : users'[q] = users[q]
        /\ users'[p] = IF r.job = "open" /\ kept[h] = "gone" THEN users[p] \ {h} ELSE users[p]
    BY <1>1, <1>20 DEF TypeOK
  <2>. QED
    BY <1>1, <1>2, <1>3, <2>1, <2>2 DEF UsersOpen
<1>8. \A g \in Handle : Owner[g] = p => pc'[g] \notin Acquiring
  BY <1>3 DEF Acquiring
<1>9. OneInMutex'
  BY <1>3 DEF OneInMutex, Acquiring
<1>10. Uncovered'
  BY <1>3, <1>4, <1>5, <1>8, LockFileAssumption DEF Uncovered, Covered, Degrades
<1>11. \A g \in Handle : Owner[g] = p => pc[g] # "won"
  BY DEF Acquiring
<1>22. p \notin Racing => p \notin closing
  BY <1>1 DEF Orphaned
<1>12. KernelTracked'
  BY <1>3, <1>4, <1>5, <1>8, <1>11, <1>20, <1>21, <1>22, LockFileAssumption
  DEF KernelTracked, Acquiring
<1>13. IdleHold' /\ KeptByTables'
  BY <1>2, <1>3, <1>5 DEF IdleHold, KeptByTables, Acquiring, TypeOK
<1>23. ProbingAlone'
  <2>1. \A g \in Handle : Owner[g] = p => pc[g] # "probing"
    BY <1>1 DEF ProbingAlone
  <2>2. \A q \in Proc \ {p} : users'[q] = users[q]
    BY <1>1, <1>20 DEF TypeOK
  <2>3. \A g \in Handle : pc'[g] = "probing" => pc[g] = "probing" /\ Owner[g] \in Proc \ {p}
    BY <1>3, <2>1, LockFileAssumption
  <2>. QED
    BY <1>20, <2>2, <2>3 DEF ProbingAlone
<1>14. JobFits'
  BY <1>3, <1>5 DEF JobFits, Acquiring
<1>15. WriterHolds'
  <2>. SUFFICES ASSUME NEW g \in Writers,
                       Owner[g] \notin ro, hold[g] = "write" \/ pc'[g] = "flushing"
                PROVE  lf'[Owner[g]].held = "write"
    BY <1>2 DEF WriterHolds
  <2>1. g \in Handle /\ Owner[g] \in Proc
    BY TableLockAssumption, LockFileAssumption
  <2>2. lf[Owner[g]].held = "write"
    BY <1>3, <2>1 DEF WriterHolds
  <2>3. ~(gone /\ Owner[g] = p)
    BY <1>1, <1>3, <2>1 DEF UsersOpen, IdleHold, Acquiring
  <2>. QED
    BY <1>4, <1>21, <2>1, <2>2, <2>3
<1>16. Exclusive'
  BY <1>4, <1>21 DEF Exclusive
<1>17. ListBounded'
  BY <1>2, <1>3, <1>5, InstanceTypes, LockFileAssumption DEF ListBounded, TypeOK
<1>. QED
  BY <1>6, <1>7, <1>9, <1>10, <1>12, <1>13, <1>14, <1>15, <1>16, <1>17, <1>20, <1>23
(* An acquire as a whole: granted, refused, or sent to wait.               *)
LEMMA AcquireKeeps ==
  ASSUME IInv,
         NEW h \in Handle, NEW r \in Request,
         pc[h] \in {"attached", "ready", "locked"}, MutexFree(Owner[h]),
         r.job = "open" => hold[h] = "none",
         Suits(h, r),
         Acquire(h, r)
  PROVE  IInv'
<1>. DEFINE p == Owner[h]
            s == Acquired(p, r.want)
<1>. USE DEF IInv
<1>1. p \in Proc /\ lf[p] \in Instance /\ r.want \in {"read", "write"}
  BY LockFileAssumption DEF TypeOK, Request
<1>2. /\ list' = list /\ inuse' = inuse /\ alive' = alive /\ ro' = ro /\ probing' = probing
      /\ list' \in ReqList /\ list'.n <= ReqLimit
  BY DEF Acquire, TypeOK, ListBounded
<1>3. \A g \in Handle : Owner[g] = p => pc[g] \notin Acquiring
  BY DEF MutexFree
<1>4. CASE Immediate(p, r.want) /\ Succeed(h, r, s)
  <2>1. s \in Instance
    BY <1>1 DEF Acquired, Instance, LockState
  <2>2. p \notin ro \cup Racing => lf[p].kernel = lf[p].held
    BY <1>1, <1>3 DEF KernelTracked, Acquiring, Orphaned, UsersOpen
  <2>3. p \notin ro \cup Racing => s.kernel = s.held
    BY <1>1, <2>2 DEF Acquired, Degrades, Instance
  <2>4. s.kernel = lf[p].kernel \/ Grantable(p, s.kernel)
    BY <1>1, <1>4 DEF Acquired, Immediate, Instance
  <2>5. /\ lf[p].held = "write" => s.held = "write"
        /\ r.want = "write" => s.held = "write"
    BY <1>1 DEF Acquired, Degrades, Covered, Instance
  <2>. QED
    BY <1>2, <1>3, <1>4, <2>1, <2>3, <2>4, <2>5, SucceedKeeps
<1>5. CASE Refuse(h, r)
  BY <1>2, <1>3, <1>5, RefuseKeeps
<1>6. CASE /\ ~Immediate(p, r.want)
           /\ pc' = [pc EXCEPT ![h] = IF AddSkips(p) THEN "wait" ELSE "adding"]
           /\ req' = [req EXCEPT ![h] = r]
           /\ saved' = [saved EXCEPT ![h] = IF AddSkips(p) THEN EmptyList
                                              ELSE [EmptyList EXCEPT !.n = list.n]]
           /\ UNCHANGED <<lf, users, closing, hold, snapshots>>
  <2>1. pc'[h] \in {"wait", "adding"} /\ req'[h] = r
    BY <1>6 DEF TypeOK
  <2>2. \A g \in Handle \ {h} : pc'[g] = pc[g] /\ req'[g] = req[g] /\ saved'[g] = saved[g]
    BY <1>6 DEF TypeOK
  <2>3. /\ saved'[h] \in ReqList /\ saved'[h].n <= ReqLimit
        /\ pc'[h] = "adding" => saved'[h].n < ReqLimit
    <3>1. saved'[h] = IF AddSkips(p) THEN EmptyList ELSE [EmptyList EXCEPT !.n = list.n]
      BY <1>6 DEF TypeOK
    <3>2. list.n \in Nat /\ list.n <= ReqLimit
      BY <1>2 DEF ReqList
    <3>3. CASE AddSkips(p)
      BY <1>6, <2>1, <3>1, <3>3, InstanceTypes, LockFileAssumption DEF TypeOK
    <3>4. CASE ~AddSkips(p)
      <4>1. list.n < ReqLimit
        BY <3>2, <3>4, LockFileAssumption DEF AddSkips
      <4>. QED
        BY <3>1, <3>2, <3>4, <4>1, InstanceTypes, CountTypes
    <3>. QED
      BY <3>3, <3>4
  <2>4. TypeOK'
    BY <1>2, <1>6, <2>3 DEF TypeOK, PcState, Acquiring, snapshots
  <2>5. UsersOpen' /\ OneInMutex'
    BY <1>3, <1>6, <2>1, <2>2 DEF UsersOpen, OneInMutex, Acquiring, snapshots
  <2>11. Orphaned' /\ ProbingAlone' /\ KeptByTables'
    BY <1>6, <2>1, <2>2 DEF Orphaned, ProbingAlone, KeptByTables, snapshots
  <2>6. Uncovered'
    BY <1>2, <1>6, <2>1, <2>2 DEF Uncovered, Immediate, Covered, Degrades
  <2>7. KernelTracked'
    BY <1>2, <1>6, <2>1, <2>2 DEF KernelTracked
  <2>8. IdleHold' /\ JobFits'
    BY <1>6, <2>1, <2>2 DEF IdleHold, JobFits, Acquiring
  <2>9. WriterHolds' /\ Exclusive'
    BY <1>2, <1>6, <2>1, <2>2, TableLockAssumption DEF WriterHolds, Exclusive
  <2>10. ListBounded'
    BY <1>2, <2>1, <2>2, <2>3 DEF ListBounded
  <2>. QED
    BY <2>4, <2>5, <2>6, <2>7, <2>8, <2>9, <2>10, <2>11
<1>. QED
  BY <1>4, <1>5, <1>6 DEF Acquire

-----------------------------------------------------------------------------
(* The steps of an acquire that has to wait.                               *)

LEMMA AddEntryKeeps ==
  ASSUME IInv, NEW h \in Handle, AddEntry(h)
  PROVE  IInv'
<1>. USE DEF IInv
<1>. DEFINE i == saved[h].n + 1
            e == Owner[h]
<1>1. /\ pc' = [pc EXCEPT ![h] = "counting"] /\ pc[h] = "adding"
      /\ UNCHANGED <<lf, inuse, users, alive, ro, probing, closing, hold, req, saved, shared, kept>>
      /\ list' = [list EXCEPT !.slot[i] = e]
  BY DEF AddEntry, WriteEntry, snapshots
<1>2. list' \in ReqList /\ list'.n = list.n
  BY <1>1, LockFileAssumption DEF TypeOK, ReqList
<1>3. pc'[h] = "counting" /\ \A g \in Handle \ {h} : pc'[g] = pc[g]
  BY <1>1 DEF TypeOK
<1>4. TypeOK'
  BY <1>1, <1>2 DEF TypeOK, PcState, Acquiring
<1>5. UsersOpen' /\ OneInMutex' /\ Uncovered'
  BY <1>1, <1>3 DEF UsersOpen, OneInMutex, Uncovered, Covered, Degrades, Acquiring
<1>6. KernelTracked' /\ IdleHold' /\ JobFits'
  BY <1>1, <1>3 DEF KernelTracked, IdleHold, JobFits, Acquiring
<1>7. WriterHolds' /\ Exclusive' /\ ListBounded'
  BY <1>1, <1>2, <1>3, TableLockAssumption DEF WriterHolds, Exclusive, ListBounded
<1>8. Orphaned' /\ ProbingAlone' /\ KeptByTables'
  BY <1>1, <1>3 DEF Orphaned, ProbingAlone, KeptByTables
<1>. QED
  BY <1>4, <1>5, <1>6, <1>7, <1>8

LEMMA AddCountKeeps ==
  ASSUME IInv, NEW h \in Handle, AddCount(h)
  PROVE  IInv'
<1>. USE DEF IInv
<1>1. /\ pc' = [pc EXCEPT ![h] = "wait"] /\ pc[h] = "counting"
      /\ saved' = [saved EXCEPT ![h] = EmptyList]
      /\ UNCHANGED <<lf, inuse, users, alive, ro, probing, closing, hold, req, shared, kept>>
      /\ list' = [list EXCEPT !.n = saved[h].n + 1]
  BY DEF AddCount, WriteCount, snapshots
<1>2. saved[h].n + 1 \in Nat /\ saved[h].n + 1 <= ReqLimit
  BY <1>1, LockFileAssumption DEF TypeOK, ReqList, ListBounded
<1>3. list' \in ReqList /\ list'.n <= ReqLimit
  BY <1>1, <1>2, CountTypes DEF TypeOK
<1>4. /\ pc'[h] = "wait" /\ saved'[h] = EmptyList
      /\ \A g \in Handle \ {h} : pc'[g] = pc[g] /\ saved'[g] = saved[g]
  BY <1>1 DEF TypeOK
<1>5. TypeOK'
  BY <1>1, <1>3, InstanceTypes DEF TypeOK, PcState, Acquiring
<1>6. UsersOpen' /\ OneInMutex' /\ Uncovered'
  BY <1>1, <1>4 DEF UsersOpen, OneInMutex, Uncovered, Covered, Degrades, Acquiring
<1>7. KernelTracked' /\ IdleHold' /\ JobFits'
  BY <1>1, <1>4 DEF KernelTracked, IdleHold, JobFits, Acquiring
<1>8. WriterHolds' /\ Exclusive'
  BY <1>1, <1>4, TableLockAssumption DEF WriterHolds, Exclusive
<1>9. ListBounded'
  BY <1>3, <1>4, InstanceTypes, LockFileAssumption DEF ListBounded
<1>10. Orphaned' /\ ProbingAlone' /\ KeptByTables'
  BY <1>1, <1>4 DEF Orphaned, ProbingAlone, KeptByTables
<1>. QED
  BY <1>5, <1>6, <1>7, <1>8, <1>9, <1>10

LEMMA GrantedKeeps ==
  ASSUME IInv, NEW h \in Handle, Granted(h)
  PROVE  IInv'
<1>. USE DEF IInv
<1>. DEFINE p == Owner[h]
            t == req[h].want
<1>1. p \in Proc /\ t \in {"read", "write"} /\ lf[p] \in Instance
  BY LockFileAssumption DEF TypeOK, Request
<1>2. /\ pc[h] = "wait" /\ Grantable(p, t)
      /\ lf' = [lf EXCEPT ![p].kernel = t]
      /\ pc' = [pc EXCEPT ![h] = "won"]
      /\ UNCHANGED <<inuse, users, list, alive, ro, probing, closing, hold, req, saved, shared, kept>>
  BY DEF Granted, snapshots
<1>3. /\ lf'[p].kernel = t /\ lf'[p].held = lf[p].held /\ lf'[p] \in Instance
      /\ \A q \in Proc \ {p} : lf'[q] = lf[q]
  BY <1>1, <1>2 DEF TypeOK, Instance, LockState
<1>4. pc'[h] = "won" /\ \A g \in Handle \ {h} : pc'[g] = pc[g]
  BY <1>2 DEF TypeOK
<1>5. \A g \in Handle \ {h} : Owner[g] = p => pc[g] \notin Acquiring
  BY <1>2 DEF OneInMutex, Acquiring
<1>6. TypeOK'
  BY <1>1, <1>2, <1>3 DEF TypeOK, PcState, Acquiring
<1>7. UsersOpen' /\ OneInMutex'
  BY <1>2, <1>4 DEF UsersOpen, OneInMutex, Acquiring
<1>8. Uncovered'
  BY <1>2, <1>3, <1>4, LockFileAssumption DEF Uncovered, Covered, Degrades, Acquiring
<1>9. KernelTracked'
  BY <1>2, <1>3, <1>4, <1>5, LockFileAssumption DEF KernelTracked, Acquiring
<1>10. IdleHold' /\ JobFits' /\ ListBounded'
  BY <1>2, <1>4 DEF IdleHold, JobFits, ListBounded, Acquiring
<1>11. WriterHolds'
  BY <1>2, <1>3, <1>4, TableLockAssumption, LockFileAssumption DEF WriterHolds
<1>12. Exclusive'
  BY <1>1, <1>2, <1>3 DEF Exclusive, Grantable
<1>13. Orphaned' /\ ProbingAlone' /\ KeptByTables'
  BY <1>1, <1>2, <1>3, <1>4 DEF Orphaned, ProbingAlone, KeptByTables, UsersOpen
<1>. QED
  BY <1>6, <1>7, <1>8, <1>9, <1>10, <1>11, <1>12, <1>13

(* GiveUp and ReadList move one handle between two points of its acquire.  *)
LEMMA WaitingKeeps ==
  ASSUME IInv, NEW h \in Handle, GiveUp(h) \/ ReadList(h)
  PROVE  IInv'
<1>. USE DEF IInv
<1>1. /\ UNCHANGED <<lockVars, hold, req, shared, kept>>
      /\ pc' = pc \/ (pc' = [pc EXCEPT ![h] = "lost"] /\ pc[h] = "wait")
      /\ saved' = saved \/ (saved' = [saved EXCEPT ![h] = list] /\ pc' = pc /\ pc[h] \in {"won", "lost"})
  BY DEF GiveUp, ReadList, snapshots
<1>2. \A g \in Handle : pc'[g] = pc[g] \/ (pc[g] = "wait" /\ pc'[g] = "lost")
  BY <1>1 DEF TypeOK
<1>3. \A g \in Handle :
        \/ saved'[g] = saved[g]
        \/ saved'[g] = list /\ pc'[g] \in {"won", "lost"}
  BY <1>1 DEF TypeOK
<1>4. TypeOK'
  BY <1>1 DEF TypeOK, PcState, Acquiring, lockVars
<1>5. UsersOpen' /\ OneInMutex' /\ Uncovered'
  BY <1>1, <1>2 DEF UsersOpen, OneInMutex, Uncovered, Covered, Degrades, Acquiring, lockVars
<1>6. KernelTracked' /\ IdleHold' /\ JobFits'
  BY <1>1, <1>2 DEF KernelTracked, IdleHold, JobFits, Acquiring, lockVars
<1>7. WriterHolds' /\ Exclusive'
  BY <1>1, <1>2, TableLockAssumption DEF WriterHolds, Exclusive, lockVars
<1>8. ListBounded'
  BY <1>1, <1>2, <1>3 DEF ListBounded, lockVars
<1>9. Orphaned' /\ ProbingAlone' /\ KeptByTables'
  BY <1>1, <1>2 DEF Orphaned, ProbingAlone, KeptByTables, lockVars
<1>. QED
  BY <1>4, <1>5, <1>6, <1>7, <1>8, <1>9

LEMMA WaitFailsKeeps ==
  ASSUME IInv, NEW h \in Handle, WaitFails(h)
  PROVE  IInv'
<1>1. /\ pc[h] = "wait" /\ Refuse(h, req[h]) /\ req[h] \in Request
      /\ list' = list /\ inuse' = inuse /\ alive' = alive /\ ro' = ro /\ probing' = probing
      /\ list \in ReqList /\ list.n <= ReqLimit
  BY DEF WaitFails, IInv, TypeOK, ListBounded
<1>2. \A g \in Handle : Owner[g] = Owner[h] /\ pc[g] \in Acquiring => g = h
  BY <1>1 DEF IInv, OneInMutex, Acquiring
<1>3. req[h].job = "open" => hold[h] = "none"
  BY <1>1 DEF IInv, IdleHold, Acquiring
<1>. QED
  BY <1>1, <1>2, <1>3, RefuseKeeps

LEMMA LeaveListKeeps ==
  ASSUME IInv, NEW h \in Handle, LeaveList(h)
  PROVE  IInv'
<1>. DEFINE p == Owner[h]
            r == req[h]
            s == [lf[p] EXCEPT !.held = r.want]
<1>. USE DEF IInv
<1>1. p \in Proc /\ lf[p] \in Instance /\ r \in Request /\ r.want \in {"read", "write"}
  BY LockFileAssumption DEF TypeOK, Request
<1>2. pc[h] \in {"won", "lost"} /\ inuse' = inuse /\ alive' = alive /\ ro' = ro /\ probing' = probing
  BY DEF LeaveList
<1>3. list' \in ReqList /\ list'.n <= ReqLimit
  <2>1. list \in ReqList /\ list.n <= ReqLimit /\ saved[h] \in ReqList /\ saved[h].n <= ReqLimit
    BY DEF TypeOK, ListBounded
  <2>2. list' = list \/ WriteKept(p, saved[h])
    BY DEF LeaveList
  <2>. QED
    BY <1>1, <2>1, <2>2, WriteKeptBounded DEF TypeOK
<1>4. \A g \in Handle : Owner[g] = p /\ pc[g] \in Acquiring => g = h
  BY <1>2 DEF OneInMutex, Acquiring
<1>5. r.job = "open" => hold[h] = "none"
  BY <1>2 DEF IdleHold, Acquiring
<1>6. Suits(h, r)
  BY <1>2 DEF JobFits, Acquiring
<1>7. CASE pc[h] = "won"
  <2>1. Succeed(h, r, s)
    BY <1>7 DEF LeaveList
  <2>2. (p \notin Racing => lf[p].kernel = r.want) /\ lf[p].held # "write"
    BY <1>1, <1>7 DEF KernelTracked, Uncovered, Covered, Acquiring
  <2>3. s \in Instance /\ s.kernel = lf[p].kernel /\ s.held = r.want
    BY <1>1 DEF Instance, LockState
  <2>. HIDE DEF s
  <2>. QED
    BY <1>1, <1>2, <1>3, <1>4, <1>6, <2>1, <2>2, <2>3, SucceedKeeps
<1>8. CASE pc[h] = "lost"
  <2>1. Refuse(h, r)
    BY <1>8 DEF LeaveList
  <2>. QED
    BY <1>1, <1>2, <1>3, <1>4, <1>5, <1>8, <2>1, RefuseKeeps
<1>. QED
  BY <1>2, <1>7, <1>8
-----------------------------------------------------------------------------
(* The operations.                                                         *)

(* Opening and locking are acquires.                                       *)
LEMMA OpenKeeps ==
  ASSUME IInv, NEW h \in Handle, OpenTable(h) \/ OpenWriter(h)
  PROVE  IInv'
<1>. USE DEF IInv
<1>1. pc[h] = "attached" /\ MutexFree(Owner[h]) /\ hold[h] = "none"
  BY DEF OpenTable, OpenWriter, At, IdleHold
<1>2. ASSUME NEW r \in Request, r.job = "open", Acquire(h, r)
      PROVE  IInv'
  BY <1>1, <1>2, AcquireKeeps DEF Suits, Flushes
<1>3. CASE UNCHANGED <<lockVars, hold, req, saved, snapshots>> /\ pc' = [pc EXCEPT ![h] = "ready"]
  <2>1. pc'[h] = "ready" /\ \A g \in Handle \ {h} : pc'[g] = pc[g]
    BY <1>3 DEF TypeOK
  <2>2. TypeOK'
    BY <1>3 DEF TypeOK, PcState, lockVars, snapshots
  <2>3. UsersOpen' /\ OneInMutex' /\ Uncovered'
    BY <1>1, <1>3, <2>1
    DEF UsersOpen, OneInMutex, Uncovered, Covered, Degrades, Acquiring, lockVars, snapshots
  <2>6. Orphaned' /\ ProbingAlone' /\ KeptByTables'
    BY <1>3, <2>1 DEF Orphaned, ProbingAlone, KeptByTables, lockVars, snapshots
  <2>4. KernelTracked' /\ IdleHold' /\ JobFits'
    BY <1>1, <1>3, <2>1 DEF KernelTracked, IdleHold, JobFits, Acquiring, lockVars
  <2>5. WriterHolds' /\ Exclusive' /\ ListBounded'
    BY <1>3, <2>1, TableLockAssumption DEF WriterHolds, Exclusive, ListBounded, lockVars
  <2>. QED
    BY <2>2, <2>3, <2>4, <2>5, <2>6
<1>4. CASE \E r \in Request : r.job = "open" /\ Acquire(h, r)
  BY <1>2, <1>4
<1>5. \A t \in {"read", "write"}, n \in {"once", "some", "block"} :
        [job |-> "open", want |-> t, tries |-> n] \in Request
  BY DEF Request
<1>6. CASE OpenTable(h)
  BY <1>3, <1>4, <1>5, <1>6 DEF OpenTable
<1>7. CASE OpenWriter(h)
  BY <1>3, <1>4, <1>5, <1>7 DEF OpenWriter
<1>. QED
  BY <1>6, <1>7

LEMMA LockKeeps ==
  ASSUME IInv, NEW h \in Handle, LockTable(h) \/ LockWriter(h) \/ Relock(h)
  PROVE  IInv'
<1>1. ASSUME NEW job \in {"lock", "relock"}, job = "relock" => h \in Tables,
             NEW t \in {"read", "write"}, NEW n \in Patience,
             pc[h] = "ready", MutexFree(Owner[h]),
             Acquire(h, [job |-> job, want |-> t, tries |-> n])
      PROVE  IInv'
  <2>. DEFINE r == [job |-> job, want |-> t, tries |-> n]
  <2>1. r \in Request /\ r.job = job
    BY TableLockAssumption DEF Request
  <2>2. Suits(h, r)
    BY <1>1 DEF Suits, Flushes
  <2>. HIDE DEF r
  <2>. QED
    BY <1>1, <2>1, <2>2, AcquireKeeps DEF r
<1>2. CASE LockTable(h)
  BY <1>1, <1>2 DEF LockTable, At
<1>3. CASE LockWriter(h)
  BY <1>1, <1>3 DEF LockWriter, At
<1>4. CASE Relock(h)
  BY <1>1, <1>4 DEF Relock, At
<1>. QED
  BY <1>2, <1>3, <1>4

(* The new snapshot of a read handle acquires again, or keeps what its     *)
(* process has.                                                            *)
LEMMA ReopenKeeps ==
  ASSUME IInv, NEW h \in Handle, Reopen(h)
  PROVE  IInv'
<1>1. pc[h] = "locked" /\ MutexFree(Owner[h]) /\ h \in Tables
  BY DEF Reopen, At, IInv, JobFits
<1>2. ASSUME NEW n \in {"once", "block"},
             Acquire(h, [job |-> "reopen", want |-> "read", tries |-> n])
      PROVE  IInv'
  <2>. DEFINE r == [job |-> "reopen", want |-> "read", tries |-> n]
  <2>1. r \in Request /\ r.job = "reopen" /\ Suits(h, r)
    BY <1>1 DEF Request, Suits, Flushes
  <2>. HIDE DEF r
  <2>. QED
    BY <1>1, <1>2, <2>1, AcquireKeeps DEF r
<1>3. ASSUME Succeed(h, [job |-> "reopen", want |-> "read", tries |-> "once"],
                     lf[Owner[h]]),
             UNCHANGED <<inuse, list, alive, ro, probing>>
      PROVE  IInv'
  <2>. DEFINE r == [job |-> "reopen", want |-> "read", tries |-> "once"]
  <2>1. r \in Request /\ r.want = "read" /\ Suits(h, r)
    BY <1>1 DEF Request, Suits, Flushes
  <2>2. \A g \in Handle : Owner[g] = Owner[h] => pc[g] \notin Acquiring
    BY <1>1 DEF MutexFree
  <2>3. Owner[h] \notin ro \cup Racing => lf[Owner[h]].kernel = lf[Owner[h]].held
    BY <1>1, <2>2, LockFileAssumption DEF IInv, KernelTracked, Acquiring, Orphaned, UsersOpen
  <2>4. /\ lf[Owner[h]] \in Instance
        /\ list' \in ReqList /\ list'.n <= ReqLimit
        /\ inuse' = inuse /\ alive' = alive /\ ro' = ro /\ probing' = probing
    BY <1>3, LockFileAssumption DEF IInv, TypeOK, ListBounded
  <2>. HIDE DEF r
  <2>. QED
    BY <1>1, <1>3, <2>1, <2>2, <2>3, <2>4, SucceedKeeps DEF r
<1>. QED
  BY <1>2, <1>3 DEF Reopen

(* A handle joins the instance its process has, or opens a new one: then   *)
(* every handle of the process is closed, and believes in no lock.         *)
LEMMA NewInstanceKeeps ==
  ASSUME IInv, NEW h \in Handle, NEW c \in {"probing", "attached"},
         Unattached(Owner[h]), RegistryFree(Owner[h]), pc[h] = "closed", Anew(Owner[h]),
         \/ ro' = ro \ {Owner[h]} /\ c = "probing" /\ users' = users
         \/ /\ ro' = ro \cup {Owner[h]} /\ c = "attached"
            /\ users' = [users EXCEPT ![Owner[h]] = @ \cup {h}],
         pc' = [pc EXCEPT ![h] = c],
         inuse' \subseteq Proc, probing' \subseteq Proc,
         UNCHANGED <<closing, list, alive, hold, req, saved, shared, kept>>
  PROVE  IInv'
<1>. USE DEF IInv
<1>. DEFINE p == Owner[h]
            s == [lf[p] EXCEPT !.held = "none"]
<1>1. /\ p \in Proc /\ users[p] = {} /\ s \in Instance
      /\ s.held = "none" /\ s.kernel = lf[p].kernel /\ (p \notin Racing => s.kernel = "none")
  <2>1. p \in Proc /\ users[p] = {} /\ lf[p] \in Instance
    BY LockFileAssumption DEF Unattached, TypeOK
  <2>2. s \in Instance /\ s.held = "none" /\ s.kernel = lf[p].kernel
    BY <2>1 DEF Instance, LockState
  <2>3. p \notin Racing => lf[p].kernel = "none"
    BY <2>1 DEF Unattached, Orphaned
  <2>. QED
    BY <2>1, <2>2, <2>3
<1>2. pc'[h] = c /\ \A g \in Handle \ {h} : pc'[g] = pc[g]
  BY DEF TypeOK
<1>3. lf' = [lf EXCEPT ![p] = s] /\ \A q \in Proc : lf'[q] = IF q = p THEN s ELSE lf[q]
  BY <1>1 DEF TypeOK, Anew
<1>. HIDE DEF s
<1>4. \A g \in Handle : Owner[g] = p => /\ pc[g] \in {"closed", "probing"} /\ hold[g] = "none"
                                        /\ kept[g] = "gone"
  BY <1>1 DEF UsersOpen, IdleHold
<1>5. \A q \in Proc \ {p} : q \in ro' <=> q \in ro
  OBVIOUS
<1>6. TypeOK'
  BY <1>1, <1>3, InstanceTypes DEF TypeOK, PcState
<1>7. UsersOpen'
  BY <1>1, <1>2, <1>4 DEF UsersOpen, TypeOK
<1>8. \A g \in Handle : Owner[g] = p => pc'[g] \in {"closed", "probing", "attached"}
  BY <1>2, <1>4
<1>9. OneInMutex'
  BY <1>2, <1>8 DEF OneInMutex, Acquiring
<1>10. Uncovered'
  BY <1>2, <1>3, <1>5, <1>8, LockFileAssumption DEF Uncovered, Covered, Degrades, Acquiring
<1>11. KernelTracked'
  BY <1>1, <1>2, <1>3, <1>5, <1>8, LockFileAssumption DEF KernelTracked
<1>16. Orphaned'
  <2>1. \A q \in Proc \ {p} : users'[q] = users[q]
    BY <1>1 DEF TypeOK
  <2>2. p \notin Racing => p \notin closing
    BY DEF Unattached
  <2>. QED
    BY <1>1, <1>3, <2>1, <2>2 DEF Orphaned
<1>17. KeptByTables'
  BY DEF KeptByTables
<1>18. ProbingAlone'
  <2>1. /\ \A q \in Proc \ {p} : users'[q] = users[q]
        /\ c = "probing" => users'[p] = {}
    BY <1>1 DEF TypeOK
  <2>2. \A g \in Handle \ {h} : Owner[g] = p => pc'[g] # "probing"
    BY <1>2 DEF RegistryFree
  <2>3. p \notin Racing => p \notin closing
    BY DEF Unattached
  <2>. QED
    BY <1>1, <1>2, <2>1, <2>2, <2>3, LockFileAssumption DEF ProbingAlone
<1>12. IdleHold' /\ JobFits'
  BY <1>2, <1>4, <1>8 DEF IdleHold, JobFits, Acquiring
<1>13. WriterHolds'
  BY <1>2, <1>3, <1>4, <1>5, <1>8, TableLockAssumption, LockFileAssumption DEF WriterHolds
<1>14. Exclusive'
  BY <1>1, <1>3 DEF Exclusive
<1>15. ListBounded'
  BY <1>2 DEF ListBounded, Acquiring
<1>. QED
  BY <1>6, <1>7, <1>9, <1>10, <1>11, <1>12, <1>13, <1>14, <1>15, <1>16, <1>17, <1>18

(* A handle becomes one of the owners of an instance that exists.          *)
LEMMA JoinKeeps ==
  ASSUME IInv, NEW h \in Handle,
         pc[h] \in {"closed", "probing"},
         pc[h] = "closed" => users[Owner[h]] # {},
         users' = [users EXCEPT ![Owner[h]] = @ \cup {h}],
         pc' = [pc EXCEPT ![h] = "attached"],
         inuse' \subseteq Proc, probing' \subseteq Proc,
         UNCHANGED <<closing, list, alive, ro, lf, hold, req, saved, shared, kept>>
  PROVE  IInv'
<1>. USE DEF IInv
<1>1. Owner[h] \in Proc
  BY LockFileAssumption
<1>2. pc'[h] = "attached" /\ \A g \in Handle \ {h} : pc'[g] = pc[g]
  BY DEF TypeOK
<1>3. TypeOK'
  BY DEF TypeOK, PcState
<1>4. UsersOpen'
  BY <1>1, <1>2 DEF UsersOpen, TypeOK
<1>5. OneInMutex' /\ Uncovered' /\ KernelTracked'
  BY <1>2 DEF OneInMutex, Uncovered, Covered, Degrades, KernelTracked, Acquiring
<1>6. IdleHold' /\ JobFits'
  BY <1>2 DEF IdleHold, JobFits, Acquiring
<1>7. WriterHolds' /\ Exclusive' /\ ListBounded'
  BY <1>2, TableLockAssumption DEF WriterHolds, Exclusive, ListBounded, Acquiring
<1>8. /\ \A q \in Proc \ {Owner[h]} : users'[q] = users[q]
      /\ users'[Owner[h]] # {}
      /\ Owner[h] \notin Racing => Owner[h] \notin closing
  BY <1>1 DEF TypeOK, Orphaned, ProbingAlone
<1>9. Orphaned' /\ KeptByTables'
  BY <1>1, <1>8 DEF Orphaned, KeptByTables
<1>10. ProbingAlone'
  <2>1. \A g \in Handle \ {h} : Owner[g] = Owner[h] => pc[g] # "probing"
    BY DEF ProbingAlone
  <2>. QED
    BY <1>2, <1>8, <2>1, LockFileAssumption DEF ProbingAlone
<1>. QED
  BY <1>3, <1>4, <1>5, <1>6, <1>7, <1>9, <1>10

LEMMA AttachKeeps ==
  ASSUME IInv, NEW h \in Handle, Attach(h) \/ AttachProbed(h)
  PROVE  IInv'
<1>. DEFINE p == Owner[h]
<1>1. p \in Proc /\ inuse \subseteq Proc /\ probing \subseteq Proc
  BY LockFileAssumption DEF IInv, TypeOK
<1>2. CASE Attach(h) /\ ShareLock(h)
  <2>1. /\ pc[h] = "closed" /\ pc' = [pc EXCEPT ![h] = "attached"]
        /\ UNCHANGED <<hold, req, saved, shared, kept>>
    BY <1>2 DEF Attach, At, ShareLock, ProbeWrite, Unattached, snapshots
  <2>2. /\ users[p] # {} /\ users' = [users EXCEPT ![p] = @ \cup {h}]
        /\ UNCHANGED <<lf, inuse, list, alive, ro, probing, closing>>
    BY <1>2 DEF ShareLock
  <2>. QED
    BY <1>1, <2>1, <2>2, JoinKeeps
<1>3. CASE Attach(h) /\ ProbeWrite(h)
  <2>1. /\ pc[h] = "closed" /\ pc' = [pc EXCEPT ![h] = "probing"] /\ RegistryFree(p)
        /\ UNCHANGED <<hold, req, saved, shared, kept>>
    BY <1>3 DEF Attach, At, ProbeWrite, ShareLock, AttachReadOnly, Unattached, snapshots
  <2>2. /\ Unattached(p) /\ users' = users /\ ro' = ro \ {p}
        /\ Anew(p)
        /\ inuse' = inuse /\ probing' = {p}
        /\ UNCHANGED <<list, alive, closing>>
    BY <1>3 DEF ProbeWrite
  <2>. QED
    BY <1>1, <2>1, <2>2, NewInstanceKeeps
<1>4. CASE Attach(h) /\ AttachReadOnly(h)
  <2>1. /\ pc[h] = "closed" /\ pc' = [pc EXCEPT ![h] = "attached"] /\ RegistryFree(p)
        /\ UNCHANGED <<hold, req, saved, shared, kept>>
    BY <1>1, <1>4 DEF Attach, At, ProbeWrite, AttachReadOnly, snapshots
  <2>2. /\ Unattached(p) /\ users' = [users EXCEPT ![p] = @ \cup {h}]
        /\ ro' = ro \cup {p}
        /\ Anew(p)
        /\ inuse' = inuse \cup {p} /\ probing' = probing
        /\ UNCHANGED <<list, alive, closing>>
    BY <1>4 DEF AttachReadOnly, MarkInUse
  <2>. QED
    BY <1>1, <2>1, <2>2, NewInstanceKeeps
<1>5. CASE AttachProbed(h)
  <2>1. /\ pc[h] = "probing" /\ pc' = [pc EXCEPT ![h] = "attached"]
        /\ UNCHANGED <<hold, req, saved, shared, kept>>
    BY <1>5 DEF AttachProbed, At, snapshots
  <2>2. /\ users' = [users EXCEPT ![p] = @ \cup {h}]
        /\ inuse' = inuse \cup {p} /\ probing' = probing \ {p}
        /\ UNCHANGED <<list, alive, ro, lf, closing>>
    BY <1>5 DEF AttachProbed, EndProbe, MarkInUse
  <2>. QED
    BY <1>1, <2>1, <2>2, JoinKeeps
<1>. QED
  BY <1>2, <1>3, <1>4, <1>5 DEF Attach

(* A release by a handle h: the instance of the idle process becomes s.    *)
(* Nothing of another handle breaks as long as s keeps the write lock      *)
(* another writer of the process counts on.                                *)
LEMMA ReleaseKeeps ==
  ASSUME IInv,
         NEW h \in Handle, NEW s \in Instance,
         MutexFree(Owner[h]),
         s.kernel \in {"none", lf[Owner[h]].kernel}, s.held \in {"none", lf[Owner[h]].held},
         Owner[h] \notin ro \cup Racing \cup closing' => s.kernel = s.held,
         lf' = [lf EXCEPT ![Owner[h]] = s],
         \A g \in Handle \ {h} : pc'[g] = pc[g] /\ hold'[g] = hold[g] /\ req'[g] = req[g],
         pc'[h] \in {"closed", "ready", pc[h]},
         pc'[h] = pc[h] \/ hold'[h] = "none" \/ pc'[h] = "ready",
         hold'[h] \in {"none", hold[h]},
         \A g \in Writers :
           /\ Owner[g] = Owner[h] /\ Owner[g] \notin ro
           /\ lf[Owner[g]].held = "write"
           /\ hold'[g] = "write" \/ pc'[g] = "flushing"
           => s.held = "write",
         \A q \in Proc \ {Owner[h]} : q \in closing' <=> q \in closing,
         pc[h] \notin {"closed", "probing"} \/ kept[h] # "gone",
         TypeOK', UsersOpen', Orphaned', KeptByTables',
         \A q \in Proc \ {Owner[h]} : users'[q] = users[q],
         UNCHANGED <<list, alive, ro, probing, saved>>
  PROVE  IInv'
<1>. USE DEF IInv
<1>. DEFINE p == Owner[h]
<1>1. p \in Proc /\ h \in users[p]
  BY LockFileAssumption DEF UsersOpen
<1>2. \A q \in Proc : lf'[q] = IF q = p THEN s ELSE lf[q]
  BY <1>1 DEF TypeOK
<1>3. \A g \in Handle : Owner[g] = p => pc[g] \notin Acquiring /\ pc'[g] \notin Acquiring
  BY DEF MutexFree, Acquiring
<1>4. OneInMutex'
  BY <1>3 DEF OneInMutex, Acquiring
<1>5. Uncovered'
  BY <1>2, <1>3, LockFileAssumption DEF Uncovered, Covered, Degrades
<1>7. KernelTracked'
  BY <1>2, <1>3, LockFileAssumption DEF KernelTracked, Acquiring
<1>8. IdleHold' /\ JobFits'
  BY <1>3 DEF IdleHold, JobFits, Acquiring
<1>9. WriterHolds'
  <2>. SUFFICES ASSUME NEW g \in Writers,
                       Owner[g] \notin ro, hold'[g] = "write" \/ pc'[g] = "flushing"
                PROVE  lf'[Owner[g]].held = "write"
    BY DEF WriterHolds
  <2>1. g \in Handle /\ Owner[g] \in Proc
    BY TableLockAssumption, LockFileAssumption
  <2>2. lf[Owner[g]].held = "write"
    BY <2>1 DEF WriterHolds
  <2>. QED
    BY <1>2, <2>1, <2>2
<1>10. Exclusive'
  BY <1>2 DEF Exclusive
<1>11. ListBounded'
  BY <1>3 DEF ListBounded, Acquiring
<1>12. ProbingAlone'
  <2>1. \A g \in Handle : Owner[g] = p => pc[g] # "probing"
    BY <1>1 DEF ProbingAlone
  <2>2. \A g \in Handle : pc'[g] = "probing" => pc[g] = "probing" /\ Owner[g] \in Proc \ {p}
    BY <2>1, LockFileAssumption
  <2>. QED
    BY <2>2 DEF ProbingAlone
<1>. QED
  BY <1>4, <1>5, <1>7, <1>8, <1>9, <1>10, <1>11, <1>12

(* The release functions leave the instance alone or clear it.             *)
LEMMA ReleaseForms ==
  ASSUME NEW s \in Instance
  PROVE  /\ ReleaseRead(s) \in {Unheld, s} /\ ReleaseWrite(s) \in {Unheld, s}
         /\ s.held = "write" => ReleaseRead(s) = s
         /\ Unheld.kernel = "none" /\ Unheld.held = "none"
BY DEF ReleaseRead, ReleaseWrite, Unheld

(* Outside an acquire the kernel and `held` agree where there are owners.  *)
LEMMA OwnedTracked ==
  ASSUME IInv, NEW p \in Proc \ (ro \cup Racing), MutexFree(p), users[p] # {}
  PROVE  lf[p].kernel = lf[p].held
BY DEF IInv, KernelTracked, Orphaned, MutexFree, Acquiring

(* A snapshot of h is dropped outside an acquire, whether it is the        *)
(* handle's or one that only results had.                                  *)
LEMMA DroppedKeeps ==
  ASSUME IInv, NEW h \in Handle, NEW held \in LockState, NEW other \in BOOLEAN,
         MutexFree(Owner[h]), h \in users[Owner[h]],
         LetGo(h, Dropped(h, held), other),
         \A g \in Handle \ {h} : pc'[g] = pc[g] /\ hold'[g] = hold[g] /\ req'[g] = req[g],
         pc'[h] \in {"closed", pc[h]}, hold'[h] \in {"none", hold[h]},
         pc'[h] = pc[h] \/ hold'[h] = "none",
         h \in Writers => hold'[h] = "none" /\ pc'[h] = "closed",
         TypeOK', KeptByTables', \A g \in Handle \ {h} : kept'[g] = kept[g],
         other <=> (pc'[h] \notin {"closed", "probing"} \/ kept'[h] # "gone"),
         UNCHANGED <<list, alive, ro, probing, saved>>
  PROVE  IInv'
<1>. USE DEF IInv
<1>. DEFINE p == Owner[h]
            r == Dropped(h, held)
<1>1. p \in Proc /\ lf[p] \in Instance
  BY LockFileAssumption DEF TypeOK
<1>2. r \in Instance /\ r \in {Unheld, lf[p]}
  BY <1>1, ReleaseForms, InstanceTypes DEF Dropped
<1>. HIDE DEF r
<1>3. PICK s \in Instance :
        /\ lf' = [lf EXCEPT ![p] = s] /\ s.kernel = r.kernel
        /\ s = r \/ (s.held = "none" /\ users[p] = {h} /\ ~other)
        /\ users' = [users EXCEPT ![p] = IF other THEN @ ELSE @ \ {h}]
        /\ closing' \subseteq Proc
        /\ \A q \in Proc \ {p} : q \in closing' <=> q \in closing
        /\ p \notin closing' => s = r
        /\ Orphaned'
  BY <1>2, LetGoForms DEF r
<1>4. /\ \A q \in Proc \ {p} : users'[q] = users[q]
      /\ users'[p] = IF other THEN users[p] ELSE users[p] \ {h}
  BY <1>1, <1>3 DEF TypeOK
<1>5. UsersOpen'
  BY <1>1, <1>4 DEF UsersOpen, TypeOK
<1>6. s.kernel \in {"none", lf[p].kernel} /\ s.held \in {"none", lf[p].held}
  BY <1>1, <1>2, <1>3, ReleaseForms
<1>7. p \notin ro \cup Racing \cup closing' => s.kernel = s.held
  BY <1>1, <1>2, <1>3, OwnedTracked, ReleaseForms
<1>8. ASSUME NEW g \in Writers, Owner[g] = p, Owner[g] \notin ro,
             lf[p].held = "write",
             hold'[g] = "write" \/ pc'[g] = "flushing"
      PROVE  s.held = "write"
  <2>1. g \in Handle /\ g # h
    BY <1>8, TableLockAssumption
  <2>2. h \notin Writers
    BY <1>8, <2>1, OneWriterAssumption
  <2>3. users[p] # {h}
    BY <1>1, <1>8, <2>1 DEF UsersOpen, IdleHold
  <2>4. r = lf[p]
    BY <1>1, <1>8, <2>2, ReleaseForms DEF r, Dropped
  <2>. QED
    BY <1>3, <1>8, <2>3, <2>4
<1>9. \A g \in Writers :
        /\ Owner[g] = Owner[h] /\ Owner[g] \notin ro
        /\ lf[Owner[g]].held = "write"
        /\ hold'[g] = "write" \/ pc'[g] = "flushing"
        => s.held = "write"
  BY <1>8
<1>10. pc[h] \notin {"closed", "probing"} \/ kept[h] # "gone"
  BY <1>1 DEF UsersOpen
<1>11. pc'[h] \in {"closed", "ready", pc[h]} /\ (pc'[h] = pc[h] \/ hold'[h] = "none" \/ pc'[h] = "ready")
  OBVIOUS
<1>12. /\ MutexFree(Owner[h]) /\ s.kernel \in {"none", lf[Owner[h]].kernel}
       /\ s.held \in {"none", lf[Owner[h]].held}
       /\ Owner[h] \notin ro \cup Racing \cup closing' => s.kernel = s.held
       /\ lf' = [lf EXCEPT ![Owner[h]] = s]
       /\ \A q \in Proc \ {Owner[h]} : q \in closing' <=> q \in closing
       /\ \A q \in Proc \ {Owner[h]} : users'[q] = users[q]
       /\ UNCHANGED <<list, alive, ro, probing, saved>>
       /\ Orphaned'
  BY <1>3, <1>4, <1>6, <1>7
<1>. HIDE DEF IInv
<1>. QED
  BY <1>5, <1>9, <1>10, <1>11, <1>12, ReleaseKeeps

(* A handle that is closed, or ticks, leaves its snapshot to the results   *)
(* or drops it.                                                            *)
LEMMA DropKeeps ==
  ASSUME IInv, NEW h \in Handle, Drop(h)
  PROVE  IInv'
<1>. USE DEF IInv
<1>. DEFINE p == Owner[h]
<1>1. /\ pc[h] = "ready" /\ MutexFree(p)
      /\ hold' = [hold EXCEPT ![h] = "none"]
      /\ pc' = [pc EXCEPT ![h] = "closed"]
      /\ shared' = shared \ {h}
      /\ kept' = [kept EXCEPT ![h] = IF h \in shared THEN hold[h] ELSE @]
      /\ UNCHANGED <<inuse, list, alive, ro, probing, req, saved>>
  BY DEF Drop, At, LeaveToResults
<1>2. p \in Proc /\ h \in users[p] /\ hold[h] \in LockState /\ lf[p] \in Instance
  BY <1>1, LockFileAssumption DEF UsersOpen, TypeOK
<1>3. /\ pc'[h] = "closed" /\ hold'[h] = "none"
      /\ kept'[h] = IF h \in shared THEN hold[h] ELSE kept[h]
      /\ \A g \in Handle \ {h} : pc'[g] = pc[g] /\ hold'[g] = hold[g] /\ req'[g] = req[g] /\ kept'[g] = kept[g]
  BY <1>1 DEF TypeOK
<1>4. KeptByTables'
  BY <1>3 DEF KeptByTables, TypeOK
<1>5. /\ shared' \subseteq Tables /\ kept' \in [Handle -> {"gone"} \cup LockState]
      /\ hold' \in [Handle -> LockState] /\ pc' \in [Handle -> PcState]
  BY <1>1, <1>2 DEF TypeOK, PcState, LockState
<1>6. CASE h \in shared
  <2>1. UNCHANGED <<lf, users, closing>>
    BY <1>6 DEF Drop
  <2>2. TypeOK'
    BY <1>1, <1>5, <2>1 DEF TypeOK
  <2>3. kept'[h] # "gone"
    BY <1>2, <1>3, <1>6 DEF LockState
  <2>4. UsersOpen'
    BY <1>1, <1>3, <2>1, <2>3 DEF UsersOpen
  <2>5. OneInMutex' /\ Uncovered'
    BY <1>1, <1>3, <2>1 DEF OneInMutex, Uncovered, Covered, Degrades, Acquiring
  <2>6. KernelTracked' /\ Orphaned' /\ ProbingAlone'
    BY <1>1, <1>3, <2>1 DEF KernelTracked, Orphaned, ProbingAlone
  <2>7. IdleHold' /\ JobFits'
    BY <1>1, <1>3 DEF IdleHold, JobFits, Acquiring
  <2>8. WriterHolds' /\ Exclusive' /\ ListBounded'
    BY <1>1, <1>3, <2>1, TableLockAssumption DEF WriterHolds, Exclusive, ListBounded
  <2>. QED
    BY <1>4, <2>2, <2>4, <2>5, <2>6, <2>7, <2>8
<1>7. CASE h \notin shared
  <2>. DEFINE other == kept[h] # "gone"
  <2>1. LetGo(h, Dropped(h, hold[h]), other)
    BY <1>7 DEF Drop
  <2>2. other <=> (pc'[h] \notin {"closed", "probing"} \/ kept'[h] # "gone")
    BY <1>3, <1>7
  <2>3. TypeOK'
    <3>1. Dropped(h, hold[h]) \in Instance
      BY <1>2, InstanceTypes DEF Dropped
    <3>2. PICK s \in Instance :
            /\ lf' = [lf EXCEPT ![p] = s] /\ closing' \subseteq Proc
            /\ users' = [users EXCEPT ![p] = IF other THEN @ ELSE @ \ {h}]
      BY <1>2, <2>1, <3>1, LetGoForms
    <3>. QED
      BY <1>1, <1>5, <3>2 DEF TypeOK
  <2>. HIDE DEF IInv
  <2>. QED
    BY <1>1, <1>2, <1>3, <1>4, <2>1, <2>2, <2>3, DroppedKeeps
<1>. QED
  BY <1>6, <1>7

(* query() and sort() only share a snapshot.                               *)
LEMMA QueryKeeps ==
  ASSUME IInv, NEW h \in Handle, Query(h)
  PROVE  IInv'
<1>. USE DEF IInv
<1>1. shared' \subseteq Tables /\ UNCHANGED <<lockVars, pc, hold, req, saved, kept>>
  BY TableLockAssumption DEF Query, TypeOK, Tables
<1>2. TypeOK'
  BY <1>1 DEF TypeOK, lockVars
<1>3. UsersOpen' /\ OneInMutex' /\ Uncovered' /\ KernelTracked'
  BY <1>1 DEF UsersOpen, OneInMutex, Uncovered, Covered, Degrades, KernelTracked, lockVars
<1>4. Orphaned' /\ ProbingAlone' /\ KeptByTables' /\ IdleHold' /\ JobFits'
  BY <1>1 DEF Orphaned, ProbingAlone, KeptByTables, IdleHold, JobFits, lockVars
<1>5. WriterHolds' /\ Exclusive' /\ ListBounded'
  BY <1>1 DEF WriterHolds, Exclusive, ListBounded, lockVars
<1>. QED
  BY <1>2, <1>3, <1>4, <1>5

(* The last result of a snapshot leaves it to its handle or drops it.      *)
LEMMA DropResultKeeps ==
  ASSUME IInv, NEW h \in Handle, DropResult(h)
  PROVE  IInv'
<1>. USE DEF IInv
<1>. DEFINE p == Owner[h]
            other == pc[h] \notin {"closed", "probing"}
<1>1. MutexFree(p) /\ UNCHANGED <<inuse, list, alive, ro, probing, pc, hold, req, saved>>
  BY DEF DropResult
<1>2. p \in Proc /\ lf[p] \in Instance
  BY LockFileAssumption DEF TypeOK
<1>3. CASE shared' = shared \ {h} /\ UNCHANGED <<lf, users, closing, kept>>
  <2>1. TypeOK' /\ UsersOpen' /\ OneInMutex' /\ Uncovered' /\ KernelTracked'
    BY <1>1, <1>3 DEF TypeOK, UsersOpen, OneInMutex, Uncovered, Covered, Degrades, KernelTracked
  <2>2. Orphaned' /\ ProbingAlone' /\ KeptByTables' /\ IdleHold' /\ JobFits'
    BY <1>1, <1>3 DEF Orphaned, ProbingAlone, KeptByTables, IdleHold, JobFits
  <2>3. WriterHolds' /\ Exclusive' /\ ListBounded'
    BY <1>1, <1>3 DEF WriterHolds, Exclusive, ListBounded
  <2>. QED
    BY <2>1, <2>2, <2>3
<1>4. CASE /\ kept[h] # "gone" /\ kept' = [kept EXCEPT ![h] = "gone"]
           /\ LetGo(h, Dropped(h, kept[h]), other)
           /\ UNCHANGED shared
  <2>1. kept[h] \in LockState /\ h \in users[p] /\ h \notin Writers
    BY <1>2, <1>4 DEF TypeOK, UsersOpen, KeptByTables, Tables
  <2>2. kept'[h] = "gone" /\ \A g \in Handle \ {h} : kept'[g] = kept[g]
    BY <1>4 DEF TypeOK
  <2>3. KeptByTables'
    BY <2>2 DEF KeptByTables
  <2>4. TypeOK'
    <3>1. Dropped(h, kept[h]) \in Instance
      BY <1>2, InstanceTypes DEF Dropped
    <3>2. PICK s \in Instance :
            /\ lf' = [lf EXCEPT ![p] = s] /\ closing' \subseteq Proc
            /\ users' = [users EXCEPT ![p] = IF other THEN @ ELSE @ \ {h}]
      BY <1>4, <2>1, <3>1, LetGoForms
    <3>. QED
      BY <1>1, <1>4, <3>2 DEF TypeOK
  <2>5. other <=> (pc'[h] \notin {"closed", "probing"} \/ kept'[h] # "gone")
    BY <1>1, <2>2
  <2>. HIDE DEF IInv, other
  <2>6. other \in BOOLEAN
    BY DEF other
  <2>. QED
    BY <1>1, <1>4, <2>1, <2>2, <2>3, <2>4, <2>5, <2>6, DroppedKeeps
<1>. QED
  BY <1>3, <1>4 DEF DropResult

(* Closing the fd takes the kernel's locks: in a process that is not       *)
(* Racing there is no instance that counts on them.                        *)
LEMMA CloseLockKeeps ==
  ASSUME IInv, NEW p \in Proc, CloseLock(p)
  PROVE  IInv'
<1>. USE DEF IInv
<1>. DEFINE s == [lf[p] EXCEPT !.kernel = "none"]
<1>1. /\ p \in closing /\ closing' = closing \ {p}
      /\ lf' = [lf EXCEPT ![p] = s] /\ inuse' = inuse \ {p} /\ probing' = probing \ {p}
      /\ UNCHANGED <<users, list, alive, ro, pc, hold, req, saved, shared, kept>>
  BY DEF CloseLock, CloseFile, snapshots
<1>2. s \in Instance /\ s.held = lf[p].held /\ s.kernel = "none"
  BY DEF TypeOK, Instance, LockState
<1>. HIDE DEF s
<1>3. \A q \in Proc : lf'[q] = IF q = p THEN s ELSE lf[q]
  BY <1>1 DEF TypeOK
<1>4. TypeOK'
  BY <1>1, <1>2 DEF TypeOK
<1>5. UsersOpen' /\ OneInMutex' /\ IdleHold' /\ JobFits' /\ KeptByTables' /\ ListBounded'
  BY <1>1 DEF UsersOpen, OneInMutex, IdleHold, JobFits, KeptByTables, ListBounded
<1>6. Uncovered'
  BY <1>1, <1>2, <1>3, LockFileAssumption DEF Uncovered, Covered, Degrades
<1>7. p \notin Racing => /\ users[p] = {} /\ s.held = "none"
                         /\ \A h \in Handle : Owner[h] = p => pc[h] # "won"
  BY <1>1, <1>2 DEF Orphaned, UsersOpen
<1>8. KernelTracked'
  BY <1>1, <1>2, <1>3, <1>7, LockFileAssumption DEF KernelTracked
<1>9. Orphaned' /\ ProbingAlone'
  BY <1>1, <1>2, <1>3, <1>7 DEF Orphaned, ProbingAlone
<1>10. WriterHolds'
  BY <1>1, <1>2, <1>3, TableLockAssumption, LockFileAssumption DEF WriterHolds
<1>11. Exclusive'
  BY <1>2, <1>3 DEF Exclusive
<1>. QED
  BY <1>4, <1>5, <1>6, <1>8, <1>9, <1>10, <1>11

(* A release leaves the registry and the results alone.                    *)
LEMMA ReleasedOrphans ==
  ASSUME IInv, NEW h \in Handle, NEW s \in Instance,
         pc[h] \notin {"closed", "probing"},
         lf' = [lf EXCEPT ![Owner[h]] = s], UNCHANGED <<users, closing, kept>>
  PROVE  Orphaned' /\ KeptByTables'
<1>. USE DEF IInv
<1>1. Owner[h] \in Proc /\ users[Owner[h]] # {}
  BY LockFileAssumption DEF UsersOpen
<1>2. \A q \in Proc \ {Owner[h]} : lf'[q] = lf[q]
  BY <1>1 DEF TypeOK
<1>. QED
  BY <1>1, <1>2 DEF Orphaned, KeptByTables

LEMMA UnlockTableKeeps ==
  ASSUME IInv, NEW h \in Handle, UnlockTable(h)
  PROVE  IInv'
<1>. USE DEF IInv
<1>. DEFINE p == Owner[h]
            s == ReleaseRead(lf[p])
<1>1. p \in Proc /\ lf[p] \in Instance
  BY LockFileAssumption DEF TypeOK
<1>2. /\ pc[h] = "ready" /\ MutexFree(p) /\ h \in Tables
      /\ lf' = [lf EXCEPT ![p] = s]
      /\ hold' = [hold EXCEPT ![h] = "none"] \/ hold' = hold
      /\ UNCHANGED <<inuse, users, list, alive, ro, probing, closing, pc, req, saved, shared, kept>>
  BY DEF UnlockTable, At, snapshots
<1>3. s \in Instance /\ s \in {Unheld, lf[p]} /\ (lf[p].held = "write" => s = lf[p])
  BY <1>1, ReleaseForms, InstanceTypes
<1>10. Orphaned' /\ KeptByTables'
  BY <1>1, <1>2, <1>3, ReleasedOrphans
<1>4. hold'[h] \in {"none", hold[h]} /\ \A g \in Handle \ {h} : hold'[g] = hold[g]
  BY <1>2 DEF TypeOK
<1>5. TypeOK'
  BY <1>1, <1>2, <1>3 DEF TypeOK, LockState
<1>6. UsersOpen'
  BY <1>2 DEF UsersOpen
<1>7. \A g \in Writers :
        /\ Owner[g] = Owner[h] /\ Owner[g] \notin ro
        /\ lf[Owner[g]].held = "write"
        /\ hold'[g] = "write" \/ pc'[g] = "flushing"
        => s.held = "write"
  BY <1>3
<1>8. \A g \in Handle \ {h} : pc'[g] = pc[g] /\ hold'[g] = hold[g] /\ req'[g] = req[g]
  BY <1>2, <1>4
<1>9. /\ MutexFree(Owner[h]) /\ s.kernel \in {"none", lf[Owner[h]].kernel}
      /\ s.held \in {"none", lf[Owner[h]].held}
      /\ Owner[h] \notin ro \cup Racing \cup closing' => s.kernel = s.held
      /\ lf' = [lf EXCEPT ![Owner[h]] = s]
      /\ pc'[h] \in {"closed", "ready", pc[h]} /\ pc'[h] = "ready" /\ pc[h] = "ready"
      /\ hold'[h] \in {"none", hold[h]}
      /\ \A q \in Proc : (q \in closing' <=> q \in closing) /\ users'[q] = users[q]
      /\ UNCHANGED <<list, alive, ro, probing, saved>>
  BY <1>1, <1>2, <1>3, <1>4, OwnedTracked, ReleaseForms DEF UsersOpen
<1>. HIDE DEF s, IInv
<1>. QED
  BY <1>3, <1>5, <1>6, <1>7, <1>8, <1>9, <1>10, ReleaseKeeps

LEMMA EndFlushKeeps ==
  ASSUME IInv, NEW h \in Handle, EndFlush(h)
  PROVE  IInv'
<1>. USE DEF IInv
<1>. DEFINE p == Owner[h]
<1>1. p \in Proc /\ lf[p] \in Instance
  BY LockFileAssumption DEF TypeOK
<1>2. PICK ok \in BOOLEAN :
        LET gives == req[h].job = "unlock" /\ ok IN
        /\ lf' = [lf EXCEPT ![p] = IF hold[h] = "write" /\ ~gives
                                      THEN @ ELSE ReleaseWrite(@)]
        /\ hold' = [hold EXCEPT ![h] = IF gives THEN "none" ELSE @]
  BY DEF EndFlush
<1>. DEFINE gives == req[h].job = "unlock" /\ ok
            s == IF hold[h] = "write" /\ ~gives THEN lf[p] ELSE ReleaseWrite(lf[p])
<1>3. /\ pc[h] = "flushing" /\ MutexFree(p)
      /\ pc' = [pc EXCEPT ![h] = "ready"]
      /\ req' = [req EXCEPT ![h] = NoRequest]
      /\ UNCHANGED <<inuse, users, list, alive, ro, probing, closing, saved, shared, kept>>
  BY DEF EndFlush, At, snapshots
<1>4. s \in Instance /\ s \in {Unheld, lf[p]}
  BY <1>1, ReleaseForms, InstanceTypes
<1>5. lf' = [lf EXCEPT ![p] = s]
  BY <1>1, <1>2 DEF TypeOK
<1>12. Orphaned' /\ KeptByTables'
  BY <1>1, <1>3, <1>4, <1>5, ReleasedOrphans
<1>6. /\ pc'[h] = "ready"
      /\ hold'[h] = IF gives THEN "none" ELSE hold[h]
      /\ \A g \in Handle \ {h} : pc'[g] = pc[g] /\ hold'[g] = hold[g] /\ req'[g] = req[g]
  BY <1>2, <1>3 DEF TypeOK
<1>7. TypeOK'
  BY <1>1, <1>2, <1>3, <1>4, <1>5, InstanceTypes DEF TypeOK, PcState, LockState
<1>8. UsersOpen'
  BY <1>3, <1>6 DEF UsersOpen
<1>9. ASSUME NEW g \in Writers, Owner[g] = p, Owner[g] \notin ro,
             lf[p].held = "write",
             hold'[g] = "write" \/ pc'[g] = "flushing"
      PROVE  s.held = "write"
  <2>1. g = h
    BY <1>3, <1>9, OneWriterAssumption DEF JobFits
  <2>. QED
    BY <1>6, <1>9, <2>1
<1>10. \A g \in Writers :
        /\ Owner[g] = Owner[h] /\ Owner[g] \notin ro
        /\ lf[Owner[g]].held = "write"
        /\ hold'[g] = "write" \/ pc'[g] = "flushing"
        => s.held = "write"
  BY <1>9
<1>11. /\ MutexFree(Owner[h]) /\ s.kernel \in {"none", lf[Owner[h]].kernel}
       /\ s.held \in {"none", lf[Owner[h]].held}
       /\ Owner[h] \notin ro \cup Racing \cup closing' => s.kernel = s.held
       /\ lf' = [lf EXCEPT ![Owner[h]] = s]
       /\ pc'[h] \in {"closed", "ready", pc[h]} /\ pc'[h] = "ready" /\ pc[h] = "flushing"
       /\ hold'[h] \in {"none", hold[h]}
       /\ \A q \in Proc : (q \in closing' <=> q \in closing) /\ users'[q] = users[q]
       /\ UNCHANGED <<list, alive, ro, probing, saved>>
  BY <1>1, <1>3, <1>4, <1>5, <1>6, OwnedTracked, ReleaseForms DEF UsersOpen
<1>. HIDE DEF s, IInv
<1>. QED
  BY <1>4, <1>6, <1>7, <1>8, <1>10, <1>11, <1>12, ReleaseKeeps

(* A writer that holds the lock flushes at once; another one acquires it.  *)
LEMMA BeginFlushKeeps ==
  ASSUME IInv, NEW h \in Handle, BeginFlush(h)
  PROVE  IInv'
<1>1. PICK job \in {"flush", "unlock"} :
        LET r == [job |-> job, want |-> "write", tries |-> "block"] IN
        \/ /\ hold[h] = "write"
           /\ pc' = [pc EXCEPT ![h] = "flushing"]
           /\ req' = [req EXCEPT ![h] = r]
           /\ UNCHANGED <<lockVars, hold, saved, snapshots>>
        \/ /\ hold[h] # "write"
           /\ MutexFree(Owner[h])
           /\ Acquire(h, r)
  BY DEF BeginFlush
<1>. DEFINE r == [job |-> job, want |-> "write", tries |-> "block"]
<1>2. h \in Writers /\ pc[h] = "ready"
  BY DEF BeginFlush
<1>3. r \in Request /\ r.job = job /\ r.want = "write" /\ Suits(h, r)
  BY <1>2 DEF Request, Suits, Flushes
<1>4. CASE MutexFree(Owner[h]) /\ Acquire(h, r)
  <2>. HIDE DEF r
  <2>. QED
    BY <1>2, <1>3, <1>4, AcquireKeeps
<1>5. CASE /\ hold[h] = "write"
           /\ pc' = [pc EXCEPT ![h] = "flushing"]
           /\ req' = [req EXCEPT ![h] = r]
           /\ UNCHANGED <<lockVars, hold, saved, snapshots>>
  <2>. USE DEF IInv
  <2>1. pc'[h] = "flushing" /\ \A g \in Handle \ {h} : pc'[g] = pc[g] /\ req'[g] = req[g]
    BY <1>5 DEF TypeOK
  <2>2. TypeOK'
    BY <1>3, <1>5 DEF TypeOK, PcState, lockVars, snapshots
  <2>3. UsersOpen' /\ OneInMutex' /\ Uncovered'
    BY <1>2, <1>5, <2>1
    DEF UsersOpen, OneInMutex, Uncovered, Covered, Degrades, Acquiring, lockVars, snapshots
  <2>8. Orphaned' /\ ProbingAlone' /\ KeptByTables'
    BY <1>5, <2>1 DEF Orphaned, ProbingAlone, KeptByTables, lockVars, snapshots
  <2>4. KernelTracked'
    BY <1>2, <1>5, <2>1 DEF KernelTracked, lockVars
  <2>5. IdleHold' /\ JobFits'
    BY <1>2, <1>5, <2>1 DEF IdleHold, JobFits, Acquiring
  <2>6. WriterHolds'
    BY <1>5, <2>1, TableLockAssumption DEF WriterHolds, lockVars
  <2>7. Exclusive' /\ ListBounded'
    BY <1>5, <2>1 DEF Exclusive, ListBounded, lockVars
  <2>. QED
    BY <2>2, <2>3, <2>4, <2>5, <2>6, <2>7, <2>8
<1>. QED
  BY <1>1, <1>4, <1>5

LEMMA IsMultiUsedKeeps ==
  ASSUME IInv, NEW h \in Handle, IsMultiUsed(h)
  PROVE  IInv'
<1>. USE DEF IInv
<1>1. /\ inuse' = {}
      /\ UNCHANGED <<lf, users, list, alive, ro, probing, closing, pc, hold, req, saved, shared, kept>>
  BY DEF IsMultiUsed, snapshots
<1>2. TypeOK' /\ UsersOpen' /\ OneInMutex'
  BY <1>1 DEF TypeOK, UsersOpen, OneInMutex
<1>3. Uncovered' /\ KernelTracked' /\ IdleHold'
  BY <1>1 DEF Uncovered, Covered, Degrades, KernelTracked, IdleHold
<1>4. JobFits' /\ WriterHolds' /\ Exclusive' /\ ListBounded'
  BY <1>1 DEF JobFits, WriterHolds, Exclusive, ListBounded
<1>5. Orphaned' /\ ProbingAlone' /\ KeptByTables'
  BY <1>1 DEF Orphaned, ProbingAlone, KeptByTables
<1>. QED
  BY <1>2, <1>3, <1>4, <1>5

LEMMA DieKeeps ==
  ASSUME IInv, NEW p \in Proc, Die(p)
  PROVE  IInv'
<1>. USE DEF IInv
<1>. DEFINE Mine(h) == Owner[h] = p
<1>1. /\ alive' = alive \ {p}
      /\ lf' = [lf EXCEPT ![p] = Unheld]
      /\ inuse' = inuse \ {p}
      /\ users' = [users EXCEPT ![p] = {}]
      /\ probing' = probing \ {p} /\ closing' = closing \ {p}
      /\ shared' \subseteq shared
      /\ UNCHANGED <<list, ro>>
  BY DEF Die
<1>2. /\ pc' = [h \in Handle |-> IF Mine(h) THEN "closed" ELSE pc[h]]
      /\ hold' = [h \in Handle |-> IF Mine(h) THEN "none" ELSE hold[h]]
      /\ req' = [h \in Handle |-> IF Mine(h) THEN NoRequest ELSE req[h]]
      /\ saved' = [h \in Handle |-> IF Mine(h) THEN EmptyList ELSE saved[h]]
      /\ kept' = [h \in Handle |-> IF Mine(h) THEN "gone" ELSE kept[h]]
  BY DEF Die
<1>3. \A h \in Handle :
        IF Mine(h)
          THEN /\ pc'[h] = "closed" /\ hold'[h] = "none" /\ saved'[h] = EmptyList
               /\ kept'[h] = "gone"
          ELSE /\ pc'[h] = pc[h] /\ hold'[h] = hold[h] /\ req'[h] = req[h] /\ saved'[h] = saved[h]
               /\ kept'[h] = kept[h]
  BY <1>2
<1>4. \A q \in Proc : lf'[q] = IF q = p THEN Unheld ELSE lf[q]
  BY <1>1 DEF TypeOK
<1>5. TypeOK'
  BY <1>1, <1>2, InstanceTypes DEF TypeOK, PcState, LockState
<1>6. UsersOpen'
  BY <1>1, <1>3 DEF UsersOpen, TypeOK
<1>7. OneInMutex'
  BY <1>3 DEF OneInMutex, Acquiring
<1>8. Uncovered'
  BY <1>1, <1>3, <1>4, LockFileAssumption DEF Uncovered, Covered, Degrades, Acquiring
<1>9. KernelTracked'
  BY <1>1, <1>3, <1>4, LockFileAssumption DEF KernelTracked, Unheld
<1>10. IdleHold' /\ JobFits'
  BY <1>3 DEF IdleHold, JobFits, Acquiring
<1>11. WriterHolds'
  BY <1>1, <1>3, <1>4, TableLockAssumption, LockFileAssumption DEF WriterHolds
<1>12. Exclusive'
  BY <1>4 DEF Exclusive, Unheld
<1>13. ListBounded'
  BY <1>1, <1>3, InstanceTypes, LockFileAssumption DEF ListBounded
<1>14. \A q \in Proc : users'[q] = IF q = p THEN {} ELSE users[q]
  BY <1>1 DEF TypeOK
<1>15. Orphaned' /\ KeptByTables'
  BY <1>1, <1>3, <1>4, <1>14 DEF Orphaned, KeptByTables, Unheld
<1>16. ProbingAlone'
  BY <1>1, <1>3, <1>14, LockFileAssumption DEF ProbingAlone
<1>. QED
  BY <1>5, <1>6, <1>7, <1>8, <1>9, <1>10, <1>11, <1>12, <1>13, <1>15, <1>16

LEMMA StutterKeeps ==
  ASSUME IInv, UNCHANGED vars
  PROVE  IInv'
<1>. USE DEF IInv, vars, lockVars, snapshots
<1>1. TypeOK' /\ UsersOpen' /\ OneInMutex'
  BY DEF TypeOK, UsersOpen, OneInMutex
<1>2. Uncovered' /\ KernelTracked' /\ IdleHold'
  BY DEF Uncovered, Covered, Degrades, KernelTracked, IdleHold
<1>3. JobFits' /\ WriterHolds' /\ Exclusive' /\ ListBounded'
  BY DEF JobFits, WriterHolds, Exclusive, ListBounded
<1>4. Orphaned' /\ ProbingAlone' /\ KeptByTables'
  BY DEF Orphaned, ProbingAlone, KeptByTables
<1>. QED
  BY <1>1, <1>2, <1>3, <1>4

-----------------------------------------------------------------------------
LEMMA InitInvariant == Init => IInv
<1>. SUFFICES ASSUME Init PROVE IInv
  OBVIOUS
<1>. USE DEF Init, LockInit
<1>1. TypeOK
  BY InstanceTypes, LockFileAssumption DEF TypeOK, PcState, LockState
<1>2. UsersOpen /\ OneInMutex /\ Uncovered /\ KernelTracked
  BY LockFileAssumption DEF UsersOpen, OneInMutex, Uncovered, KernelTracked, Acquiring, Unheld
<1>3. IdleHold /\ JobFits /\ WriterHolds
  BY TableLockAssumption DEF IdleHold, JobFits, WriterHolds, Acquiring
<1>4. Exclusive /\ ListBounded
  BY LockFileAssumption DEF Exclusive, ListBounded, Unheld, EmptyList
<1>5. Orphaned /\ ProbingAlone /\ KeptByTables
  BY DEF Orphaned, ProbingAlone, KeptByTables, Unheld
<1>. QED
  BY <1>1, <1>2, <1>3, <1>4, <1>5 DEF IInv

LEMMA NextInvariant == IInv /\ [Next]_vars => IInv'
<1>. SUFFICES ASSUME IInv, [Next]_vars PROVE IInv'
  OBVIOUS
<1>1. CASE UNCHANGED vars
  BY <1>1, StutterKeeps
<1>2. ASSUME NEW h \in Handle, AcquireStep(h)
      PROVE  IInv'
  BY <1>2, AddEntryKeeps, AddCountKeeps, GrantedKeeps, WaitingKeeps, WaitFailsKeeps,
     LeaveListKeeps DEF AcquireStep
<1>3. ASSUME NEW h \in Handle,
             \/ Attach(h) \/ AttachProbed(h)
             \/ OpenTable(h) \/ OpenWriter(h) \/ Drop(h) \/ AutoTick(h)
             \/ Query(h) \/ DropResult(h)
      PROVE  IInv'
  BY <1>3, AttachKeeps, OpenKeeps, DropKeeps, QueryKeeps, DropResultKeeps DEF AutoTick
<1>4. ASSUME NEW h \in Handle,
             \/ LockTable(h) \/ LockWriter(h) \/ Relock(h) \/ Reopen(h)
             \/ UnlockTable(h) \/ IsMultiUsed(h)
      PROVE  IInv'
  BY <1>4, LockKeeps, ReopenKeeps, UnlockTableKeeps, IsMultiUsedKeeps
<1>5. ASSUME NEW h \in Handle, BeginFlush(h) \/ EndFlush(h)
      PROVE  IInv'
  BY <1>5, BeginFlushKeeps, EndFlushKeeps
<1>6. ASSUME NEW p \in Proc, CloseLock(p) \/ Die(p)
      PROVE  IInv'
  BY <1>6, CloseLockKeeps, DieKeeps
<1>. QED
  BY <1>1, <1>2, <1>3, <1>4, <1>5, <1>6 DEF Next

LEMMA InductiveInvariant == Spec => []IInv
<1>1. Init => IInv
  BY InitInvariant
<1>2. IInv /\ [Next]_vars => IInv'
  BY NextInvariant
<1>. QED
  BY <1>1, <1>2, PTL DEF Spec
-----------------------------------------------------------------------------
(* The results.                                                            *)

(* In an idle process, read-only fds apart, the kernel's lock and `held`   *)
(* agree.                                                                  *)
LEMMA HeldFollows == IInv => HeldIsReal
BY OwnedTracked DEF HeldIsReal

(* A writer that counts on its lock has it in the kernel, too: its process *)
(* has no acquire under way that could have run ahead of `held`.           *)
LEMMA CoverFollows == IInv => WriterIsCovered
<1>. SUFFICES ASSUME IInv, NEW h \in Writers, Owner[h] \notin ro \cup Racing,
                     hold[h] = "write" \/ pc[h] = "flushing"
              PROVE  lf[Owner[h]].kernel = "write"
  BY DEF WriterIsCovered
<1>1. h \in Handle /\ Owner[h] \in Proc
  BY TableLockAssumption, LockFileAssumption
<1>2. lf[Owner[h]].held = "write"
  BY DEF IInv, WriterHolds
<1>3. \A g \in Handle : Owner[g] = Owner[h] => pc[g] # "won"
  BY <1>2 DEF IInv, Uncovered, Covered, Acquiring
<1>4. Owner[h] \notin closing
  BY <1>1 DEF IInv, Orphaned, UsersOpen, IdleHold, Acquiring
<1>. QED
  BY <1>1, <1>2, <1>3, <1>4 DEF IInv, KernelTracked

(* Two processes never flush at once: both would hold the kernel's write   *)
(* lock.                                                                   *)
LEMMA ExclusionFollows == IInv => FlushExclusion
<1>. SUFFICES ASSUME IInv, NEW g \in Writers, NEW h \in Writers,
                     pc[g] = "flushing", pc[h] = "flushing",
                     Owner[g] \notin ro \cup Racing, Owner[h] \notin ro \cup Racing,
                     Owner[g] # Owner[h]
              PROVE  FALSE
  BY DEF FlushExclusion
<1>1. Owner[g] \in Proc /\ Owner[h] \in Proc
  BY TableLockAssumption, LockFileAssumption
<1>2. lf[Owner[g]].kernel = "write" /\ lf[Owner[h]].kernel = "write"
  BY CoverFollows DEF WriterIsCovered
<1>. QED
  BY <1>1, <1>2 DEF IInv, Exclusive

(* Every reachable state is well formed.                                   *)
THEOREM TypeCorrect == Spec => []TypeOK
<1>1. IInv => TypeOK
  BY DEF IInv
<1>. QED
  BY <1>1, InductiveInvariant, PTL

(* LockFile::held is the kernel's lock whenever no acquire is under way.   *)
THEOREM HeldIsAlwaysReal == Spec => []HeldIsReal
BY InductiveInvariant, HeldFollows, PTL

(* No handle takes away the write lock a writer counts on.                 *)
THEOREM WriterIsAlwaysCovered == Spec => []WriterIsCovered
BY InductiveInvariant, CoverFollows, PTL

(* At most one process writes the table's files.                           *)
THEOREM FlushesExclude == Spec => []FlushExclusion
BY InductiveInvariant, ExclusionFollows, PTL

(* The request list never outgrows its slots.                              *)
THEOREM ListAlwaysFits == Spec => []ListFits
<1>1. IInv => ListFits
  BY DEF IInv, ListBounded, ListFits
<1>. QED
  BY <1>1, InductiveInvariant, PTL
=============================================================================

------------------------------ MODULE LockFile ------------------------------
(***************************************************************************)
(* One table directory's `table.lock`, as crates/casacure/src/lockfile.rs  *)
(* drives it.                                                              *)
(*                                                                         *)
(* Three things live here.  The kernel's record locks: byte 0 is the lock  *)
(* itself, byte 1 the shared "in use" mark; both belong to a process, not  *)
(* to a handle.  The process's one LockFile instance, shared by its        *)
(* handles through LOCK_REGISTRY, with `held`, what the process last       *)
(* acquired.  And the request list in the file body, a count and slots     *)
(* that waiting processes rewrite without any lock.                        *)
(*                                                                         *)
(* The module has no next-state relation: TableLock composes these         *)
(* fragments into the operations of the handles.                           *)
(***************************************************************************)
EXTENDS Naturals, FiniteSets

CONSTANTS
  Proc,      \* the processes that use the table
  Handle,    \* every Table and WritableTable any of them may open
  Owner,     \* the process a handle lives in
  Lacking,   \* the processes that may lack write permission on the file
  Racing,    \* the processes whose threads may open the table while another
             \* of their threads is closing its last handle
  NoProc,    \* an unused slot of the request list
  ReqLimit   \* slots in the request list (32 in the code)

ASSUME LockFileAssumption ==
  /\ Owner \in [Handle -> Proc]
  /\ Lacking \subseteq Proc
  /\ Racing \subseteq Proc
  /\ NoProc \notin Proc
  /\ ReqLimit \in Nat \ {0}

VARIABLES
  lf,      \* lf[p]: byte 0 as the kernel has it for p, and LockFile::held of p
  inuse,   \* the processes holding the shared lock on byte 1
  users,   \* users[p]: the handles of p sharing its LockFile (the Arc's owners)
  list,    \* the request list: its count and its slots
  alive,   \* the processes that have not died
  ro,      \* ro: LockFile::read_only_fd of a process's instance is set
  probing, \* the processes holding the byte that can_write probes
  closing  \* the processes whose last instance is gone, its fd still open

lockVars == <<lf, inuse, users, list, alive, ro, probing, closing>>

LockState == {"none", "read", "write"}
Instance  == [kernel : LockState, held : LockState]
Unheld    == [kernel |-> "none", held |-> "none"]
ReqList   == [n : Nat, slot : [1..ReqLimit -> Proc \cup {NoProc}]]
EmptyList == [n |-> 0, slot |-> [i \in 1..ReqLimit |-> NoProc]]

LockInit ==
  /\ lf = [p \in Proc |-> Unheld]
  /\ inuse = {}
  /\ users = [p \in Proc |-> {}]
  /\ list = EmptyList
  /\ alive = Proc
  /\ ro = {}
  /\ probing = {}
  /\ closing = {}

-----------------------------------------------------------------------------
(* FileLocker::try_flock and LockFile::acquire.                            *)

(* fcntl's rule: a read lock excludes other processes' write locks, a      *)
(* write lock excludes every lock of another process.                      *)
Grantable(p, t) ==
  \A q \in Proc \ {p} :
    IF t = "write" THEN lf[q].kernel = "none" ELSE lf[q].kernel # "write"

(* A write request on a read-only fd "succeeds" without a lock.            *)
Degrades(p, t) == t = "write" /\ p \in ro

(* Faulty variant: any hold of the process covers any request.             *)
CoveredByAnyHold(p, t) == lf[p].held # "none"

(* A request the process's own hold already covers never reaches fcntl.    *)
Covered(p, t) == lf[p].held \in {"write", t}

Immediate(p, t) == Degrades(p, t) \/ Covered(p, t) \/ Grantable(p, t)

(* Faulty variant: a lock got at once is not recorded in `held`.           *)
AcquiredUnrecorded(p, t) ==
  IF Covered(p, t) THEN lf[p] ELSE [lf[p] EXCEPT !.kernel = t]

(* The instance after an acquire that did not have to wait.                *)
Acquired(p, t) ==
  IF Degrades(p, t) THEN [lf[p] EXCEPT !.held = t]
  ELSE IF Covered(p, t) THEN lf[p]
  ELSE [kernel |-> t, held |-> t]

(* Faulty variant: release_read drops a write hold too.                    *)
ReleaseReadAnyHold(s) == Unheld

(* release_read and release_write touch only a hold of their own kind.     *)
ReleaseRead(s)  == IF s.held = "read"  THEN Unheld ELSE s
ReleaseWrite(s) == IF s.held = "write" THEN Unheld ELSE s

-----------------------------------------------------------------------------
(* LOCK_REGISTRY: attach and the drop of the last Arc.                     *)

(* attach shares the process's instance with one more handle.              *)
ShareLock(h) ==
  /\ users[Owner[h]] # {}
  /\ users' = [users EXCEPT ![Owner[h]] = @ \cup {h}]
  /\ UNCHANGED <<lf, inuse, list, alive, ro, probing, closing>>

(* The registry's entry is dead as soon as the last owner has left, while  *)
(* the fd is closed later: an attach in between opens the file anew, and   *)
(* what the kernel has for the process is still the old instance's.        *)
Unattached(p) == users[p] = {} /\ (p \in closing => p \in Racing)
Anew(p)       == lf' = [lf EXCEPT ![p] = [@ EXCEPT !.held = "none"]]

(* A new instance on a new fd, marked in use by a shared lock on byte 1.    *)
MarkInUse(h) ==
  /\ users' = [users EXCEPT ![Owner[h]] = @ \cup {h}]
  /\ inuse' = inuse \cup {Owner[h]}
  /\ UNCHANGED <<list, alive, closing>>

(* LockFile::attach finds out whether it can lock for writing by locking a *)
(* byte nobody else uses, except everybody who is just then attaching too. *)
ProbeWrite(h) ==
  LET p == Owner[h] IN
  /\ Unattached(p) /\ probing = {}
  /\ probing' = {p}
  /\ ro' = ro \ {p}
  /\ Anew(p)
  /\ UNCHANGED <<inuse, users, list, alive, closing>>

EndProbe(h) ==
  /\ probing' = probing \ {Owner[h]}
  /\ MarkInUse(h)
  /\ UNCHANGED <<lf, ro>>

(* No write permission, or the probe's byte is taken: a read-only instance. *)
AttachReadOnly(h) ==
  LET p == Owner[h] IN
  /\ Unattached(p)
  /\ p \in Lacking \/ probing # {}
  /\ ro' = ro \cup {p}
  /\ Anew(p)
  /\ MarkInUse(h)
  /\ UNCHANGED probing

(* Handle h lets its reference go, the instance being s by then.  With the *)
(* last one the instance goes; its fd is closed after that.                *)
DetachLock(h, s) ==
  LET p    == Owner[h]
      last == users[p] = {h}
  IN /\ users' = [users EXCEPT ![p] = @ \ {h}]
     /\ lf' = [lf EXCEPT ![p] = IF last THEN [s EXCEPT !.held = "none"] ELSE s]
     /\ closing' = IF last THEN closing \cup {p} ELSE closing

(* Closing the fd drops every lock the process has on the file, those of a *)
(* newer instance with them.  (Two fds that wait to be closed are closed   *)
(* together.)                                                              *)
CloseFile(p) ==
  /\ p \in closing
  /\ closing' = closing \ {p}
  /\ lf' = [lf EXCEPT ![p].kernel = "none"]
  /\ inuse' = inuse \ {p}
  /\ probing' = probing \ {p}
  /\ UNCHANGED <<users, list, alive, ro>>

-----------------------------------------------------------------------------
(* add_req_id and remove_req_id: plain reads and writes of the file body.  *)

(* Faulty variant: one entry too many is let in.                           *)
AddSkipsLate(p) == p \in ro \/ list.n > ReqLimit

(* add_req_id returns without writing on a read-only fd or a full list.    *)
AddSkips(p) == p \in ro \/ list.n >= ReqLimit

WriteEntry(p, count) == list' = [list EXCEPT !.slot[count + 1] = p]
WriteCount(count)    == list' = [list EXCEPT !.n = count + 1]

(* remove_req_id has nothing to rewrite.                                   *)
RemoveSkips(p) == p \in ro \/ list.n = 0

(* The slots of a list read earlier that p writes back: not its own, and   *)
(* not those of dead processes.                                            *)
Kept(p, read) == {i \in 1..read.n : read.slot[i] \in alive \ {p}}

Rank(i, S) == Cardinality({k \in S : k <= i})

(* Faulty variant: the slots past the new count are cut off the file.      *)
WriteKeptTruncated(p, read) ==
  LET kept == Kept(p, read) IN
  list' =
    [n    |-> Cardinality(kept),
     slot |-> [j \in 1..Cardinality(kept) |->
                 read.slot[CHOOSE i \in kept : Rank(i, kept) = j]]]

(* The kept entries move up to the front; slots past the new count keep    *)
(* what they had.                                                          *)
WriteKept(p, read) ==
  LET kept == Kept(p, read) IN
  list' =
    [n    |-> Cardinality(kept),
     slot |-> [j \in 1..ReqLimit |->
                 IF \E i \in kept : Rank(i, kept) = j
                   THEN read.slot[CHOOSE i \in kept : Rank(i, kept) = j]
                   ELSE list.slot[j]]]
=============================================================================

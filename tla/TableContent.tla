---------------------------- MODULE TableContent ----------------------------
(***************************************************************************)
(* What a writable table promises the session that edits it                *)
(* (WritableTable of crates/casacure/src/table.rs, seen from outside).     *)
(*                                                                         *)
(* `view` is the table as the session has edited it: rows added with the   *)
(* columns' defaults, cells put, rows and columns removed.  `stored` is    *)
(* what a fresh open of the directory reads.  The view changes by the      *)
(* session's calls only, the stored table while a flush runs only.  A      *)
(* flush that returns success has stored the view; one that fails, or dies *)
(* with the process, leaves every cell either as it was or as the session  *)
(* has it, and a session whose flush failed keeps its view.  Three things  *)
(* are not promised.  Of a cell in a column kept in two files nothing may  *)
(* be known after a flush that did not end.  While a file grows the table  *)
(* does not open, and if the flush ends there it is damaged.  A flush that *)
(* rewrites the table whole leaves it damaged until it returns.            *)
(***************************************************************************)
EXTENDS Naturals

CONSTANTS Col, Val, Default, Lost, Split, Damaged

VARIABLES
  view, stored, flushing,
  whole  \* the directory opens: no file is in the middle of its growth

vars == <<view, stored, flushing, whole>>

IsTable(t) ==
  /\ t.rows \in Nat
  /\ DOMAIN t.cell \subseteq Col
  /\ t = [rows |-> t.rows, cell |-> t.cell]
  /\ \A c \in DOMAIN t.cell : t.cell[c] \in [1..t.rows -> Val]

Init ==
  /\ IsTable(view)
  /\ stored = view
  /\ flushing = FALSE
  /\ whole = TRUE

-----------------------------------------------------------------------------
(* The session's calls.                                                    *)

Editing == ~flushing /\ view # Damaged /\ UNCHANGED <<stored, flushing, whole>>

(* The table of n rows over columns C with cell(c, i) at column c, row i.  *)
TableOf(n, C, cell(_, _)) ==
  [rows |-> n, cell |-> [c \in C |-> [i \in 1..n |-> cell(c, i)]]]

Cols == DOMAIN view.cell

(* The new row is one of defaults, but where rows removed since the last   *)
(* flush are still stored it may show what they hold.                      *)
AddRow ==
  /\ Editing
  /\ LET n == view.rows + 1 IN
     \E shown \in SUBSET {c \in Cols \cap DOMAIN stored.cell : n <= stored.rows} :
       view' = TableOf(n, Cols,
                 LAMBDA c, i : IF i < n THEN view.cell[c][i]
                               ELSE IF c \in shown THEN stored.cell[c][n]
                               ELSE Default)

Put ==
  /\ Editing
  /\ \E c \in Cols, i \in 1..view.rows, v \in Val \ {Lost} :
       view' = [view EXCEPT !.cell[c][i] = v]

(* The rows after a removed one move up.                                   *)
RemoveRow ==
  /\ Editing
  /\ \E r \in 1..view.rows :
       view' = TableOf(view.rows - 1, Cols,
                 LAMBDA c, i : view.cell[c][IF i < r THEN i ELSE i + 1])

AddCol ==
  /\ Editing
  /\ \E new \in Col \ Cols :
       view' = TableOf(view.rows, Cols \cup {new},
                 LAMBDA c, i : IF c = new THEN Default ELSE view.cell[c][i])

RemoveCol ==
  /\ Editing
  /\ \E old \in Cols :
       view' = TableOf(view.rows, Cols \ {old}, LAMBDA c, i : view.cell[c][i])

-----------------------------------------------------------------------------
(* Flushing.                                                               *)

BeginFlush ==
  /\ ~flushing /\ view # Damaged
  /\ flushing' = TRUE
  /\ UNCHANGED <<view, stored, whole>>

(* Table new lies between the tables old and goal: each cell of it is one  *)
(* of old's, one of goal's, the default of a row old does not have, or     *)
(* lost in a column kept in two files.                                     *)
Between(old, goal, new) ==
  LET Has(t, c, i) == c \in DOMAIN t.cell /\ i <= t.rows IN
  /\ new.rows \in {old.rows, goal.rows}
  /\ DOMAIN new.cell \in {DOMAIN old.cell, DOMAIN goal.cell}
  /\ \A c \in DOMAIN new.cell, i \in 1..new.rows :
       \/ Has(old, c, i) /\ new.cell[c][i] = old.cell[c][i]
       \/ Has(goal, c, i) /\ new.cell[c][i] = goal.cell[c][i]
       \/ i > old.rows /\ new.cell[c][i] = Default
       \/ c \in Split /\ new.cell[c][i] = Lost

(* Part of the view reaches the files.                                     *)
Progress ==
  /\ flushing /\ stored # Damaged /\ stored' # Damaged
  /\ Between(stored, view, stored')
  /\ whole' = TRUE
  /\ UNCHANGED <<view, flushing>>

(* A file starts to grow, which only a table with more rows needs.         *)
Grow ==
  /\ flushing /\ stored # Damaged /\ stored.rows < view.rows
  /\ whole' = FALSE
  /\ UNCHANGED <<view, stored, flushing>>

(* A rewrite has begun to replace the files.                               *)
Rewrite ==
  /\ flushing /\ whole
  /\ stored' = Damaged
  /\ UNCHANGED <<view, flushing, whole>>

Succeed ==
  /\ flushing /\ whole
  /\ flushing' = FALSE
  /\ stored' = view
  /\ UNCHANGED <<view, whole>>

(* The session's cells in some rows of a column kept in two files are lost *)
(* with the stored ones.                                                   *)
Lose ==
  \E c \in Cols \cap Split : \E gone \in SUBSET (1..view.rows) :
    /\ c \in DOMAIN stored'.cell
    /\ \A i \in gone : i <= stored'.rows /\ stored'.cell[c][i] = Lost
    /\ view' = [view EXCEPT !.cell[c] =
                  [i \in 1..view.rows |-> IF i \in gone THEN Lost ELSE @[i]]]

Fail ==
  /\ flushing /\ whole
  /\ flushing' = FALSE
  /\ \/ /\ stored # Damaged /\ stored' # Damaged
        /\ Between(stored, view, stored')
        /\ view' = view \/ Lose
     \/ /\ stored = Damaged
        /\ stored' = Damaged /\ view' = Damaged
  /\ UNCHANGED whole

(* The flush ends, with an error or the process, in the middle of growth.  *)
CutShort ==
  /\ flushing /\ ~whole
  /\ flushing' = FALSE /\ whole' = TRUE
  /\ view' = Damaged /\ stored' = Damaged

(* The process dies, or closes the table, and another opens it again.      *)
Reopen ==
  /\ whole
  /\ flushing' = FALSE
  /\ view' = stored
  /\ UNCHANGED <<stored, whole>>

Next ==
  \/ AddRow \/ Put \/ RemoveRow \/ AddCol \/ RemoveCol
  \/ BeginFlush \/ Progress \/ Grow \/ Rewrite \/ Succeed \/ Fail
  \/ CutShort \/ Reopen

Spec == Init /\ [][Next]_vars
=============================================================================

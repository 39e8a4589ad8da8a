--------------------------- MODULE AppendOnlyLog ---------------------------
(***************************************************************************)
(* What the audit log promises (requirements.md:78): rows are only ever    *)
(* added at the end, whole transactions at a time, and each row names the  *)
(* hash of the row before it.  A row stands for its hash.                  *)
(***************************************************************************)
EXTENDS Integers, Sequences

CONSTANT Genesis   \* the hash before the first row

VARIABLE log       \* log : the committed rows, [id, prev, at]

(* The hash the next row has to name. *)
HashAfter(q) == IF q = <<>> THEN Genesis ELSE q[Len(q)].id

(* Each row names the one before it, and no hash occurs twice. *)
Linked(q) ==
  /\ \A i \in 1..Len(q) : q[i].prev = IF i = 1 THEN Genesis ELSE q[i - 1].id
  /\ \A i, j \in 1..Len(q) : q[i].id = q[j].id => i = j

Extends(q, p) == Len(q) > Len(p) /\ \A i \in 1..Len(p) : q[i] = p[i]

Init == log = <<>>

Grow == Extends(log', log) /\ Linked(log')

Spec == Init /\ [][Grow]_log
=============================================================================

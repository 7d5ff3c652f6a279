----------------------------- MODULE StateStore -----------------------------
(***************************************************************************)
(* The state store of core/src/state: one JSON tree read and written by    *)
(* path.  The parts of the tree that the other modules speak of are cells, *)
(* a cell being named by its path, a sequence of segments, and the store   *)
(* is the value of every cell.  Its listeners are left out.                *)
(***************************************************************************)
EXTENDS Naturals, Sequences, SequencesExt

Root == <<>>

\* undefined, null and false: nothing in these modules tells them apart.
None == [kind |-> "none"]

\* set(path, value), the value given as the value of every cell at or below the path.
Set(store, path, values) ==
    [c \in DOMAIN store |-> IF IsPrefix(path, c) THEN values[c] ELSE store[c]]

SetTo(store, path, value) == Set(store, path, [c \in DOMAIN store |-> value])

NewStore(cells) == [c \in cells |-> None]
=============================================================================

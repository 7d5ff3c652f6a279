---------------------------- MODULE SpecDocument ----------------------------
(***************************************************************************)
(* Spec documents and the patches stored between two of their versions.    *)
(*                                                                         *)
(* A document is a partial function from the places of a spec (its leaf    *)
(* and array positions, which computePatches treats as atomic) to values.  *)
(* The patch list that computePatches writes names each place at most      *)
(* once, so the order of the list does not matter and the list is a pair:  *)
(* the places it removes and the places it adds or replaces.  The nested  *)
(* form, with JSON pointers and arrays, is left out.                       *)
(***************************************************************************)
CONSTANTS
    Place,   \* the places a document may define
    Value,   \* the values a place may hold
    NoDoc    \* the absence of a document

Document == UNION {[S -> Value] : S \in SUBSET Place}

ASSUME NoDocAssumption == NoDoc \notin Document

PatchList == [remove : SUBSET Place, put : Document]

\* Fault for the runs' mutants: deleted keys yield no operation.
ComputePatchesNoRemove(before, after) ==
    LET changed == {k \in DOMAIN after :
                      k \in DOMAIN before => before[k] # after[k]}
    IN  [remove |-> {}, put |-> [k \in changed |-> after[k]]]

(***************************************************************************)
(* computePatches: 'remove' for the keys only before has, 'add' and        *)
(* 'replace' for the keys of after that are new or whose value differs.    *)
(***************************************************************************)
ComputePatches(before, after) ==
    LET changed == {k \in DOMAIN after :
                      k \in DOMAIN before => before[k] # after[k]}
    IN  [remove |-> DOMAIN before \ DOMAIN after,
         put    |-> [k \in changed |-> after[k]]]

(***************************************************************************)
(* applyPatches: 'remove' deletes a key, 'add' and 'replace' both assign   *)
(* it, and every other key keeps its value.                                *)
(***************************************************************************)
ApplyPatches(doc, patches) ==
    [k \in (DOMAIN doc \ patches.remove) \cup DOMAIN patches.put |->
       IF k \in DOMAIN patches.put THEN patches.put[k] ELSE doc[k]]
=============================================================================

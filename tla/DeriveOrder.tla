---------------------------- MODULE DeriveOrder ----------------------------
(***************************************************************************)
(* core/src/derive/topo-sort.ts: the order in which derived paths are      *)
(* evaluated, by a depth-first walk over their dependencies.  derives is   *)
(* the sequence of derived paths in the order of the spec, deps the        *)
(* sequence of paths each of them reads.                                   *)
(***************************************************************************)
EXTENDS Naturals, Sequences, SequencesExt

Paths(derives) == {derives[i] : i \in DOMAIN derives}

\* visit: a walk is what is sorted, what is being visited, and whether a cycle was
\* met, which ends it.
RECURSIVE Visit(_, _, _, _)
Visit(derives, deps, path, walk) ==
    IF walk.cyclic \/ path \in ToSet(walk.sorted) THEN walk
    ELSE IF path \in walk.visiting THEN [walk EXCEPT !.cyclic = TRUE]
    ELSE LET below == FoldLeft(LAMBDA w, dep : IF dep \in Paths(derives)
                                               THEN Visit(derives, deps, dep, w) ELSE w,
                               [walk EXCEPT !.visiting = @ \cup {path}], deps[path])
         IN  [below EXCEPT !.visiting = @ \ {path}, !.sorted = Append(@, path)]

TopologicalSort(derives, deps) ==
    FoldLeft(LAMBDA w, path : Visit(derives, deps, path, w),
             [sorted |-> <<>>, visiting |-> {}, cyclic |-> FALSE], derives)
=============================================================================

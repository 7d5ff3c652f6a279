------------------------ MODULE MCSqlVersionedStore ------------------------
(***************************************************************************)
(* SqlVersionedStore on small instances.  The documents and edits cover    *)
(* every kind of patch entry: a place added, removed, replaced, unchanged. *)
(***************************************************************************)
EXTENDS SqlVersionedStore

CONSTANTS c1, c2, p1, p2, v1, v2
ASSUME InstanceForm ==
    {c1, c2} \subseteq Client /\ {p1, p2} \subseteq Place /\ {v1, v2} \subseteq Value

DocPX == [place \in {p1} |-> v1]
DocPYQX == [place \in {p1, p2} |-> IF place = p1 THEN v2 ELSE v1]
DocQX == [place \in {p2} |-> v1]
DocQY == [place \in {p2} |-> v2]

MCPushed == {DocPX, DocPYQX, DocQX}
MCTwoPushed == {DocPX, DocPYQX}
MCEdit == {[remove |-> {p2}, put |-> DocPX], [remove |-> {}, put |-> DocQY]}
MCOneEdit == {[remove |-> {p1}, put |-> DocQY]}
MCInitial == DocPX
=============================================================================

------------------------------ MODULE MCSidecar -----------------------------
EXTENDS Sidecar

MCBegins == [n \in Names |-> {n}]
Mark(n, f) == [name |-> n, flag |-> f, glued |-> FALSE]

\* A mention, one that a query of the same name replaces, and an interrupt.
MCTexts ==
    {<<Mark("alice", 0)>>, <<Mark("alice", 0), Mark("alice", 2)>>, <<Mark("alice", 1)>>}
=============================================================================

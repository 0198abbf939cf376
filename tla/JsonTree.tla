------------------------------ MODULE JsonTree ------------------------------
(***************************************************************************)
(* The values of the JSON library (hw4/libs/json/json.c) as they lie in    *)
(* memory: nodes linked with their parent, their siblings and the two ends *)
(* of their list of children.  A call whose assertion fails aborts the     *)
(* program and is not made.                                                *)
(***************************************************************************)
EXTENDS SequencesExt

CONSTANTS Nodes,    \* the memory there is
          Null

ASSUME NodesAssumption == IsFiniteSet(Nodes) /\ Null \notin Nodes

VARIABLES node,      \* the nodes
          looped     \* history: a value was put below itself

treeVars == <<node, looped>>

Tags == {"null", "array", "object"}    \* "null" stands for every tag without children

\* A freed node, and what mknode's calloc makes of it.
Freed == [tag |-> "freed", parent |-> Null, prev |-> Null, next |-> Null, head |-> Null,
          tail |-> Null, key |-> FALSE]

Live == {n \in Nodes : node[n].tag # "freed"}
Inner(n) == node[n].tag \in {"array", "object"}

\* json_foreach: from the head along next; a walk is cut off at a freed node.
Children(n) ==
    LET walk[k \in 0..Cardinality(Nodes)] ==
            [m \in Nodes \cup {Null} |-> IF m = Null \/ k = 0 THEN <<>> ELSE <<m>> \o walk[k - 1][node[m].next]]
    IN walk[Cardinality(Nodes)][node[n].head]

\* n and all that is below it.
Below(n) ==
    {m \in Nodes : \A S \in SUBSET Nodes :
        n \in S /\ (\A q \in S : ToSet(Children(q)) \subseteq S) => m \in S}

-----------------------------------------------------------------------------
\* json_mknull, json_mkbool, json_mkstring, json_mknumber, json_mkarray, json_mkobject.
Make(n, tag) ==
    /\ node[n].tag = "freed"
    /\ node' = [node EXCEPT ![n] = [Freed EXCEPT !.tag = tag]]
    /\ UNCHANGED looped

Linked(heap, p, c) ==
    [heap EXCEPT ![c].parent = p, ![c].prev = heap[p].tail, ![c].next = Null]

AppendNodeTail(p, c) ==    \* mutant: the last child is not told of the next
    LET linked == Linked(node, p, c)
        last == node[p].tail
    IN IF last = Null THEN [linked EXCEPT ![p].head = c, ![p].tail = c]
       ELSE [linked EXCEPT ![p].tail = c]

AppendNode(p, c) ==
    LET linked == Linked(node, p, c)
        last == node[p].tail
    IN IF last = Null THEN [linked EXCEPT ![p].head = c, ![p].tail = c]
       ELSE [linked EXCEPT ![last].next = c, ![p].tail = c]

PrependNode(p, c) ==
    LET linked == [node EXCEPT ![c].parent = p, ![c].prev = Null, ![c].next = node[p].head]
        first == node[p].head
    IN IF first = Null THEN [linked EXCEPT ![p].head = c, ![p].tail = c]
       ELSE [linked EXCEPT ![first].prev = c, ![p].head = c]

\* The assertions: the parent's tag, and that the child has no parent yet.  They
\* do not ask whether the parent is below the child.
May(p, c) == Inner(p) /\ c \in Live /\ node[c].parent = Null

\* json_append_element, json_append_member, and the prepending ones: a member has a key.
Add(p, c) ==
    /\ May(p, c)
    /\ \E heap \in {AppendNode(p, c), PrependNode(p, c)} :
        node' = [heap EXCEPT ![c].key = node[p].tag = "object"]
    /\ looped' = (looped \/ p \in Below(c))

Removed(n) ==
    LET p == node[n].parent  before == node[n].prev  after == node[n].next
        heap1 == IF before # Null THEN [node EXCEPT ![before].next = after]
                 ELSE [node EXCEPT ![p].head = after]
        heap2 == IF after # Null THEN [heap1 EXCEPT ![after].prev = before]
                 ELSE [heap1 EXCEPT ![p].tail = before]
    IN IF p = Null THEN node
       ELSE [heap2 EXCEPT ![n].parent = Null, ![n].prev = Null, ![n].next = Null, ![n].key = FALSE]

\* json_remove_from_parent.
RemoveFromParent(n) ==
    /\ n \in Live /\ ~looped
    /\ node' = Removed(n)
    /\ UNCHANGED looped

DeleteLinked(n) ==    \* mutant: the value is not taken from its parent first
    /\ n \in Live /\ ~looped
    /\ node' = [m \in Nodes |-> IF m \in Below(n) THEN Freed ELSE node[m]]
    /\ UNCHANGED looped

\* json_delete: the value leaves its parent, and its children are deleted each the
\* same way, the next taken before.
Delete(n) ==
    /\ n \in Live /\ ~looped
    /\ node' = [m \in Nodes |-> IF m \in Below(n) THEN Freed ELSE Removed(n)[m]]
    /\ UNCHANGED looped

Init == node = [n \in Nodes |-> Freed] /\ looped = FALSE

Next == \/ \E n \in Nodes : RemoveFromParent(n) \/ Delete(n) \/ \E tag \in Tags : Make(n, tag)
        \/ \E p, c \in Nodes : ~looped /\ Add(p, c)

Spec == Init /\ [][Next]_treeVars

-----------------------------------------------------------------------------
\* json_check of one node; what it says of the children below comes with them.
Check(n) ==
    LET head == node[n].head  tail == node[n].tail  list == Children(n) IN
    /\ node[n].tag \in Tags
    /\ Inner(n) =>
        \/ head = Null /\ tail = Null
        \/ /\ head # Null /\ tail # Null /\ node[head].prev = Null
           /\ \A c \in ToSet(list) :
                /\ c # n /\ node[c].next \notin {c, head}
                /\ node[c].parent = n
                /\ node[c].next # Null => node[node[c].next].prev = c
                /\ node[c].key = (node[n].tag = "object")
           /\ list[Len(list)] = tail

(* json_check has nothing to say of any value, after any calls that put no   *)
(* value below itself; a value that has no parent has no key, and none of    *)
(* the freed is linked to (json.c:1313-1381, :601-621).                      *)
ChecksOut ==
    ~looped =>
        \A n \in Live :
            /\ Check(n)
            /\ {node[n].parent, node[n].prev, node[n].next, node[n].head, node[n].tail}
                   \subseteq Live \cup {Null}
            /\ node[n].parent = Null => ~node[n].key /\ node[n].prev = Null /\ node[n].next = Null

(* The linked nodes are the forest that json.h promises.                     *)
F == INSTANCE JsonForest WITH live <- Live, kids <- [n \in Nodes |-> Children(n)]

\* Any calls on the nodes in memory are calls on the forest (json.c:407-621).
ImplementsForest == F!Spec
=============================================================================

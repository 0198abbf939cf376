----------------------------- MODULE JsonForest -----------------------------
(***************************************************************************)
(* What json.h (hw4/libs/json) promises of JSON values: each array and     *)
(* object has its children in order, a value is the child of one at most,  *)
(* and a deleted value takes its descendants with it.                      *)
(***************************************************************************)
EXTENDS SequencesExt

CONSTANTS Nodes

VARIABLES live,    \* the values there are
          kids     \* the children of each

Orphan(c) == \A p \in live : c \notin ToSet(kids[p])

\* n and all that is below it.
Below(n) ==
    {m \in Nodes : \A S \in SUBSET Nodes :
        n \in S /\ (\A q \in S : ToSet(kids[q]) \subseteq S) => m \in S}

Make(n) ==
    /\ n \notin live
    /\ live' = live \cup {n}
    /\ kids' = [kids EXCEPT ![n] = <<>>]

AppendKid(p, c) == kids' = [kids EXCEPT ![p] = Append(@, c)]
PrependKid(p, c) == kids' = [kids EXCEPT ![p] = <<c>> \o @]

Attach(p, c) ==
    /\ p \in live /\ c \in live /\ Orphan(c)
    /\ AppendKid(p, c) \/ PrependKid(p, c)
    /\ UNCHANGED live

Without(c) ==
    [p \in Nodes |-> IF c \in ToSet(kids[p])
                     THEN RemoveAt(kids[p], CHOOSE i \in DOMAIN kids[p] : kids[p][i] = c)
                     ELSE kids[p]]

Detach(c) ==
    /\ c \in live
    /\ kids' = Without(c)
    /\ UNCHANGED live

Delete(n) ==
    /\ n \in live
    /\ live' = live \ Below(n)
    /\ kids' = [p \in Nodes |-> IF p \in Below(n) THEN <<>> ELSE Without(n)[p]]

Init == live = {} /\ kids = [n \in Nodes |-> <<>>]

Next == \E n \in Nodes : Make(n) \/ Detach(n) \/ Delete(n) \/ \E p \in Nodes : Attach(p, n)

Spec == Init /\ [][Next]_<<live, kids>>
=============================================================================

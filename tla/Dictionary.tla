------------------------------ MODULE Dictionary ------------------------------
(***************************************************************************)
(* What maplib.h (hw3) promises of a map from keys to values, operation by *)
(* operation.  HashMap implements it.                                      *)
(***************************************************************************)
CONSTANTS Keys, Vals, Absent

VARIABLES
  dict,    \* the value of each key, or Absent
  answer   \* what the last operation told its caller

dvars == <<dict, answer>>

Answers == [op : {"none", "insert", "remove", "find", "assign"}, key : Keys \cup {Absent},
            ok : BOOLEAN, val : Vals \cup {Absent}]

Reply(op, k, ok, v) == [op |-> op, key |-> k, ok |-> ok, val |-> v]

Init ==
  /\ dict = [k \in Keys |-> Absent]
  /\ answer = Reply("none", Absent, FALSE, Absent)

\* "Insert key-value; return false on error or if key already present."
Insert(k, v) ==
  /\ dict[k] = Absent
  /\ dict' = [dict EXCEPT ![k] = v]
  /\ answer' = Reply("insert", k, TRUE, v)

InsertRefused(k, v) ==
  /\ UNCHANGED dict
  /\ answer' = Reply("insert", k, FALSE, v)

\* "Remove key-value; return false if key is not in map."
Remove(k) ==
  /\ dict' = [dict EXCEPT ![k] = Absent]
  /\ answer' = Reply("remove", k, dict[k] # Absent, Absent)

\* "Find location of value associated with key; return NULL, if key is not in
\* map."
Find(k) ==
  /\ UNCHANGED dict
  /\ answer' = Reply("find", k, dict[k] # Absent, dict[k])

\* The caller stores a value at the location found.
Assign(k, v) ==
  /\ dict[k] # Absent
  /\ dict' = [dict EXCEPT ![k] = v]
  /\ answer' = Reply("assign", k, TRUE, v)

Next ==
  \E k \in Keys : \/ Remove(k) \/ Find(k)
                  \/ \E v \in Vals : Insert(k, v) \/ InsertRefused(k, v) \/ Assign(k, v)

Spec == Init /\ [][Next]_dvars
=============================================================================

------------------------------ MODULE UserSet ------------------------------
(***************************************************************************)
(* What the durable user store promises: a set of users that starts as the *)
(* configured seed and changes by one user at a time.  A crash is not an   *)
(* event of this specification: it leaves the set as it is.                *)
(***************************************************************************)
CONSTANTS Users, Seed
VARIABLE set

Init == set = Seed
Add(u) == u \notin set /\ set' = set \cup {u}
Remove(u) == u \in set /\ set' = set \ {u}
Next == \E u \in Users : Add(u) \/ Remove(u)
Spec == Init /\ [][Next]_set
=============================================================================

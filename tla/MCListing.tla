------------------------------ MODULE MCListing ------------------------------
(* The names 2 to 5 are b/, b/x, b/y and c, of which b/ is a prefix and may be a key. *)
EXTENDS Listing

\* No delimiter; delimiter /; and the prefix b/ with it.
Flat == [under |-> Keys, roll |-> [k \in Keys |-> 0]]
Rolled == [under |-> Keys, roll |-> [k \in Keys |-> IF k \in 2 .. 4 THEN 2 ELSE 0]]
Inside == [under |-> Keys \cap 2 .. 4, roll |-> [k \in Keys |-> 0]]
MCViews == {Flat, Rolled, Inside}

Plain(ks) == {[key |-> k, vid |-> Null, vseq |-> k, marker |-> FALSE] : k \in ks}
Version(k, s, m) == [key |-> k, vid |-> s, vseq |-> s, marker |-> m]

\* One version each, or a key with three.
MCContents ==
  {Plain(Keys)}
  \cup {{Version(3, 3, FALSE), Version(3, 2, FALSE), Version(3, 4, TRUE), Version(5, 5, FALSE)}}
=============================================================================

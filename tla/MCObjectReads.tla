---------------------------- MODULE MCObjectReads ----------------------------
EXTENDS ObjectReads

\* Part lists with gaps in the numbering, parts of no, one and two bytes.
Sized(sizes) == [i \in DOMAIN sizes |-> [number |-> 2 * i, size |-> sizes[i]]]
SmallParts == {<<>>} \cup {Sized(s) : s \in UNION {[1..n -> 0..2] : n \in 1..3}}

\* Every range with ends up to one past the longest object, every part number up to one too many.
Ranges == {NoRange, [NoRange EXCEPT !.form = "odd"]}
          \cup [form : {"suffix"}, first : {0}, last : 0..7]
          \cup [form : {"from"}, first : 0..7, last : {0}] \cup [form : {"span"}, first : 0..7, last : 0..7]
Reads == [kind : {"get"}, given : {{}}, fails : {{}}, part : {0}, range : Ranges, max : {0}]
         \cup [kind : {"get", "head"}, given : {{}}, fails : {{}}, part : 0..4, range : {NoRange}, max : {0}]
Conditional == {[kind |-> "get", given |-> g, fails |-> f, part |-> 0, range |-> NoRange, max |-> 0] :
                  g \in SUBSET Conditions, f \in SUBSET Conditions}
Listings == [kind : {"attributes", "parts"}, given : {{}}, fails : {{}}, part : {0}, range : {NoRange}, max : 1..2]
SmallAsks == Reads \cup {a \in Conditional : a.fails \subseteq a.given} \cup Listings
=============================================================================

---------------------------- MODULE MCObjectIndex ----------------------------
EXTENDS ObjectIndex

\* Every pair of headers, and the handful a versioned bucket is checked with.
AllConds == [match : Values \cup {None, Any}, none : Values \cup {None, Any}]
FewConds == {NoCond, [match |-> None, none |-> Any], [match |-> Any, none |-> None]}
=============================================================================

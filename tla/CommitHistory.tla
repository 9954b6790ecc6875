---------------------------- MODULE CommitHistory ----------------------------
(***************************************************************************)
(* CommitChain with a history variable: every content the bucket has had   *)
(* because a client wrote it. What a commit document or a rollback shows   *)
(* can then be compared with what really was there.                        *)
(***************************************************************************)
EXTENDS CommitChain

CONSTANTS p, e

Mixed == {{p}, {p, e}}

VARIABLE written

historyVars == <<vars, written>>

HistoryInit == Init /\ written = {NoObjects}

\* A restore is the one step that changes the index without a client writing it.
HistoryNext ==
  /\ Next
  /\ written' = IF restoring' = restoring THEN written \cup {index'} ELSE written

HistorySpec == HistoryInit /\ [][HistoryNext]_historyVars

\* Every commit document, opened with the right identity, is the bucket as it was at one
\* moment ("one 32-byte reference captures the entire bucket at a point in time").
PointInTime == \A r \in DOMAIN docs : ContentOf(r) \in written

\* A rollback puts back a content the bucket really had: whatever identity the request
\* supplied, it never leaves rows whose references are missing.
RollbackIsReal == index \in written
=============================================================================

--------------------------- MODULE MCCommitChain ---------------------------
EXTENDS CommitChain

CONSTANTS p, e

PlainOrSealed == {{p}, {e}}
OneMixed == {{p, e}}
=============================================================================

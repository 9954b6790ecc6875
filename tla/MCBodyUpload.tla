---------------------------- MODULE MCBodyUpload -----------------------------
EXTENDS BodyUpload

\* Bodies of up to three chunks, their length announced or not (in aws-chunked framing also one
\* byte off), with every protection a client may add.
Bodies == {<<>>, <<<<1>>>>, <<<<1>>, <<2, 3>>>>, <<<<1>>, <<2, 3>>, <<4>>>>}
SmallRequests ==
  {u \in [kind : Kinds, chunks : Bodies, length : {Unknown} \cup 0..5, digest : BOOLEAN,
          sum : {"none", "header", "trailer"}] :
     LET n == Len(FlattenSeq(u.chunks)) IN
     /\ u.length \in {Unknown, n} \/ (u.kind # "plain" /\ u.length \in {n - 1, n + 1} \ {0})
     /\ u.sum = "trailer" => u.kind # "plain"}
=============================================================================

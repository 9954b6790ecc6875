----------------------------- MODULE KeyRegister -----------------------------
(***************************************************************************)
(* What one key of a bucket that was never versioned promises its clients: *)
(* a register with conditional writes, whose value carries tags. A write,  *)
(* a delete or a change of tags takes effect at one moment between its     *)
(* request and its answer, against the value the key has at that moment,   *)
(* and is refused only if its condition fails, or nothing is there to tag. *)
(***************************************************************************)
CONSTANTS
  Threads,  \* concurrent requests
  Values,   \* entity tags of the objects written
  Conds     \* conditions requests carry: If-Match and If-None-Match

None == ""  \* no object; also an absent If-Match or If-None-Match header
Any  == "*"

NoCond == [match |-> None, none |-> None]

\* PutCondition.Ok
Ok(cond, cur) ==
  /\ cond.match # None => cur # None /\ cond.match \in {Any, cur}
  /\ cond.none # None => cur = None \/ cond.none \notin {Any, cur}

VARIABLES
  cur,  \* the object and whether it is tagged
  op    \* per thread: the request not answered yet

regVars == <<cur, op>>

Absent == [val |-> None, tagged |-> FALSE]
Idle == [kind |-> "none", val |-> None, tagged |-> FALSE, cond |-> NoCond]

RegInit == cur = Absent /\ op = [t \in Threads |-> Idle]

Invoke(t, kind, v, tagged, c) ==
  /\ op[t].kind = "none"
  /\ op' = [op EXCEPT ![t] = [kind |-> kind, val |-> v, tagged |-> tagged, cond |-> c]]
  /\ UNCHANGED cur

Allowed(o) == IF o.kind = "tag" THEN cur.val # None ELSE Ok(o.cond, cur.val)

TakeEffect(t) ==
  /\ op[t].kind # "none" /\ Allowed(op[t])
  /\ cur' = [val |-> IF op[t].kind = "tag" THEN cur.val ELSE op[t].val, tagged |-> op[t].tagged]
  /\ op' = [op EXCEPT ![t] = Idle]

Fail(t) ==
  /\ op[t].kind # "none" /\ ~Allowed(op[t])
  /\ op' = [op EXCEPT ![t] = Idle]
  /\ UNCHANGED cur

RegNext == \E t \in Threads :
  \/ \E v \in Values, c \in Conds, tagged \in BOOLEAN : Invoke(t, "write", v, tagged, c)
  \/ \E tagged \in BOOLEAN : Invoke(t, "tag", None, tagged, NoCond)
  \/ Invoke(t, "write", None, FALSE, NoCond)
  \/ TakeEffect(t) \/ Fail(t)

RegSpec == RegInit /\ [][RegNext]_regVars
=============================================================================

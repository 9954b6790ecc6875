----------------------------- MODULE ObjectIndex -----------------------------
(***************************************************************************)
(* The index rows of one key: the object handlers (PUT, copy, DELETE,      *)
(* tagging) and the two families of stores behind them, the in-memory map  *)
(* and the SQL tables. A handler reads the bucket once, stamps its version *)
(* later and calls the store later still; every store call is atomic.      *)
(***************************************************************************)
EXTENDS Integers, FiniteSets

CONSTANTS
  Threads,   \* concurrent requests
  Values,    \* entity tags of the objects clients write
  Conds,     \* conditions PUT requests carry
  Stores,    \* the stores a gateway may be configured with
  InitMode,  \* the versioning status of the bucket at the start
  Settable,  \* the statuses clients set later
  MaxOps     \* bound on the requests

Statuses == {"", "Enabled", "Suspended"}
None == ""
Any  == "*"
NoCond == [match |-> None, none |-> None]

ASSUME IndexAssumption ==
  /\ Stores \subseteq {"memory", "sqlite", "postgres"}
  /\ InitMode \in Statuses /\ Settable \subseteq {"Enabled", "Suspended"}
  /\ None \notin Values /\ Any \notin Values
  /\ NoCond \in Conds
  /\ Conds \subseteq [match : Values \cup {None, Any}, none : Values \cup {None, Any}]
  /\ MaxOps \in Nat

VARIABLES
  store,  \* the store of this deployment, chosen at start-up
  mode,   \* the bucket's versioning column
  rows,   \* the rows of the key
  clock,  \* the last time a write was stamped
  req,    \* per thread: the request in flight
  ops     \* requests started so far

vars == <<store, mode, rows, clock, req, ops>>

NullVersion == 0  \* the id "null"; other ids are unique, so the stamp serves as the id

Ok(cond, cur) ==
  /\ cond.match # None => cur # None /\ cond.match \in {Any, cur}
  /\ cond.none # None => cur = None \/ cond.none \notin {Any, cur}

(***************************************************************************)
(* The stores.                                                             *)
(***************************************************************************)
Newest(rs) == {r \in rs : \A s \in rs : s.vseq <= r.vseq}

\* sortVersions: the newest row and no other is the latest.
sortVersions(rs) == {[r EXCEPT !.latest = r \in Newest(rs)] : r \in rs}

\* UPDATE ... SET is_latest = 1 WHERE vseq = MAX(vseq): promotes, demotes nothing.
promote(rs) == {[r EXCEPT !.latest = r.latest \/ r \in Newest(rs)] : r \in rs}

Demoted(rs) == {[r EXCEPT !.latest = FALSE] : r \in rs}

Without(rs, id) == {r \in rs : r.id # id}

\* Mutants: the new row is latest whatever its stamp; the new row replaces the latest one.
AfterPutUnsorted(rs, o) == Without(Demoted(rs), o.id) \cup {o}
AfterPutSupersedes(rs, o) == sortVersions({r \in rs : ~r.latest /\ r.id # o.id} \cup {o})

AfterPut(rs, o) ==
  IF store = "memory" THEN sortVersions(Without(rs, o.id) \cup {o})
  ELSE promote(Without(Demoted(rs), o.id) \cup {o})

AfterDeleteVersion(rs, id) ==
  IF store = "memory" THEN sortVersions(Without(rs, id))
  ELSE IF \E r \in rs : r.id = id /\ r.latest THEN promote(Without(rs, id))
  ELSE Without(rs, id)

\* What GetObject may return: the row marked latest. SELECT ... WHERE is_latest = 1 takes
\* whichever it meets first should there be several.
Latest == {r \in rows : r.latest}

\* The entity tags a condition may be checked against, None for no object or a marker.
Visible == IF Latest = {} THEN {None} ELSE {IF r.marker THEN None ELSE r.val : r \in Latest}

(***************************************************************************)
(* Requests.                                                               *)
(***************************************************************************)
Idle == [pc |-> "idle", mode |-> "", cond |-> NoCond, val |-> None, marker |-> FALSE,
         tagged |-> FALSE, ver |-> NullVersion, vseq |-> 0]

Init ==
  /\ store \in Stores
  /\ mode = InitMode
  /\ rows = {} /\ clock = 0
  /\ req = [t \in Threads |-> Idle]
  /\ ops = 0

Begin(t, r) ==
  /\ req[t].pc = "idle" /\ ops < MaxOps
  /\ ops' = ops + 1
  /\ req' = [req EXCEPT ![t] = r]
  /\ UNCHANGED <<store, mode, rows, clock>>

\* handlePutObject up to the end of the upload. A condition that fails now ends it.
BeginPut(t, v, c, tagged) ==
  \E cur \in Visible :
    /\ Ok(c, cur)
    /\ Begin(t, [Idle EXCEPT !.pc = "stamp", !.mode = mode, !.cond = c, !.val = v, !.tagged = tagged])

\* handleCopyObject onto its own key: reads the source row, writes it again. Outside an
\* enabled bucket the request must replace the metadata, which no property tells apart.
BeginCopy(t) ==
  \E src \in Latest :
    /\ ~src.marker
    /\ Begin(t, [Idle EXCEPT !.pc = "stamp", !.mode = mode, !.val = src.val, !.tagged = src.tagged])

\* Mutant: a suspended bucket gets an empty row in the place of a marker.
BeginDeleteUnmarked(t) ==
  Begin(t, [Idle EXCEPT !.pc = IF mode = "" THEN "removeKey" ELSE "stamp",
                        !.mode = mode, !.marker = mode = "Enabled"])

\* deleteOne without a version id: a marker once the bucket has been versioned.
BeginDelete(t) ==
  Begin(t, [Idle EXCEPT !.pc = IF mode = "" THEN "removeKey" ELSE "stamp",
                        !.mode = mode, !.marker = mode # ""])

BeginDeleteVersion(t, id) == Begin(t, [Idle EXCEPT !.pc = "removeVersion", !.ver = id])

\* stampVersion: the time is taken before the store call.
stampVersion(t) ==
  /\ req[t].pc = "stamp"
  /\ clock' = clock + 1
  /\ req' = [req EXCEPT ![t].pc = "commit", ![t].vseq = clock + 1,
                        ![t].ver = IF req[t].mode = "Enabled" THEN clock + 1 ELSE NullVersion]
  /\ UNCHANGED <<store, mode, rows, ops>>

RowOf(r) == [id |-> r.ver, vseq |-> r.vseq, val |-> r.val, tagged |-> r.tagged,
             marker |-> r.marker, latest |-> TRUE]

Finish(t) == req' = [req EXCEPT ![t] = Idle] /\ UNCHANGED <<store, mode, clock, ops>>

\* Mutant: the store relies on the handler's early check.
PutObjectUnchecked(t) ==
  /\ req[t].pc = "commit" /\ store # "postgres"
  /\ rows' = AfterPut(rows, RowOf(req[t]))
  /\ Finish(t)

\* One critical section: the mutex of the map, SQLite's immediate write lock.
PutObject(t) ==
  /\ req[t].pc = "commit" /\ store # "postgres"
  /\ \E cur \in Visible :
       IF Ok(req[t].cond, cur) THEN rows' = AfterPut(rows, RowOf(req[t])) ELSE UNCHANGED rows
  /\ Finish(t)

\* A Postgres transaction that called lockKey and has not committed.
Locked == \E t \in Threads : req[t].pc = "locked"

\* Mutant: the transaction does not call lockKey.
CheckConditionUnlocked(t) ==
  /\ req[t].pc = "commit" /\ store = "postgres"
  /\ \E cur \in Visible :
       req' = [req EXCEPT ![t] = IF Ok(req[t].cond, cur) THEN [@ EXCEPT !.pc = "locked"] ELSE Idle]
  /\ UNCHANGED <<store, mode, rows, clock, ops>>

\* Under the key's advisory lock the transaction first checks the condition ...
CheckCondition(t) ==
  /\ req[t].pc = "commit" /\ store = "postgres" /\ ~Locked
  /\ \E cur \in Visible :
       req' = [req EXCEPT ![t] = IF Ok(req[t].cond, cur) THEN [@ EXCEPT !.pc = "locked"] ELSE Idle]
  /\ UNCHANGED <<store, mode, rows, clock, ops>>

\* ... and then demotes, inserts and promotes. Each statement sees what others have committed.
PutLocked(t) ==
  /\ req[t].pc = "locked"
  /\ rows' = AfterPut(rows, RowOf(req[t]))
  /\ Finish(t)

\* Takes no lock: nothing keeps it out of another transaction's critical section.
DeleteObject(t) ==
  /\ req[t].pc = "removeKey"
  /\ rows' = {}
  /\ Finish(t)

\* An absent version is not an error.
DeleteVersion(t) ==
  /\ req[t].pc = "removeVersion" /\ ~Locked
  /\ rows' = AfterDeleteVersion(rows, req[t].ver)
  /\ Finish(t)

\* taggedObject: the latest row, or the version named, must be an object.
BeginTagging(t, tagged) ==
  \/ \E r \in Latest : ~r.marker /\ Begin(t, [Idle EXCEPT !.pc = "tag", !.tagged = tagged])
  \/ \E r \in rows : ~r.marker /\ Begin(t, [Idle EXCEPT !.pc = "tagVersion", !.ver = r.id, !.tagged = tagged])

\* SetObjectTags on the latest row, whichever that is by now, or on the version; none is an error.
SetObjectTags(t) ==
  /\ req[t].pc \in {"tag", "tagVersion"}
  /\ LET Addressed(r) == IF req[t].pc = "tag" THEN r.latest ELSE r.id = req[t].ver
     IN  rows' = {[r EXCEPT !.tagged = IF Addressed(r) THEN req[t].tagged ELSE @] : r \in rows}
  /\ Finish(t)

SetBucketVersioning(status) ==
  /\ mode' = status
  /\ UNCHANGED <<store, rows, clock, req, ops>>

Ids == {r.id : r \in rows} \cup {NullVersion}

Next ==
  \/ \E status \in Settable : SetBucketVersioning(status)
  \/ \E t \in Threads :
       \/ \E v \in Values, c \in Conds, tagged \in BOOLEAN : BeginPut(t, v, c, tagged)
       \/ \E id \in Ids : BeginDeleteVersion(t, id)
       \/ \E tagged \in BOOLEAN : BeginTagging(t, tagged)
       \/ BeginCopy(t) \/ BeginDelete(t) \/ stampVersion(t)
       \/ PutObject(t) \/ CheckCondition(t) \/ PutLocked(t) \/ DeleteObject(t) \/ DeleteVersion(t) \/ SetObjectTags(t)

Spec == Init /\ [][Next]_vars

(***************************************************************************)
(* Properties.                                                             *)
(***************************************************************************)
Row == [id : Nat, vseq : Nat, val : Values \cup {None}, tagged : BOOLEAN,
        marker : BOOLEAN, latest : BOOLEAN]
Request == [pc : {"idle", "stamp", "commit", "locked", "removeKey", "removeVersion", "tag", "tagVersion"},
            mode : Statuses, cond : Conds, val : Values \cup {None}, marker : BOOLEAN,
            tagged : BOOLEAN, ver : Nat, vseq : Nat]

\* Type correctness; a row is an object or a delete marker, never an empty object.
TypeOK ==
  /\ mode \in Statuses /\ rows \subseteq Row /\ \A r \in rows : r.marker <=> r.val = None
  /\ clock \in Nat /\ ops \in Nat
  /\ req \in [Threads -> Request]

\* The newest row of a key is marked latest, in whatever order concurrent writes are stamped
\* and committed and versions deleted; in the in-memory store it is the only one so marked.
NewestIsLatest == Newest(rows) \subseteq Latest /\ (store = "memory" => Cardinality(Latest) <= 1)

\* A key has at most one latest row: GetObject, ListObjects and conditional writes mean the
\* same object ("GetObject returns the key's latest version").
OneLatest == Cardinality(Latest) <= 1

\* A version written under versioning is never lost or rewritten except by a request that names
\* it ("keep the old index rows instead of superseding them, insert delete markers on DELETE").
VersionsKept ==
  [][\A r \in rows : r.id # NullVersion =>
       \/ \E s \in rows' : s.id = r.id /\ s.vseq = r.vseq /\ s.val = r.val /\ s.marker = r.marker
       \/ \E t \in Threads : req[t].pc = "removeVersion" /\ req[t].ver = r.id]_vars

\* When the row of a conditional PUT enters the index its condition still holds of the key
\* ("the condition check, latest demotion and insert below must be one atomic step").
ConditionHolds ==
  [][\A t \in Threads :
       req[t].pc \in {"commit", "locked"} /\ req'[t].pc = "idle" /\ rows' # rows =>
         \E cur \in Visible : Ok(req[t].cond, cur)]_vars

(***************************************************************************)
(* In a bucket that was never versioned a key is a register.               *)
(***************************************************************************)
\* The latest row, and per thread the request whose store call is still to come.
regCur ==
  IF Latest = {} THEN [val |-> None, tagged |-> FALSE]
  ELSE LET r == CHOOSE r \in Latest : TRUE IN [val |-> r.val, tagged |-> r.tagged]

regOp ==
  [t \in Threads |->
     [kind |-> IF req[t].pc \in {"stamp", "commit", "locked", "removeKey"}
                  \/ (req[t].pc = "removeVersion" /\ req[t].ver = NullVersion) THEN "write"
               ELSE IF req[t].pc \in {"tag", "tagVersion"} THEN "tag" ELSE "none",
      val |-> req[t].val, tagged |-> req[t].tagged, cond |-> req[t].cond]]

Register == INSTANCE KeyRegister WITH cur <- regCur, op <- regOp

\* Conditional PUTs, plain PUTs, copies, deletes and changes of tags of one key, however their
\* early checks, uploads, stamps and store calls interleave, behave as atomic operations of a
\* register ("Checked atomically with the index write"): tags go to the object that is there when
\* they are written, and never to one that was deleted or replaced before.
IsRegister == Register!RegSpec
=============================================================================

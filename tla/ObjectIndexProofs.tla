-------------------------- MODULE ObjectIndexProofs --------------------------
(***************************************************************************)
(* Proofs about ObjectIndex, for any number of requests, values and        *)
(* conditions and for each of the stores.                                  *)
(***************************************************************************)
EXTENDS ObjectIndex, FiniteSetTheorems, TLAPS

\* What a store call does to flags and tags leaves this of a row.
SameRow(x, r) == x.id = r.id /\ x.vseq = r.vseq /\ x.val = r.val /\ x.marker = r.marker
Carries(xs, rs) ==
  /\ \A x \in xs : \E r \in rs : SameRow(x, r)
  /\ \A r \in rs : \E x \in xs : SameRow(x, r)

\* Rows are objects or markers; their stamps and their ids tell them apart.
RowsOK(rs) ==
  /\ rs \subseteq Row
  /\ \A r \in rs : (r.marker <=> r.val = None) /\ r.vseq # 0 /\ r.id \in {NullVersion, r.vseq}
  /\ \A r, s \in rs : r.vseq = s.vseq \/ r.id = s.id => r = s

\* The newest row is marked; the in-memory store marks no other.
FlagsOK(rs) ==
  /\ \A r \in Newest(rs) : r.latest
  /\ store = "memory" => \A r \in rs : r.latest => r \in Newest(rs)

\* Setting a flag or the tags of a row.
LEMMA Relabel ==
  ASSUME NEW r \in Row, NEW b \in BOOLEAN
  PROVE  /\ [r EXCEPT !.latest = b] \in Row /\ SameRow([r EXCEPT !.latest = b], r)
         /\ [r EXCEPT !.latest = b].latest = b /\ [r EXCEPT !.latest = b].tagged = r.tagged
         /\ [r EXCEPT !.tagged = b] \in Row /\ SameRow([r EXCEPT !.tagged = b], r)
         /\ [r EXCEPT !.tagged = b].latest = r.latest /\ [r EXCEPT !.tagged = b].tagged = b
BY DEF Row, SameRow

\* sortVersions keeps the rows and marks the newest and no other.
LEMMA SortKeeps ==
  ASSUME NEW rs, RowsOK(rs)
  PROVE  RowsOK(sortVersions(rs)) /\ FlagsOK(sortVersions(rs)) /\ Carries(sortVersions(rs), rs)
<1> DEFINE img(r) == [r EXCEPT !.latest = r \in Newest(rs)]
<1>1. sortVersions(rs) = {img(r) : r \in rs}
  BY DEF sortVersions
<1>2. \A r \in rs : img(r) \in Row /\ SameRow(img(r), r) /\ (img(r).latest <=> r \in Newest(rs))
  <2> TAKE r \in rs
  <2>1. r \in Row /\ (r \in Newest(rs)) \in BOOLEAN
    BY DEF RowsOK
  <2>2. QED
    BY <2>1, Relabel
<1> HIDE DEF img
<1>3. RowsOK(sortVersions(rs))
  BY <1>1, <1>2 DEF RowsOK, SameRow
<1>4. Carries(sortVersions(rs), rs)
  BY <1>1, <1>2 DEF Carries
<1>5. \A r \in rs : img(r) \in Newest(sortVersions(rs)) <=> r \in Newest(rs)
  BY <1>1, <1>2 DEF Newest, SameRow
<1>6. FlagsOK(sortVersions(rs))
  BY <1>1, <1>2, <1>5 DEF FlagsOK, Newest
<1>7. QED
  BY <1>3, <1>4, <1>6

\* promote keeps the rows and marks at least the newest, which is all the SQL stores ask.
LEMMA PromoteKeeps ==
  ASSUME NEW rs, RowsOK(rs), store # "memory"
  PROVE  RowsOK(promote(rs)) /\ FlagsOK(promote(rs)) /\ Carries(promote(rs), rs)
<1> DEFINE img(r) == [r EXCEPT !.latest = r.latest \/ r \in Newest(rs)]
<1>1. promote(rs) = {img(r) : r \in rs}
  BY DEF promote
<1>2. \A r \in rs : img(r) \in Row /\ SameRow(img(r), r) /\ (r \in Newest(rs) => img(r).latest)
  <2> TAKE r \in rs
  <2>1. r \in Row /\ (r.latest \/ r \in Newest(rs)) \in BOOLEAN
    BY DEF RowsOK
  <2>2. QED
    BY <2>1, Relabel
<1> HIDE DEF img
<1>3. RowsOK(promote(rs))
  BY <1>1, <1>2 DEF RowsOK, SameRow
<1>4. Carries(promote(rs), rs)
  BY <1>1, <1>2 DEF Carries
<1>5. \A r \in rs : img(r) \in Newest(promote(rs)) => r \in Newest(rs)
  BY <1>1, <1>2 DEF Newest, SameRow
<1>6. FlagsOK(promote(rs))
  BY <1>1, <1>2, <1>5 DEF FlagsOK, Newest
<1>7. QED
  BY <1>3, <1>4, <1>6

\* So does the demotion before an insert, but for the flags.
LEMMA DemoteKeeps ==
  ASSUME NEW rs, RowsOK(rs)
  PROVE  RowsOK(Demoted(rs)) /\ Carries(Demoted(rs), rs)
<1> DEFINE img(r) == [r EXCEPT !.latest = FALSE]
<1>1. Demoted(rs) = {img(r) : r \in rs}
  BY DEF Demoted
<1>2. \A r \in rs : img(r) \in Row /\ SameRow(img(r), r)
  BY Relabel DEF RowsOK
<1> HIDE DEF img
<1>3. QED
  BY <1>1, <1>2 DEF RowsOK, SameRow, Carries

\* Rows that stay are those of the ids that are not replaced.
PutOf(xs, rs, o) ==
  /\ \A x \in xs : SameRow(x, o) \/ \E r \in rs : r.id # o.id /\ SameRow(x, r)
  /\ \A r \in rs : r.id # o.id => \E x \in xs : SameRow(x, r)

\* A PUT with a stamp of its own replaces the row of its id and keeps the others.
LEMMA PutKeeps ==
  ASSUME RowsOK(rows), NEW o \in Row, o.marker <=> o.val = None,
         o.vseq # 0, o.id \in {NullVersion, o.vseq}, \A r \in rows : r.vseq # o.vseq
  PROVE  RowsOK(AfterPut(rows, o)) /\ FlagsOK(AfterPut(rows, o)) /\ PutOf(AfterPut(rows, o), rows, o)
<1>1. ASSUME NEW rs, RowsOK(rs), Carries(rs, rows)
      PROVE  RowsOK(Without(rs, o.id) \cup {o})
  BY <1>1 DEF RowsOK, Carries, SameRow, Without
<1>2. ASSUME NEW rs, NEW xs, Carries(rs, rows), Carries(xs, Without(rs, o.id) \cup {o})
      PROVE  PutOf(xs, rows, o)
  BY <1>2 DEF Carries, SameRow, Without, PutOf
<1>3. CASE store = "memory"
  <2>1. Carries(rows, rows)
    BY DEF Carries, SameRow
  <2>2. RowsOK(Without(rows, o.id) \cup {o})
    BY <1>1, <2>1
  <2>3. AfterPut(rows, o) = sortVersions(Without(rows, o.id) \cup {o})
    BY <1>3 DEF AfterPut
  <2>4. QED
    BY <1>2, <2>1, <2>2, <2>3, SortKeeps
<1>4. CASE store # "memory"
  <2>1. RowsOK(Demoted(rows)) /\ Carries(Demoted(rows), rows)
    BY DemoteKeeps
  <2>2. RowsOK(Without(Demoted(rows), o.id) \cup {o})
    BY <1>1, <2>1
  <2>3. AfterPut(rows, o) = promote(Without(Demoted(rows), o.id) \cup {o})
    BY <1>4 DEF AfterPut
  <2>4. QED
    BY <1>2, <1>4, <2>1, <2>2, <2>3, PromoteKeeps
<1>5. QED
  BY <1>3, <1>4

\* Deleting a version keeps the others. In SQL the newest of them needs no promotion when the
\* deleted row was not marked: then it was not the newest either.
LEMMA DeleteKeeps ==
  ASSUME RowsOK(rows), FlagsOK(rows), NEW id
  PROVE  /\ RowsOK(AfterDeleteVersion(rows, id)) /\ FlagsOK(AfterDeleteVersion(rows, id))
         /\ Carries(AfterDeleteVersion(rows, id), Without(rows, id))
<1>1. RowsOK(Without(rows, id))
  BY DEF RowsOK, Without
<1>2. CASE store = "memory"
  BY <1>1, <1>2, SortKeeps DEF AfterDeleteVersion
<1>3. CASE store # "memory" /\ \E r \in rows : r.id = id /\ r.latest
  BY <1>1, <1>3, PromoteKeeps DEF AfterDeleteVersion
<1>4. CASE store # "memory" /\ ~\E r \in rows : r.id = id /\ r.latest
  <2>1. AfterDeleteVersion(rows, id) = Without(rows, id)
    BY <1>4 DEF AfterDeleteVersion
  <2>2. \A r \in rows : r.vseq \in Nat
    BY DEF RowsOK, Row
  <2>3. ASSUME NEW r \in Newest(Without(rows, id)) PROVE r \in Newest(rows)
    <3>1. r \in rows /\ \A s \in rows : s.id # id => s.vseq <= r.vseq
      BY <2>3 DEF Newest, Without
    <3>2. ASSUME NEW d \in rows, d.id = id PROVE d.vseq <= r.vseq
      <4>1. d \notin Newest(rows)
        BY <1>4, <3>2 DEF FlagsOK
      <4>2. PICK s \in rows : ~(s.vseq <= d.vseq)
        BY <4>1 DEF Newest
      <4>3. s # d /\ s.id # id
        BY <2>2, <4>2, <3>2 DEF RowsOK
      <4>4. QED
        BY <2>2, <3>1, <4>2, <4>3
    <3>3. QED
      BY <3>1, <3>2 DEF Newest
  <2>4. FlagsOK(Without(rows, id))
    BY <1>4, <2>3 DEF FlagsOK
  <2>5. QED
    BY <1>1, <2>1, <2>4 DEF Carries, SameRow
<1>5. QED
  BY <1>2, <1>3, <1>4

\* Tags change nothing else.
LEMMA TagsKeep ==
  ASSUME RowsOK(rows), FlagsOK(rows), req \in [Threads -> Request], NEW t \in Threads, SetObjectTags(t)
  PROVE  /\ RowsOK(rows)' /\ \A r \in Newest(rows') : r.latest
         /\ store = "memory" => \A r \in rows' : r.latest => r \in Newest(rows')
         /\ Carries(rows', rows) /\ Visible' = Visible
<1> DEFINE Addressed(r) == IF req[t].pc = "tag" THEN r.latest ELSE r.id = req[t].ver
           img(r) == [r EXCEPT !.tagged = IF Addressed(r) THEN req[t].tagged ELSE @]
<1>1. rows' = {img(r) : r \in rows}
  BY DEF SetObjectTags
<1>2. \A r \in rows : img(r) \in Row /\ SameRow(img(r), r) /\ (img(r).latest <=> r.latest)
  <2> TAKE r \in rows
  <2>1. r \in Row /\ r.tagged \in BOOLEAN /\ req[t].tagged \in BOOLEAN
    BY DEF RowsOK, Row, Request
  <2> DEFINE b == IF Addressed(r) THEN req[t].tagged ELSE r.tagged
  <2>2. b \in BOOLEAN /\ img(r) = [r EXCEPT !.tagged = b]
    BY <2>1
  <2> HIDE DEF b, img
  <2>3. /\ [r EXCEPT !.tagged = b] \in Row /\ SameRow([r EXCEPT !.tagged = b], r)
        /\ [r EXCEPT !.tagged = b].latest = r.latest
    BY ZenonT(40), <2>1, <2>2, Relabel
  <2>4. QED
    BY <2>2, <2>3
<1> HIDE DEF img
<1>3. RowsOK(rows)'
  BY <1>1, <1>2 DEF RowsOK, SameRow
<1>4. Carries(rows', rows)
  BY <1>1, <1>2 DEF Carries
<1>5. \A r \in rows : img(r) \in Newest(rows') <=> r \in Newest(rows)
  BY <1>1, <1>2 DEF Newest, SameRow
<1>6. /\ \A r \in Newest(rows') : r.latest
      /\ store = "memory" => \A r \in rows' : r.latest => r \in Newest(rows')
  BY <1>1, <1>2, <1>5 DEF FlagsOK, Newest
<1>7. Latest' = {img(r) : r \in Latest}
  BY <1>1, <1>2 DEF Latest
<1>8. \A r \in Latest : img(r).marker = r.marker /\ img(r).val = r.val
  BY <1>2 DEF Latest, SameRow
<1> DEFINE tag(r) == IF r.marker THEN None ELSE r.val
<1>9. Visible' = Visible
  <2>1. Visible = IF Latest = {} THEN {None} ELSE {tag(r) : r \in Latest}
    BY DEF Visible
  <2>2. Visible' = IF Latest' = {} THEN {None} ELSE {tag(r) : r \in Latest'}
    BY DEF Visible
  <2>3. \A r \in Latest : tag(img(r)) = tag(r)
    BY <1>8
  <2>4. {tag(x) : x \in {img(r) : r \in Latest}} = {tag(r) : r \in Latest}
    <3> HIDE DEF tag
    <3>1. QED
      BY <2>3
  <2>5. QED
    BY <1>7, <2>1, <2>2, <2>4
<1>10. QED
  BY <1>3, <1>4, <1>6, <1>9

\* A request that has its stamp and not yet its row.
Pending(t) == req[t].pc \in {"commit", "locked"}

\* No stamp is from the future, and none is taken twice: not by two rows, a row and a request,
\* or two requests.
StampsOK ==
  /\ \A r \in rows : r.vseq <= clock
  /\ \A t \in Threads : Pending(t) =>
       /\ req[t].vseq \in 1 .. clock /\ req[t].ver \in {NullVersion, req[t].vseq}
       /\ \A r \in rows : r.vseq # req[t].vseq
       /\ \A u \in Threads : Pending(u) /\ req[u].vseq = req[t].vseq => u = t

\* What is on its way to the index is an object or a marker.
MarkersOK ==
  \A t \in Threads : req[t].pc \in {"stamp", "commit", "locked"} => (req[t].marker <=> req[t].val = None)

\* The inductive invariant.
IndexInv == TypeOK /\ store \in Stores /\ RowsOK(rows) /\ FlagsOK(rows) /\ StampsOK /\ MarkersOK

LEMMA IdleType == Idle \in Request /\ Idle.pc = "idle"
BY IndexAssumption DEF Idle, Request, Statuses, NullVersion, None

\* A request that begins has no stamp yet.
LEMMA BeginKeeps ==
  ASSUME IndexInv, NEW t \in Threads, NEW r \in Request, Begin(t, r),
         r.pc \notin {"commit", "locked"}, r.pc = "stamp" => (r.marker <=> r.val = None)
  PROVE  IndexInv'
<1> USE DEF Begin
<1>1. UNCHANGED <<store, mode, rows, clock>> /\ req' = [req EXCEPT ![t] = r]
  OBVIOUS
<1>2. TypeOK'
  BY DEF IndexInv, TypeOK
<1>3. RowsOK(rows)' /\ FlagsOK(rows)'
  BY <1>1 DEF IndexInv, RowsOK, FlagsOK, Newest
<1>4. req \in [Threads -> Request]
  BY DEF IndexInv, TypeOK
<1>5. \A u \in Threads : Pending(u)' => u # t /\ Pending(u) /\ req'[u] = req[u]
  BY <1>1, <1>4 DEF Pending
<1>6. StampsOK'
  BY <1>1, <1>5 DEF IndexInv, StampsOK
<1>7. MarkersOK'
  BY <1>1, <1>4 DEF IndexInv, MarkersOK
<1>8. QED
  BY <1>1, <1>2, <1>3, <1>6, <1>7 DEF IndexInv

\* A request that ends leaves rows whose stamps nobody else has.
LEMMA FinishKeeps ==
  ASSUME IndexInv, NEW t \in Threads, Finish(t), RowsOK(rows)', FlagsOK(rows)',
         \A x \in rows' : x.vseq <= clock /\ \A u \in Threads : u # t /\ Pending(u) => x.vseq # req[u].vseq
  PROVE  IndexInv'
<1> USE DEF Finish
<1>1. UNCHANGED <<store, mode, clock, ops>> /\ req' = [req EXCEPT ![t] = Idle]
  OBVIOUS
<1>2. req \in [Threads -> Request]
  BY DEF IndexInv, TypeOK
<1>3. TypeOK'
  BY <1>1, <1>2, IdleType DEF IndexInv, TypeOK, RowsOK
<1>5. \A u \in Threads : Pending(u)' => u # t /\ Pending(u) /\ req'[u] = req[u]
  BY <1>1, <1>2, IdleType DEF Pending
<1>6. StampsOK'
  <2>1. \A r \in rows' : r.vseq <= clock'
    BY <1>1
  <2>2. ASSUME NEW u \in Threads, Pending(u)'
        PROVE  /\ req'[u].vseq \in 1 .. clock' /\ req'[u].ver \in {NullVersion, req'[u].vseq}
               /\ \A r \in rows' : r.vseq # req'[u].vseq
               /\ \A v \in Threads : Pending(v)' /\ req'[v].vseq = req'[u].vseq => v = u
    BY <1>1, <1>5, <2>2 DEF IndexInv, StampsOK
  <2>3. QED
    BY <2>1, <2>2 DEF StampsOK
<1>7. MarkersOK'
  BY <1>1, <1>2, IdleType DEF IndexInv, MarkersOK
<1>8. QED
  BY <1>1, <1>3, <1>6, <1>7 DEF IndexInv

\* The row of a stamped request, and what it makes of the index.
LEMMA PutStep ==
  ASSUME IndexInv, NEW t \in Threads, Pending(t), Finish(t), rows' = AfterPut(rows, RowOf(req[t]))
  PROVE  IndexInv' /\ PutOf(rows', rows, RowOf(req[t]))
<1> DEFINE o == RowOf(req[t])
<1>1. req[t] \in Request /\ clock \in Nat
  BY DEF IndexInv, TypeOK
<1>2. /\ o \in Row /\ o.id = req[t].ver /\ o.vseq = req[t].vseq /\ o.val = req[t].val
      /\ o.marker = req[t].marker
  BY <1>1 DEF RowOf, Row, Request
<1>3. /\ o.vseq # 0 /\ o.vseq <= clock /\ o.id \in {NullVersion, o.vseq} /\ (o.marker <=> o.val = None)
      /\ \A r \in rows : r.vseq # o.vseq
  BY <1>1, <1>2 DEF IndexInv, StampsOK, MarkersOK, Pending
<1> HIDE DEF o
<1>4. RowsOK(AfterPut(rows, o)) /\ FlagsOK(AfterPut(rows, o)) /\ PutOf(AfterPut(rows, o), rows, o)
  BY <1>2, <1>3, PutKeeps DEF IndexInv
<1>5. rows' = AfterPut(rows, o) /\ store' = store
  BY DEF o, Finish
<1>6. RowsOK(rows)' /\ FlagsOK(rows)' /\ PutOf(rows', rows, o)
  BY <1>4, <1>5 DEF RowsOK, FlagsOK, Newest
<1>7. ASSUME NEW x \in rows'
      PROVE  x.vseq <= clock /\ \A u \in Threads : u # t /\ Pending(u) => x.vseq # req[u].vseq
  <2>1. x.vseq = o.vseq \/ \E r \in rows : x.vseq = r.vseq
    BY <1>6 DEF PutOf, SameRow
  <2>2. QED
    BY <1>2, <1>3, <2>1 DEF IndexInv, StampsOK
<1>8. IndexInv'
  BY <1>6, <1>7, FinishKeeps
<1>9. QED
  BY <1>6, <1>8 DEF o

\* Every request begins with a record that BeginKeeps takes.
LEMMA BeginStep ==
  ASSUME IndexInv, NEW t \in Threads,
         \/ \E v \in Values, c \in Conds, tagged \in BOOLEAN : BeginPut(t, v, c, tagged)
         \/ \E id \in Ids : BeginDeleteVersion(t, id)
         \/ \E tagged \in BOOLEAN : BeginTagging(t, tagged)
         \/ BeginCopy(t) \/ BeginDelete(t)
  PROVE  IndexInv'
<1>1. mode \in Statuses /\ \A r \in rows : r \in Row /\ (r.marker <=> r.val = None)
  BY DEF IndexInv, TypeOK
<1>2. CASE \E v \in Values, c \in Conds, tagged \in BOOLEAN : BeginPut(t, v, c, tagged)
  <2>1. PICK v \in Values, c \in Conds, tagged \in BOOLEAN : BeginPut(t, v, c, tagged)
    BY <1>2
  <2> DEFINE r == [Idle EXCEPT !.pc = "stamp", !.mode = mode, !.cond = c, !.val = v, !.tagged = tagged]
  <2>2. Begin(t, r)
    BY <2>1 DEF BeginPut
  <2>3. r \in Request /\ r.pc = "stamp" /\ r.val = v /\ ~r.marker
    BY <1>1, IdleType DEF Idle, Request
  <2>4. v # None
    BY IndexAssumption
  <2>5. QED
    BY <2>2, <2>3, <2>4, BeginKeeps
<1>3. CASE \E id \in Ids : BeginDeleteVersion(t, id)
  <2>1. PICK id \in Ids : BeginDeleteVersion(t, id)
    BY <1>3
  <2> DEFINE r == [Idle EXCEPT !.pc = "removeVersion", !.ver = id]
  <2>2. Begin(t, r)
    BY <2>1 DEF BeginDeleteVersion
  <2>3. id \in Nat
    BY <1>1 DEF Ids, Row, NullVersion
  <2>4. r \in Request /\ r.pc = "removeVersion"
    BY <2>3, IdleType DEF Idle, Request
  <2>5. QED
    BY <2>2, <2>4, BeginKeeps
<1>4. CASE \E tagged \in BOOLEAN : BeginTagging(t, tagged)
  <2>1. PICK tagged \in BOOLEAN : BeginTagging(t, tagged)
    BY <1>4
  <2> DEFINE r == [Idle EXCEPT !.pc = "tag", !.tagged = tagged]
             w(id) == [Idle EXCEPT !.pc = "tagVersion", !.ver = id, !.tagged = tagged]
  <2>2. r \in Request /\ r.pc = "tag" /\ \A id \in Nat : w(id) \in Request /\ w(id).pc = "tagVersion"
    BY IdleType DEF Idle, Request
  <2>3. Begin(t, r) \/ \E q \in rows : Begin(t, w(q.id))
    BY <2>1 DEF BeginTagging
  <2> HIDE DEF r, w
  <2>4. \A q \in rows : q.id \in Nat
    BY <1>1 DEF Row
  <2>5. QED
    BY <2>2, <2>3, <2>4, BeginKeeps
<1>5. CASE BeginCopy(t)
  <2>1. PICK src \in rows :
          /\ ~src.marker
          /\ Begin(t, [Idle EXCEPT !.pc = "stamp", !.mode = mode, !.val = src.val, !.tagged = src.tagged])
    BY <1>5 DEF BeginCopy, Latest
  <2> DEFINE r == [Idle EXCEPT !.pc = "stamp", !.mode = mode, !.val = src.val, !.tagged = src.tagged]
  <2>2. src.val \in Values \cup {None} /\ src.tagged \in BOOLEAN /\ src.val # None
    BY <1>1, <2>1 DEF Row
  <2>3. r \in Request /\ r.val = src.val /\ ~r.marker /\ r.pc = "stamp"
    BY <1>1, <2>2, IdleType DEF Idle, Request
  <2>4. QED
    BY <2>1, <2>2, <2>3, BeginKeeps
<1>6. CASE BeginDelete(t)
  <2> DEFINE r == [Idle EXCEPT !.pc = IF mode = "" THEN "removeKey" ELSE "stamp",
                               !.mode = mode, !.marker = mode # ""]
  <2>1. Begin(t, r)
    BY <1>6 DEF BeginDelete
  <2>2. /\ r \in Request /\ r.val = None /\ r.marker = (mode # "")
        /\ r.pc = IF mode = "" THEN "removeKey" ELSE "stamp"
    BY <1>1, IdleType DEF Idle, Request
  <2> HIDE DEF r
  <2>3. CASE mode = ""
    BY <2>1, <2>2, <2>3, BeginKeeps
  <2>4. CASE mode # ""
    <3>1. r.marker /\ r.pc = "stamp"
      BY <2>2, <2>4
    <3>2. QED
      BY <2>1, <2>2, <3>1, BeginKeeps
  <2>5. QED
    BY <2>3, <2>4
<1>7. QED
  BY <1>2, <1>3, <1>4, <1>5, <1>6

\* Taking a stamp: the clock has not shown it before.
LEMMA StampStep ==
  ASSUME IndexInv, NEW t \in Threads, stampVersion(t)
  PROVE  IndexInv'
<1> USE DEF stampVersion
<1>1. UNCHANGED <<store, mode, rows, ops>> /\ clock' = clock + 1 /\ clock \in Nat /\ req \in [Threads -> Request]
  BY DEF IndexInv, TypeOK
<1>2. /\ \A u \in Threads : u # t => req'[u] = req[u]
      /\ req'[t] \in Request /\ req'[t].vseq = clock + 1 /\ req'[t].ver \in {NullVersion, clock + 1}
      /\ req'[t].marker = req[t].marker /\ req'[t].val = req[t].val
      /\ req' \in [Threads -> Request]
  <2> DEFINE v == IF req[t].mode = "Enabled" THEN clock + 1 ELSE NullVersion
             n == [req[t] EXCEPT !.pc = "commit", !.vseq = clock + 1, !.ver = v]
  <2>1. req' = [req EXCEPT ![t] = n] /\ req[t] \in Request
    BY <1>1
  <2>2. v \in Nat /\ v \in {NullVersion, clock + 1} /\ clock + 1 \in Nat
    BY <1>1 DEF NullVersion
  <2> HIDE DEF v
  <2>4. n \in Request /\ n.vseq = clock + 1 /\ n.ver = v /\ n.marker = req[t].marker /\ n.val = req[t].val
    BY <2>1, <2>2 DEF Request
  <2> HIDE DEF n
  <2>5. QED
    BY ZenonT(40), <1>1, <2>1, <2>2, <2>4
<1>3. TypeOK'
  BY <1>1, <1>2 DEF IndexInv, TypeOK
<1>4. RowsOK(rows)' /\ FlagsOK(rows)'
  BY <1>1 DEF IndexInv, RowsOK, FlagsOK, Newest
<1>5. \A u \in Threads : u # t => (Pending(u)' <=> Pending(u))
  BY <1>2 DEF Pending
<1>6. \A r \in rows : r.vseq \in Nat
  BY DEF IndexInv, RowsOK, Row
<1>7. StampsOK'
  <2>1. \A r \in rows' : r.vseq <= clock' /\ r.vseq # clock + 1
    BY <1>1, <1>6 DEF IndexInv, StampsOK
  <2>2. \A u \in Threads : u # t /\ Pending(u) => req[u].vseq \in 1 .. clock /\ req[u].vseq # clock + 1
    BY <1>1 DEF IndexInv, StampsOK
  <2>3. ASSUME NEW u \in Threads, Pending(u)'
        PROVE  /\ req'[u].vseq \in 1 .. clock' /\ req'[u].ver \in {NullVersion, req'[u].vseq}
               /\ \A r \in rows' : r.vseq # req'[u].vseq
               /\ \A v \in Threads : Pending(v)' /\ req'[v].vseq = req'[u].vseq => v = u
    <3>1. CASE u = t
      BY <1>1, <1>2, <1>5, <2>1, <2>2, <3>1
    <3>2. CASE u # t
      BY <1>1, <1>2, <1>5, <2>2, <2>3, <3>2 DEF IndexInv, StampsOK
    <3>3. QED
      BY <3>1, <3>2
  <2>4. QED
    BY <2>1, <2>3 DEF StampsOK
<1>8. MarkersOK'
  BY <1>2 DEF IndexInv, MarkersOK
<1>9. QED
  BY <1>1, <1>3, <1>4, <1>7, <1>8 DEF IndexInv

\* The check under the lock keeps the stamp.
LEMMA CheckStep ==
  ASSUME IndexInv, NEW t \in Threads, CheckCondition(t)
  PROVE  IndexInv'
<1>1. UNCHANGED <<store, mode, rows, clock, ops>> /\ req \in [Threads -> Request] /\ Pending(t)
  BY DEF IndexInv, TypeOK, CheckCondition, Pending
<1>2. req' = [req EXCEPT ![t] = [@ EXCEPT !.pc = "locked"]] \/ req' = [req EXCEPT ![t] = Idle]
  BY DEF CheckCondition
<1>3. /\ req' \in [Threads -> Request] /\ \A u \in Threads : u # t => req'[u] = req[u]
      /\ \/ req'[t].pc = "idle"
         \/ /\ req'[t].vseq = req[t].vseq /\ req'[t].ver = req[t].ver
            /\ req'[t].marker = req[t].marker /\ req'[t].val = req[t].val
  BY <1>1, <1>2, IdleType DEF Request
<1>4. TypeOK'
  BY <1>1, <1>3 DEF IndexInv, TypeOK
<1>5. RowsOK(rows)' /\ FlagsOK(rows)'
  BY <1>1 DEF IndexInv, RowsOK, FlagsOK, Newest
<1>6. \A u \in Threads : Pending(u)' =>
        Pending(u) /\ req'[u].vseq = req[u].vseq /\ req'[u].ver = req[u].ver
  BY <1>1, <1>3 DEF Pending
<1>7. StampsOK'
  BY <1>1, <1>6 DEF IndexInv, StampsOK
<1>8. MarkersOK'
  BY <1>1, <1>3 DEF IndexInv, MarkersOK, Pending
<1>9. QED
  BY <1>1, <1>4, <1>5, <1>7, <1>8 DEF IndexInv

\* Rows that are there, or some of them, have stamps nobody else has.
LEMMA CarriedStamps ==
  ASSUME IndexInv, NEW xs, NEW rs \in SUBSET rows, Carries(xs, rs)
  PROVE  \A x \in xs : x.vseq <= clock /\ \A u \in Threads : Pending(u) => x.vseq # req[u].vseq
BY DEF IndexInv, StampsOK, Carries, SameRow

LEMMA IndexStep == IndexInv /\ [Next]_vars => IndexInv'
<1> SUFFICES ASSUME IndexInv, [Next]_vars PROVE IndexInv'
  OBVIOUS
<1>1. CASE \E status \in Settable : SetBucketVersioning(status)
  <2>1. mode' \in Statuses /\ UNCHANGED <<store, rows, clock, req, ops>>
    BY <1>1, IndexAssumption DEF SetBucketVersioning, Statuses
  <2>2. TypeOK' /\ RowsOK(rows)' /\ FlagsOK(rows)' /\ StampsOK' /\ MarkersOK'
    BY <2>1 DEF IndexInv, TypeOK, RowsOK, FlagsOK, Newest, StampsOK, MarkersOK, Pending
  <2>3. QED
    BY <2>1, <2>2 DEF IndexInv
<1>2. ASSUME NEW t \in Threads, PutObject(t) PROVE IndexInv'
  <2>1. CASE rows' = AfterPut(rows, RowOf(req[t]))
    BY <1>2, <2>1, PutStep DEF PutObject, Pending
  <2>2. CASE UNCHANGED rows
    <3>1. RowsOK(rows)' /\ FlagsOK(rows)'
      BY <1>2, <2>2 DEF IndexInv, RowsOK, FlagsOK, Newest, PutObject, Finish
    <3>2. Carries(rows', rows)
      BY <2>2 DEF Carries, SameRow
    <3>3. QED
      BY <1>2, <3>1, <3>2, CarriedStamps, FinishKeeps DEF PutObject
  <2>3. QED
    BY <1>2, <2>1, <2>2 DEF PutObject
<1>3. ASSUME NEW t \in Threads, PutLocked(t) PROVE IndexInv'
  BY <1>3, PutStep DEF PutLocked, Pending
<1>4. ASSUME NEW t \in Threads, DeleteObject(t) PROVE IndexInv'
  <2>1. RowsOK(rows)' /\ FlagsOK(rows)' /\ rows' = {} /\ Finish(t)
    BY <1>4 DEF DeleteObject, RowsOK, FlagsOK, Newest
  <2>2. QED
    BY <2>1, FinishKeeps
<1>5. ASSUME NEW t \in Threads, DeleteVersion(t) PROVE IndexInv'
  <2>1. /\ rows' = AfterDeleteVersion(rows, req[t].ver) /\ Finish(t) /\ store' = store
        /\ Without(rows, req[t].ver) \in SUBSET rows
    BY <1>5 DEF DeleteVersion, Finish, Without
  <2> DEFINE xs == AfterDeleteVersion(rows, req[t].ver)
  <2>2. RowsOK(xs) /\ FlagsOK(xs) /\ Carries(xs, Without(rows, req[t].ver))
    BY DeleteKeeps DEF IndexInv
  <2> HIDE DEF xs
  <2>3. RowsOK(rows)' /\ FlagsOK(rows)'
    BY <2>1, <2>2 DEF RowsOK, FlagsOK, Newest, xs
  <2>4. QED
    BY <2>1, <2>2, <2>3, CarriedStamps, FinishKeeps DEF xs
<1>6. ASSUME NEW t \in Threads, SetObjectTags(t) PROVE IndexInv'
  <2>1. req \in [Threads -> Request] /\ Finish(t) /\ store' = store
    BY <1>6 DEF IndexInv, TypeOK, SetObjectTags, Finish
  <2>2. /\ RowsOK(rows)' /\ \A r \in Newest(rows') : r.latest
        /\ store = "memory" => \A r \in rows' : r.latest => r \in Newest(rows')
        /\ Carries(rows', rows)
    BY <1>6, <2>1, TagsKeep DEF IndexInv
  <2>3. FlagsOK(rows)'
    BY <2>1, <2>2 DEF FlagsOK, Newest
  <2>4. QED
    BY <2>1, <2>2, <2>3, CarriedStamps, FinishKeeps
<1>7. CASE UNCHANGED vars
  BY <1>7 DEF vars, IndexInv, TypeOK, RowsOK, FlagsOK, Newest, StampsOK, MarkersOK, Pending
<1>8. QED
  BY <1>1, <1>2, <1>3, <1>4, <1>5, <1>6, <1>7, BeginStep, StampStep, CheckStep DEF Next

LEMMA IndexInit == Init => IndexInv
<1> SUFFICES ASSUME Init PROVE IndexInv
  OBVIOUS
<1>1. TypeOK
  BY IdleType, IndexAssumption DEF Init, TypeOK
<1>2. RowsOK(rows) /\ FlagsOK(rows)
  BY DEF Init, RowsOK, FlagsOK, Newest
<1>3. \A t \in Threads : req[t].pc = "idle"
  BY IdleType DEF Init
<1>4. StampsOK /\ MarkersOK
  BY <1>3 DEF Init, StampsOK, MarkersOK, Pending
<1>5. QED
  BY <1>1, <1>2, <1>4 DEF Init, IndexInv

LEMMA IndexInvariant == Spec => []IndexInv
BY IndexInit, IndexStep, PTL DEF Spec

\* Type correctness of ObjectIndex: every row any interleaving of requests leaves is an object or a
\* delete marker, in each of the stores.
THEOREM RowsTyped == Spec => []TypeOK
BY IndexInvariant, PTL DEF IndexInv

\* Rows with the greatest stamp are one.
LEMMA AtMostOne == ASSUME NEW S, \A x, y \in S : x = y PROVE Cardinality(S) <= 1
<1>1. CASE S = {}
  BY <1>1, FS_EmptySet
<1>2. CASE S # {}
  <2>1. PICK x : S = {x}
    BY <1>2
  <2>2. QED
    BY <2>1, FS_Singleton
<1>3. QED
  BY <1>1, <1>2

\* In whatever order requests are stamped and committed and versions deleted, the newest row is
\* marked latest, and in the in-memory store (sortVersions) no other.
THEOREM NewestStaysLatest == Spec => []NewestIsLatest
<1>1. IndexInv => NewestIsLatest
  <2> SUFFICES ASSUME IndexInv PROVE NewestIsLatest
    OBVIOUS
  <2>1. Newest(rows) \subseteq Latest
    BY DEF IndexInv, FlagsOK, Latest, Newest
  <2>2. ASSUME store = "memory" PROVE Cardinality(Latest) <= 1
    <3>1. ASSUME NEW x \in Latest, NEW y \in Latest PROVE x = y
      <4>1. x \in Newest(rows) /\ y \in Newest(rows) /\ x.vseq \in Nat /\ y.vseq \in Nat
        BY <2>2 DEF IndexInv, FlagsOK, RowsOK, Latest, Row
      <4>2. x.vseq = y.vseq
        BY <4>1 DEF Newest
      <4>3. QED
        BY <4>1, <4>2 DEF IndexInv, RowsOK, Newest
    <3>2. QED
      BY <3>1, AtMostOne
  <2>3. QED
    BY <2>1, <2>2 DEF NewestIsLatest
<1>2. QED
  BY <1>1, IndexInvariant, PTL

(***************************************************************************)
(* A bucket that was versioned from the start.                             *)
(***************************************************************************)
\* No request was let in as if the bucket had never been versioned.
Versioned == mode # "" /\ \A t \in Threads : req[t].pc # "removeKey"

\* Between lockKey and commit nothing can make the checked condition false.
LockOK ==
  \A t \in Threads : req[t].pc = "locked" =>
    /\ store = "postgres" /\ \E cur \in Visible : Ok(req[t].cond, cur)
    /\ \A u \in Threads : req[u].pc = "locked" => u = t

VersionedInv == Versioned /\ LockOK

\* What a request begins as.
LEMMA BeginsAs ==
  ASSUME req \in [Threads -> Request], NEW t \in Threads,
         \/ \E v \in Values, c \in Conds, tagged \in BOOLEAN : BeginPut(t, v, c, tagged)
         \/ \E id \in Ids : BeginDeleteVersion(t, id)
         \/ \E tagged \in BOOLEAN : BeginTagging(t, tagged)
         \/ BeginCopy(t) \/ BeginDelete(t)
  PROVE  /\ UNCHANGED <<store, mode, rows>>
         /\ \A u \in Threads : u # t => req'[u] = req[u]
         /\ req'[t].pc # "locked" /\ (req'[t].pc = "removeKey" => mode = "")
<1> USE DEF Begin
<1>1. CASE \E v \in Values, c \in Conds, tagged \in BOOLEAN : BeginPut(t, v, c, tagged)
  <2>1. PICK v \in Values, c \in Conds, tagged \in BOOLEAN : BeginPut(t, v, c, tagged)
    BY <1>1
  <2> DEFINE r == [Idle EXCEPT !.pc = "stamp", !.mode = mode, !.cond = c, !.val = v, !.tagged = tagged]
  <2>2. Begin(t, r)
    BY <2>1 DEF BeginPut
  <2>3. r.pc = "stamp"
    BY DEF Idle
  <2> HIDE DEF r
  <2>4. QED
    BY <2>2, <2>3
<1>2. CASE \E id \in Ids : BeginDeleteVersion(t, id)
  <2>1. PICK id \in Ids : BeginDeleteVersion(t, id)
    BY <1>2
  <2> DEFINE r == [Idle EXCEPT !.pc = "removeVersion", !.ver = id]
  <2>2. Begin(t, r)
    BY <2>1 DEF BeginDeleteVersion
  <2>3. r.pc = "removeVersion"
    BY DEF Idle
  <2> HIDE DEF r
  <2>4. QED
    BY <2>2, <2>3
<1>3. CASE \E tagged \in BOOLEAN : BeginTagging(t, tagged)
  <2>1. PICK tagged \in BOOLEAN : BeginTagging(t, tagged)
    BY <1>3
  <2> DEFINE r == [Idle EXCEPT !.pc = "tag", !.tagged = tagged]
             w(id) == [Idle EXCEPT !.pc = "tagVersion", !.ver = id, !.tagged = tagged]
  <2>2. Begin(t, r) \/ \E q \in rows : Begin(t, w(q.id))
    BY <2>1 DEF BeginTagging
  <2>3. r.pc = "tag" /\ \A id : w(id).pc = "tagVersion"
    BY DEF Idle
  <2> HIDE DEF r, w
  <2>4. QED
    BY ZenonT(40), <2>2, <2>3
<1>4. CASE BeginCopy(t)
  <2>1. PICK src \in Latest :
          Begin(t, [Idle EXCEPT !.pc = "stamp", !.mode = mode, !.val = src.val, !.tagged = src.tagged])
    BY <1>4 DEF BeginCopy
  <2> DEFINE r == [Idle EXCEPT !.pc = "stamp", !.mode = mode, !.val = src.val, !.tagged = src.tagged]
  <2>2. r.pc = "stamp"
    BY DEF Idle
  <2>3. Begin(t, r)
    BY <2>1
  <2> HIDE DEF r
  <2>4. QED
    BY <2>2, <2>3
<1>5. CASE BeginDelete(t)
  <2> DEFINE r == [Idle EXCEPT !.pc = IF mode = "" THEN "removeKey" ELSE "stamp",
                               !.mode = mode, !.marker = mode # ""]
  <2>1. Begin(t, r)
    BY <1>5 DEF BeginDelete
  <2>2. r.pc = IF mode = "" THEN "removeKey" ELSE "stamp"
    BY DEF Idle
  <2> HIDE DEF r
  <2>3. QED
    BY <2>1, <2>2
<1>6. QED
  BY <1>1, <1>2, <1>3, <1>4, <1>5

\* A step that sends no thread into the critical section and leaves the visible object alone.
LEMMA LockKept ==
  ASSUME LockOK, store' = store, Visible' = Visible,
         \A u \in Threads : req'[u].pc = "locked" => req'[u] = req[u]
  PROVE  LockOK'
BY DEF LockOK

LEMMA VersionedStep == IndexInv /\ VersionedInv /\ [Next]_vars => VersionedInv'
<1> SUFFICES ASSUME IndexInv, VersionedInv, [Next]_vars PROVE VersionedInv'
  OBVIOUS
<1>0. req \in [Threads -> Request]
  BY DEF IndexInv, TypeOK
<1>1. CASE \E status \in Settable : SetBucketVersioning(status)
  <2>1. mode' # "" /\ UNCHANGED <<store, rows, req>>
    BY <1>1, IndexAssumption DEF SetBucketVersioning
  <2>2. QED
    BY <2>1 DEF VersionedInv, Versioned, LockOK, Visible, Latest
<1>2. ASSUME NEW t \in Threads,
             \/ \E v \in Values, c \in Conds, tagged \in BOOLEAN : BeginPut(t, v, c, tagged)
             \/ \E id \in Ids : BeginDeleteVersion(t, id)
             \/ \E tagged \in BOOLEAN : BeginTagging(t, tagged)
             \/ BeginCopy(t) \/ BeginDelete(t)
      PROVE  VersionedInv'
  <2>1. /\ UNCHANGED <<store, mode, rows>> /\ req'[t].pc \notin {"locked", "removeKey"}
        /\ \A u \in Threads : u # t => req'[u] = req[u]
    BY <1>0, <1>2, BeginsAs DEF VersionedInv, Versioned
  <2>2. Visible' = Visible
    BY <2>1 DEF Visible, Latest
  <2>3. LockOK'
    BY <2>1, <2>2, LockKept DEF VersionedInv
  <2>4. QED
    BY <2>1, <2>2, <2>3 DEF VersionedInv, Versioned
<1>3. ASSUME NEW t \in Threads, stampVersion(t) PROVE VersionedInv'
  <2>1. /\ UNCHANGED <<store, mode, rows>> /\ req'[t].pc = "commit"
        /\ \A u \in Threads : u # t => req'[u] = req[u]
    BY <1>0, <1>3 DEF stampVersion, Request
  <2>2. Visible' = Visible
    BY <2>1 DEF Visible, Latest
  <2>3. LockOK'
    BY <2>1, <2>2, LockKept DEF VersionedInv
  <2>4. QED
    BY <2>1, <2>3 DEF VersionedInv, Versioned
<1>4. ASSUME NEW t \in Threads, CheckCondition(t) PROVE VersionedInv'
  <2>1. UNCHANGED <<store, mode, rows>> /\ store = "postgres" /\ ~Locked
    BY <1>4 DEF CheckCondition
  <2>2. Visible' = Visible
    BY <2>1 DEF Visible, Latest
  <2>3. PICK cur \in Visible :
          req' = [req EXCEPT ![t] = IF Ok(req[t].cond, cur) THEN [@ EXCEPT !.pc = "locked"] ELSE Idle]
    BY <1>4 DEF CheckCondition
  <2>4. /\ \A u \in Threads : u # t => req'[u] = req[u] /\ req[u].pc # "locked"
        /\ req'[t].pc # "removeKey"
        /\ req'[t].pc = "locked" => Ok(req[t].cond, cur) /\ req'[t].cond = req[t].cond
    BY <1>0, <2>1, <2>3, IdleType DEF Locked, Request
  <2>5. LockOK'
    BY <2>1, <2>2, <2>3, <2>4 DEF LockOK
  <2>6. QED
    BY <2>1, <2>4, <2>5 DEF VersionedInv, Versioned
<1>5. ASSUME NEW t \in Threads, Finish(t), Visible' = Visible \/ \A u \in Threads : u # t => req[u].pc # "locked"
      PROVE  VersionedInv'
  <2>1. /\ store' = store /\ mode' = mode /\ req'[t].pc = "idle"
        /\ \A u \in Threads : u # t => req'[u] = req[u]
    BY <1>0, <1>5, IdleType DEF Finish
  <2>2. CASE Visible' = Visible
    BY <2>1, <2>2, LockKept DEF VersionedInv, Versioned
  <2>3. CASE \A u \in Threads : u # t => req[u].pc # "locked"
    BY <2>1, <2>3 DEF VersionedInv, Versioned, LockOK
  <2>4. QED
    BY <1>5, <2>2, <2>3
<1>6. ASSUME NEW t \in Threads, PutObject(t) PROVE VersionedInv'
  BY <1>5, <1>6 DEF PutObject, VersionedInv, LockOK
<1>7. ASSUME NEW t \in Threads, PutLocked(t) PROVE VersionedInv'
  BY <1>5, <1>7 DEF PutLocked, VersionedInv, LockOK
<1>8. ASSUME NEW t \in Threads, DeleteVersion(t) PROVE VersionedInv'
  BY <1>5, <1>8 DEF DeleteVersion, Locked
<1>9. ASSUME NEW t \in Threads, SetObjectTags(t) PROVE VersionedInv'
  <2>1. Finish(t) /\ Visible' = Visible
    BY <1>0, <1>9, TagsKeep DEF IndexInv, SetObjectTags
  <2>2. QED
    BY <1>5, <2>1
<1>10. ASSUME NEW t \in Threads PROVE ~DeleteObject(t)
  BY DEF DeleteObject, VersionedInv, Versioned
<1>11. CASE UNCHANGED vars
  BY <1>11 DEF vars, VersionedInv, Versioned, LockOK, Visible, Latest
<1>12. QED
  BY <1>1, <1>2, <1>3, <1>4, <1>6, <1>7, <1>8, <1>9, <1>10, <1>11 DEF Next

LEMMA VersionedInvariant ==
  ASSUME InitMode # "" PROVE Spec => [](IndexInv /\ VersionedInv)
<1>1. Init => VersionedInv
  BY IdleType DEF Init, VersionedInv, Versioned, LockOK
<1>2. QED
  BY <1>1, VersionedStep, IndexInvariant, PTL DEF Spec

\* In a bucket that is versioned from the start no step of any store removes or rewrites a version,
\* except a DeleteVersion that names it: PUTs and markers get ids no row has.
THEOREM NoVersionLost ==
  ASSUME InitMode # "" PROVE Spec => VersionsKept
<1> DEFINE Kept(r) == \E s \in rows' : s.id = r.id /\ s.vseq = r.vseq /\ s.val = r.val /\ s.marker = r.marker
           Named(r) == \E t \in Threads : req[t].pc = "removeVersion" /\ req[t].ver = r.id
           Kept4 == \A r \in rows : r.id # NullVersion => Kept(r) \/ Named(r)
<1>1. ASSUME IndexInv, VersionedInv, [Next]_vars PROVE Kept4
  <2>1. ASSUME NEW t \in Threads, Pending(t), Finish(t), rows' = AfterPut(rows, RowOf(req[t])) PROVE Kept4
    <3>1. PutOf(rows', rows, RowOf(req[t])) /\ RowOf(req[t]).id = req[t].ver
      BY <1>1, <2>1, PutStep DEF RowOf
    <3>2. /\ req[t].ver \in {NullVersion, req[t].vseq}
          /\ \A r \in rows : r.id \in {NullVersion, r.vseq} /\ r.vseq # req[t].vseq
      BY <1>1, <2>1 DEF IndexInv, RowsOK, StampsOK
    <3>3. QED
      BY ZenonT(40), <3>1, <3>2 DEF PutOf, SameRow
  <2>2. ASSUME UNCHANGED rows PROVE Kept4
    BY <2>2
  <2>3. ASSUME NEW t \in Threads, PutObject(t) \/ PutLocked(t) PROVE Kept4
    BY <2>1, <2>2, <2>3 DEF PutObject, PutLocked, Pending
  <2>4. ASSUME NEW t \in Threads, DeleteVersion(t) PROVE Kept4
    <3>1. rows' = AfterDeleteVersion(rows, req[t].ver) /\ req[t].pc = "removeVersion"
      BY <2>4 DEF DeleteVersion
    <3>2. Carries(rows', Without(rows, req[t].ver))
      BY <1>1, <3>1, DeleteKeeps DEF IndexInv
    <3>3. QED
      BY <3>1, <3>2 DEF Carries, SameRow, Without
  <2>5. ASSUME NEW t \in Threads, SetObjectTags(t) PROVE Kept4
    <3>1. Carries(rows', rows)
      BY <1>1, <2>5, TagsKeep DEF IndexInv, TypeOK
    <3>2. QED
      BY <3>1 DEF Carries, SameRow
  <2>6. ASSUME NEW t \in Threads PROVE ~DeleteObject(t)
    BY <1>1 DEF DeleteObject, VersionedInv, Versioned
  <2>7. ASSUME NEW t \in Threads,
               \/ \E v \in Values, c \in Conds, tagged \in BOOLEAN : BeginPut(t, v, c, tagged)
               \/ \E id \in Ids : BeginDeleteVersion(t, id)
               \/ \E tagged \in BOOLEAN : BeginTagging(t, tagged)
               \/ BeginCopy(t) \/ BeginDelete(t)
        PROVE  UNCHANGED rows
    BY <1>1, <2>7, BeginsAs DEF IndexInv, TypeOK
  <2>8. ASSUME NEW t \in Threads, stampVersion(t) \/ CheckCondition(t) PROVE UNCHANGED rows
    BY <2>8 DEF stampVersion, CheckCondition
  <2>9. ASSUME \/ UNCHANGED vars \/ \E status \in Settable : SetBucketVersioning(status) PROVE UNCHANGED rows
    BY <2>9 DEF vars, SetBucketVersioning
  <2> HIDE DEF Kept4
  <2>10. QED
    BY <1>1, <2>2, <2>3, <2>4, <2>5, <2>6, <2>7, <2>8, <2>9 DEF Next
<1>2. IndexInv /\ VersionedInv /\ [Next]_vars =>
        [\A r \in rows : r.id # NullVersion =>
           \/ \E s \in rows' : s.id = r.id /\ s.vseq = r.vseq /\ s.val = r.val /\ s.marker = r.marker
           \/ \E t \in Threads : req[t].pc = "removeVersion" /\ req[t].ver = r.id]_vars
  BY <1>1
<1>3. Spec => [](IndexInv /\ VersionedInv)
  BY VersionedInvariant
<1>4. QED
  BY <1>2, <1>3, PTL DEF Spec, VersionsKept

(***************************************************************************)
(* Conditional writes.                                                     *)
(***************************************************************************)
\* Only Postgres checks and writes in two steps.
LEMMA NotLocked ==
  ASSUME "postgres" \notin Stores PROVE Spec => [](IndexInv /\ ~Locked)
<1>1. IndexInv /\ ~Locked /\ [Next]_vars => ~Locked'
  <2> SUFFICES ASSUME IndexInv, ~Locked, [Next]_vars PROVE ~Locked'
    OBVIOUS
  <2>0. req \in [Threads -> Request] /\ store # "postgres"
    BY DEF IndexInv, TypeOK
  <2>2. ASSUME NEW t \in Threads,
               \/ \E v \in Values, c \in Conds, tagged \in BOOLEAN : BeginPut(t, v, c, tagged)
               \/ \E id \in Ids : BeginDeleteVersion(t, id)
               \/ \E tagged \in BOOLEAN : BeginTagging(t, tagged)
               \/ BeginCopy(t) \/ BeginDelete(t)
        PROVE  ~Locked'
    <3>1. req'[t].pc # "locked" /\ \A u \in Threads : u # t => req'[u] = req[u]
      BY <2>0, <2>2, BeginsAs
    <3>2. QED
      BY <3>1 DEF Locked
  <2>3. ASSUME NEW t \in Threads, stampVersion(t) PROVE ~Locked'
    <3>1. req'[t].pc = "commit" /\ \A u \in Threads : u # t => req'[u] = req[u]
      BY <2>0, <2>3 DEF stampVersion, Request
    <3>2. QED
      BY <3>1 DEF Locked
  <2>4. ASSUME NEW t \in Threads,
               \/ PutObject(t) \/ PutLocked(t) \/ DeleteObject(t) \/ DeleteVersion(t) \/ SetObjectTags(t)
        PROVE  ~Locked'
    <3>1. Finish(t)
      BY <2>4 DEF PutObject, PutLocked, DeleteObject, DeleteVersion, SetObjectTags
    <3>2. QED
      BY <2>0, <3>1, IdleType DEF Finish, Locked
  <2>5. ASSUME NEW t \in Threads PROVE ~CheckCondition(t)
    BY <2>0 DEF CheckCondition
  <2>6. CASE UNCHANGED vars \/ \E status \in Settable : SetBucketVersioning(status)
    BY <2>6 DEF vars, SetBucketVersioning, Locked
  <2>7. QED
    BY <2>2, <2>3, <2>4, <2>5, <2>6 DEF Next
<1>2. Init => ~Locked
  BY IdleType DEF Init, Locked
<1>3. QED
  BY <1>1, <1>2, IndexInvariant, PTL DEF Spec

\* A thread with a stamped write reaches idle in one step only by a store call of its own.
LEMMA WhoFinished ==
  ASSUME IndexInv, [Next]_vars, NEW t \in Threads, Pending(t), req'[t].pc = "idle", rows' # rows
  PROVE  PutObject(t) \/ PutLocked(t)
<1>0. req \in [Threads -> Request]
  BY DEF IndexInv, TypeOK
<1>1. ASSUME NEW u \in Threads, NEW r, req' = [req EXCEPT ![u] = r] PROVE u = t
  BY <1>0, <1>1 DEF Pending
<1>2. ~(UNCHANGED rows)
  OBVIOUS
<1>3. ASSUME NEW u \in Threads
      PROVE  /\ ~\E v \in Values, c \in Conds, tagged \in BOOLEAN : BeginPut(u, v, c, tagged)
             /\ ~\E id \in Ids : BeginDeleteVersion(u, id)
             /\ ~\E tagged \in BOOLEAN : BeginTagging(u, tagged)
             /\ ~BeginCopy(u) /\ ~BeginDelete(u) /\ ~stampVersion(u) /\ ~CheckCondition(u)
  BY <1>0, <1>2, <1>3, BeginsAs DEF stampVersion, CheckCondition
<1>4. ASSUME NEW u \in Threads, DeleteObject(u) \/ DeleteVersion(u) \/ SetObjectTags(u) PROVE FALSE
  <2>1. Finish(u)
    BY <1>4 DEF DeleteObject, DeleteVersion, SetObjectTags
  <2>2. u = t
    BY <1>1, <2>1 DEF Finish
  <2>3. QED
    BY <1>4, <2>2 DEF DeleteObject, DeleteVersion, SetObjectTags, Pending
<1>5. ASSUME NEW u \in Threads, PutObject(u) \/ PutLocked(u) PROVE PutObject(t) \/ PutLocked(t)
  <2>1. Finish(u)
    BY <1>5 DEF PutObject, PutLocked
  <2>2. u = t
    BY <1>1, <2>1 DEF Finish
  <2>3. QED
    BY <1>5, <2>2
<1>6. ~(UNCHANGED vars) /\ \A status \in Settable : ~SetBucketVersioning(status)
  BY <1>2 DEF vars, SetBucketVersioning
<1>7. QED
  BY <1>3, <1>4, <1>5, <1>6 DEF Next

\* The row of a conditional PUT enters the index only while its condition holds of the visible
\* object. The hypothesis leaves out the one case the code leaves open: Postgres' DeleteObject, for
\* a bucket that was never versioned, takes no lock and can come between the check and the write.
THEOREM ConditionsAtomic ==
  ASSUME InitMode # "" \/ "postgres" \notin Stores
  PROVE  Spec => ConditionHolds
<1>1. Spec => [](IndexInv /\ (LockOK \/ ~Locked))
  <2>1. CASE InitMode # ""
    <3>1. Spec => [](IndexInv /\ VersionedInv)
      BY <2>1, VersionedInvariant
    <3>2. QED
      BY <3>1, PTL DEF VersionedInv
  <2>2. CASE "postgres" \notin Stores
    <3>1. Spec => [](IndexInv /\ ~Locked)
      BY <2>2, NotLocked
    <3>2. QED
      BY <3>1, PTL
  <2>3. QED
    BY <2>1, <2>2
<1>2. ASSUME IndexInv, LockOK \/ ~Locked, [Next]_vars,
             NEW t \in Threads, Pending(t), req'[t].pc = "idle", rows' # rows
      PROVE  \E cur \in Visible : Ok(req[t].cond, cur)
  <2>1. CASE PutObject(t)
    BY <1>2, <2>1 DEF PutObject
  <2>2. CASE PutLocked(t)
    BY <1>2, <2>2 DEF PutLocked, LockOK, Locked
  <2>3. QED
    BY <1>2, <2>1, <2>2, WhoFinished
<1>3. IndexInv /\ (LockOK \/ ~Locked) /\ [Next]_vars =>
        [\A t \in Threads :
           req[t].pc \in {"commit", "locked"} /\ req'[t].pc = "idle" /\ rows' # rows =>
             \E cur \in Visible : Ok(req[t].cond, cur)]_vars
  BY <1>2 DEF Pending
<1>4. QED
  BY <1>1, <1>3, PTL DEF Spec, ConditionHolds

(***************************************************************************)
(* A bucket that was never versioned: the key is a register.               *)
(***************************************************************************)
\* What a request carries: no version, no marker, and a delete neither a value nor a condition.
PlainReq(r) ==
  /\ r.mode = "" /\ r.ver = NullVersion /\ r.marker = FALSE /\ r.pc # "locked"
  /\ r.pc \in {"removeKey", "removeVersion"} => r.val = None /\ r.tagged = FALSE /\ r.cond = NoCond

\* The key has one row, the null version, or none.
PlainRows(rs) == \A r \in rs : r.id = NullVersion /\ r.latest = TRUE /\ r.marker = FALSE

Plain == mode = "" /\ PlainRows(rows) /\ \A t \in Threads : PlainReq(req[t])

\* The refinement mapping, of given rows and of one request.
CurOf(rs) ==
  IF {r \in rs : r.latest} = {} THEN [val |-> None, tagged |-> FALSE]
  ELSE LET r == CHOOSE r \in {r \in rs : r.latest} : TRUE IN [val |-> r.val, tagged |-> r.tagged]

OpOf(r) ==
  [kind |-> IF r.pc \in {"stamp", "commit", "locked", "removeKey"}
               \/ (r.pc = "removeVersion" /\ r.ver = NullVersion) THEN "write"
            ELSE IF r.pc \in {"tag", "tagVersion"} THEN "tag" ELSE "none",
   val |-> r.val, tagged |-> r.tagged, cond |-> r.cond]

LEMMA MappingOf == /\ regCur = CurOf(rows) /\ regCur' = CurOf(rows')
                   /\ regOp = [t \in Threads |-> OpOf(req[t])]
                   /\ regOp' = [t \in Threads |-> OpOf(req'[t])]
BY DEF regCur, regOp, CurOf, OpOf, Latest

LEMMA NoneIsAbsent == CurOf({}) = Register!Absent
BY DEF CurOf, Register!Absent, Register!None, None

LEMMA SoleIsCurrent ==
  ASSUME NEW r, r.latest = TRUE PROVE CurOf({r}) = [val |-> r.val, tagged |-> r.tagged]
<1>1. {x \in {r} : x.latest} = {r}
  OBVIOUS
<1>2. (CHOOSE x \in {r} : TRUE) = r
  OBVIOUS
<1>3. QED
  BY <1>1, <1>2 DEF CurOf

\* The rows of such a key are none or one, and that is what conditions are checked against.
LEMMA OneRow ==
  ASSUME IndexInv, Plain
  PROVE  /\ rows = {} \/ \E r \in Row : rows = {r} /\ r.latest = TRUE /\ r.id = NullVersion /\ r.val \in Values
         /\ Visible = {regCur.val}
<1>1. CASE rows = {}
  <2>1. Latest = {} /\ regCur.val = None
    BY <1>1 DEF Latest, regCur
  <2>2. QED
    BY <1>1, <2>1 DEF Visible
<1>2. CASE rows # {}
  <2>1. PICK r \in rows : TRUE
    BY <1>2
  <2>2. rows = {r}
    BY <2>1 DEF IndexInv, RowsOK, Plain, PlainRows
  <2>3. r \in Row /\ r.latest = TRUE /\ r.id = NullVersion /\ r.marker = FALSE /\ (r.marker <=> r.val = None)
    BY <2>1 DEF IndexInv, RowsOK, Plain, PlainRows
  <2>4. r.val \in Values
    BY <2>3 DEF Row
  <2>5. regCur = [val |-> r.val, tagged |-> r.tagged] /\ Latest = {r}
    BY <2>2, <2>3, SoleIsCurrent, MappingOf DEF Latest
  <2>6. Visible = {r.val}
    BY <2>3, <2>5 DEF Visible
  <2>7. QED
    BY <2>2, <2>3, <2>4, <2>5, <2>6
<1>3. QED
  BY <1>1, <1>2

\* A PUT of the null version over null versions leaves its own row and no other, marked latest.
LEMMA PutAlone ==
  ASSUME rows \subseteq Row, NEW o \in Row, o.latest = TRUE, \A r \in rows : r.id = o.id
  PROVE  AfterPut(rows, o) = {o}
<1>1. Without(rows, o.id) \cup {o} = {o}
  BY DEF Without
<1>2. Without(Demoted(rows), o.id) \cup {o} = {o}
  <2>1. \A r \in rows : [r EXCEPT !.latest = FALSE].id = r.id
    BY Relabel DEF SameRow
  <2>2. QED
    BY <2>1 DEF Without, Demoted
<1>3. o \in Newest({o}) /\ [o EXCEPT !.latest = TRUE] = o
  BY DEF Newest, Row
<1>4. sortVersions({o}) = {o}
  <2>1. (o \in Newest({o})) = TRUE
    BY <1>3
  <2>2. sortVersions({o}) = {[o EXCEPT !.latest = o \in Newest({o})]}
    BY DEF sortVersions
  <2>3. QED
    BY <1>3, <2>1, <2>2
<1>5. promote({o}) = {o}
  <2>1. (o.latest \/ o \in Newest({o})) = TRUE
    BY <1>3
  <2>2. promote({o}) = {[o EXCEPT !.latest = o.latest \/ o \in Newest({o})]}
    BY DEF promote
  <2>3. QED
    BY <1>3, <2>1, <2>2
<1>6. QED
  BY <1>1, <1>2, <1>4, <1>5 DEF AfterPut

\* Deleting the null version of such a key leaves nothing.
LEMMA DeleteAlone ==
  ASSUME NEW id, \A r \in rows : r.id = id PROVE AfterDeleteVersion(rows, id) = {}
<1>1. Without(rows, id) = {}
  BY DEF Without
<1>2. QED
  BY <1>1 DEF AfterDeleteVersion, sortVersions, promote

\* What a request to such a key begins as.
LEMMA BeginsPlain ==
  ASSUME IndexInv, Plain, NEW t \in Threads,
         \/ \E v \in Values, c \in Conds, tagged \in BOOLEAN : BeginPut(t, v, c, tagged)
         \/ \E id \in Ids : BeginDeleteVersion(t, id)
         \/ \E tagged \in BOOLEAN : BeginTagging(t, tagged)
         \/ BeginCopy(t) \/ BeginDelete(t)
  PROVE  /\ UNCHANGED <<mode, rows>> /\ req[t].pc = "idle"
         /\ req' = [req EXCEPT ![t] = req'[t]] /\ PlainReq(req'[t])
         /\ \/ req'[t].pc = "stamp" /\ req'[t].val \in Values /\ req'[t].cond \in Conds
            \/ req'[t].pc \in {"removeKey", "removeVersion"}
            \/ req'[t].pc \in {"tag", "tagVersion"} /\ req'[t].val = None /\ req'[t].cond = NoCond
         /\ req'[t].tagged \in BOOLEAN
<1> DEFINE Goal(r) == /\ PlainReq(r) /\ r.tagged \in BOOLEAN
                      /\ \/ r.pc = "stamp" /\ r.val \in Values /\ r.cond \in Conds
                         \/ r.pc \in {"removeKey", "removeVersion"}
                         \/ r.pc \in {"tag", "tagVersion"} /\ r.val = None /\ r.cond = NoCond
<1>0. req \in [Threads -> Request] /\ mode = "" /\ NoCond \in Conds
  BY IndexAssumption DEF IndexInv, TypeOK, Plain
<1>1. ASSUME NEW r, Begin(t, r), Goal(r)
      PROVE  /\ UNCHANGED <<mode, rows>> /\ req[t].pc = "idle"
             /\ req' = [req EXCEPT ![t] = req'[t]] /\ Goal(req'[t])
  <2>1. req' = [req EXCEPT ![t] = r] /\ UNCHANGED <<mode, rows>> /\ req[t].pc = "idle"
    BY <1>1 DEF Begin
  <2>2. req'[t] = r
    BY <1>0, <2>1
  <2> HIDE DEF Goal
  <2>3. QED
    BY <1>1, <2>1, <2>2
<1>2. CASE \E v \in Values, c \in Conds, tagged \in BOOLEAN : BeginPut(t, v, c, tagged)
  <2>1. PICK v \in Values, c \in Conds, tagged \in BOOLEAN : BeginPut(t, v, c, tagged)
    BY <1>2
  <2> DEFINE r == [Idle EXCEPT !.pc = "stamp", !.mode = mode, !.cond = c, !.val = v, !.tagged = tagged]
  <2>2. Begin(t, r)
    BY <2>1 DEF BeginPut
  <2>3. Goal(r)
    BY <1>0 DEF Idle, PlainReq
  <2>4. QED
    BY <1>1, <2>2, <2>3
<1>3. CASE \E id \in Ids : BeginDeleteVersion(t, id)
  <2>1. PICK id \in Ids : BeginDeleteVersion(t, id)
    BY <1>3
  <2> DEFINE r == [Idle EXCEPT !.pc = "removeVersion", !.ver = id]
  <2>2. Begin(t, r)
    BY <2>1 DEF BeginDeleteVersion
  <2>3. id = NullVersion
    BY DEF Ids, Plain, PlainRows
  <2>4. Goal(r)
    BY <2>3 DEF Idle, PlainReq
  <2>5. QED
    BY <1>1, <2>2, <2>4
<1>4. CASE \E tagged \in BOOLEAN : BeginTagging(t, tagged)
  <2>1. PICK tagged \in BOOLEAN : BeginTagging(t, tagged)
    BY <1>4
  <2> DEFINE r == [Idle EXCEPT !.pc = "tag", !.tagged = tagged]
             w(id) == [Idle EXCEPT !.pc = "tagVersion", !.ver = id, !.tagged = tagged]
  <2>2. Begin(t, r) \/ \E q \in rows : Begin(t, w(q.id))
    BY <2>1 DEF BeginTagging
  <2>3. Goal(r) /\ Goal(w(NullVersion))
    BY DEF Idle, PlainReq
  <2> HIDE DEF r, w
  <2>4. Begin(t, r) \/ Begin(t, w(NullVersion))
    BY <2>2 DEF Plain, PlainRows
  <2>5. QED
    BY <1>1, <2>3, <2>4
<1>5. CASE BeginCopy(t)
  <2>1. PICK src \in rows :
          Begin(t, [Idle EXCEPT !.pc = "stamp", !.mode = mode, !.val = src.val, !.tagged = src.tagged])
    BY <1>5 DEF BeginCopy, Latest
  <2> DEFINE r == [Idle EXCEPT !.pc = "stamp", !.mode = mode, !.val = src.val, !.tagged = src.tagged]
  <2>2. Begin(t, r)
    BY <2>1
  <2>3. src.val \in Values /\ src.tagged \in BOOLEAN
    BY <2>1, OneRow DEF Row
  <2>4. Goal(r)
    BY <1>0, <2>3 DEF Idle, PlainReq
  <2>5. QED
    BY <1>1, <2>2, <2>4
<1>6. CASE BeginDelete(t)
  <2> DEFINE r == [Idle EXCEPT !.pc = IF mode = "" THEN "removeKey" ELSE "stamp",
                               !.mode = mode, !.marker = mode # ""]
  <2>1. Begin(t, r)
    BY <1>6 DEF BeginDelete
  <2>2. (mode # "") = FALSE
    BY <1>0
  <2>3. Goal(r)
    BY <1>0, <2>2 DEF Idle, PlainReq
  <2>4. QED
    BY <1>1, <2>1, <2>3
<1>7. QED
  BY <1>2, <1>3, <1>4, <1>5, <1>6

\* What the store calls do to such a key.
LEMMA PlainPut ==
  ASSUME IndexInv, Plain, NEW t \in Threads, req[t].pc = "commit"
  PROVE  /\ AfterPut(rows, RowOf(req[t])) = {RowOf(req[t])}
         /\ PlainRows({RowOf(req[t])}) /\ req[t].val \in Values
<1>1. /\ req[t] \in Request /\ req[t].ver = NullVersion /\ req[t].marker = FALSE
      /\ (req[t].marker <=> req[t].val = None) /\ rows \subseteq Row
  BY DEF IndexInv, TypeOK, Plain, PlainReq, MarkersOK
<1>2. req[t].val \in Values
  BY <1>1 DEF Request
<1>3. RowOf(req[t]) \in Row
  BY <1>1 DEF RowOf, Row, Request
<1>4. RowOf(req[t]).id = NullVersion /\ RowOf(req[t]).latest = TRUE /\ RowOf(req[t]).marker = FALSE
  BY <1>1 DEF RowOf
<1>5. QED
  BY <1>1, <1>2, <1>3, <1>4, PutAlone DEF Plain, PlainRows

LEMMA PlainTags ==
  ASSUME IndexInv, Plain, NEW t \in Threads, SetObjectTags(t)
  PROVE  /\ PlainRows(rows')
         /\ rows = {} => rows' = {}
         /\ rows # {} => CurOf(rows') = [val |-> regCur.val, tagged |-> req[t].tagged] /\ regCur.val # None
<1>0. req[t] \in Request /\ req[t].ver = NullVersion
  BY DEF IndexInv, TypeOK, Plain, PlainReq
<1>1. CASE rows = {}
  <2>1. rows' = {}
    BY <1>1 DEF SetObjectTags
  <2>2. QED
    BY <1>1, <2>1 DEF PlainRows
<1>2. CASE rows # {}
  <2>1. PICK r \in Row : rows = {r} /\ r.latest = TRUE /\ r.id = NullVersion /\ r.val \in Values
    BY <1>2, OneRow
  <2> DEFINE s == [r EXCEPT !.tagged = req[t].tagged]
  <2>2. rows' = {s}
    BY <1>0, <2>1 DEF SetObjectTags
  <2>3. req[t].tagged \in BOOLEAN
    BY <1>0 DEF Request
  <2>4. SameRow(s, r) /\ s.latest = r.latest /\ s.tagged = req[t].tagged
    BY ZenonT(40), <2>1, <2>3, Relabel
  <2> HIDE DEF s
  <2>a. r.marker = FALSE /\ s.latest = TRUE
    BY <2>1, <2>4 DEF Plain, PlainRows
  <2>5. CurOf(rows') = [val |-> r.val, tagged |-> req[t].tagged]
    BY <2>2, <2>4, <2>a, SoleIsCurrent DEF SameRow
  <2>b. regCur = [val |-> r.val, tagged |-> r.tagged]
    BY <2>1, SoleIsCurrent, MappingOf
  <2>6. regCur.val = r.val /\ r.val # None
    BY <2>1, <2>b, IndexAssumption
  <2>c. PlainRows(rows')
    BY <2>1, <2>2, <2>4, <2>a DEF SameRow, PlainRows
  <2>7. QED
    BY <1>2, <2>5, <2>6, <2>c
<1>3. QED
  BY <1>1, <1>2

\* stampVersion gives no version to such a request and is invisible to the register.
LEMMA PlainStamp ==
  ASSUME IndexInv, Plain, NEW t \in Threads, stampVersion(t)
  PROVE  /\ UNCHANGED <<mode, rows>> /\ req' = [req EXCEPT ![t] = req'[t]]
         /\ PlainReq(req'[t]) /\ OpOf(req'[t]) = OpOf(req[t])
<1>1. req \in [Threads -> Request] /\ req[t] \in Request /\ PlainReq(req[t]) /\ req[t].pc = "stamp"
  BY DEF IndexInv, TypeOK, Plain, stampVersion
<1> DEFINE r == [[[req[t] EXCEPT !.pc = "commit"] EXCEPT !.vseq = clock + 1] EXCEPT !.ver = NullVersion]
<1>2. req' = [req EXCEPT ![t] = r] /\ UNCHANGED <<mode, rows>>
  BY <1>1 DEF stampVersion, PlainReq
<1>3. /\ r.pc = "commit" /\ r.mode = req[t].mode /\ r.ver = NullVersion /\ r.marker = req[t].marker
      /\ r.val = req[t].val /\ r.tagged = req[t].tagged /\ r.cond = req[t].cond
  BY <1>1 DEF Request
<1> HIDE DEF r
<1>4. PlainReq(r) /\ OpOf(r) = OpOf(req[t])
  BY <1>1, <1>3 DEF PlainReq, OpOf
<1>5. req'[t] = r
  BY <1>1, <1>2
<1>6. QED
  BY <1>2, <1>4, <1>5

LEMMA IdlePlain == PlainReq(Idle) /\ OpOf(Idle) = Register!Idle
BY DEF Idle, PlainReq, OpOf, Register!Idle, Register!None, Register!NoCond, NoCond, None

LEMMA PlainStep ==
  ASSUME Settable = {}, "postgres" \notin Stores, IndexInv, Plain, [Next]_vars
  PROVE  Plain'
<1>0. req \in [Threads -> Request] /\ store # "postgres"
  BY DEF IndexInv, TypeOK
<1>1. ASSUME NEW t \in Threads, UNCHANGED mode, PlainRows(rows'),
             req' = [req EXCEPT ![t] = req'[t]], PlainReq(req'[t])
      PROVE  Plain'
  <2>1. \A u \in Threads : u # t => req'[u] = req[u]
    BY <1>0, <1>1
  <2>2. QED
    BY <1>1, <2>1 DEF Plain
<1>2. ASSUME NEW t \in Threads, Finish(t), PlainRows(rows') PROVE Plain'
  <2>1. req'[t] = Idle /\ req' = [req EXCEPT ![t] = Idle] /\ UNCHANGED mode
    BY <1>0, <1>2 DEF Finish
  <2>2. QED
    BY <1>1, <1>2, <2>1, IdlePlain
<1>3. ASSUME NEW t \in Threads,
             \/ \E v \in Values, c \in Conds, tagged \in BOOLEAN : BeginPut(t, v, c, tagged)
             \/ \E id \in Ids : BeginDeleteVersion(t, id)
             \/ \E tagged \in BOOLEAN : BeginTagging(t, tagged)
             \/ BeginCopy(t) \/ BeginDelete(t)
      PROVE  Plain'
  BY <1>1, <1>3, BeginsPlain DEF Plain
<1>4. ASSUME NEW t \in Threads, stampVersion(t) PROVE Plain'
  BY <1>1, <1>4, PlainStamp DEF Plain
<1>5. ASSUME NEW t \in Threads, PutObject(t) PROVE Plain'
  BY <1>2, <1>5, PlainPut DEF PutObject, Plain
<1>6. ASSUME NEW t \in Threads, DeleteObject(t) PROVE Plain'
  BY <1>2, <1>6 DEF DeleteObject, PlainRows
<1>7. ASSUME NEW t \in Threads, DeleteVersion(t) PROVE Plain'
  BY <1>2, <1>7, DeleteAlone DEF DeleteVersion, PlainRows, Plain, PlainReq
<1>8. ASSUME NEW t \in Threads, SetObjectTags(t) PROVE Plain'
  BY <1>2, <1>8, PlainTags DEF SetObjectTags
<1>9. ASSUME NEW t \in Threads PROVE ~CheckCondition(t) /\ ~PutLocked(t)
  BY <1>0 DEF CheckCondition, PutLocked, Plain, PlainReq
<1>10. CASE UNCHANGED vars
  BY <1>10 DEF vars, Plain
<1>11. QED
  BY <1>3, <1>4, <1>5, <1>6, <1>7, <1>8, <1>9, <1>10 DEF Next

LEMMA PlainInvariant ==
  ASSUME InitMode = "", Settable = {}, "postgres" \notin Stores
  PROVE  Spec => [](IndexInv /\ Plain)
<1>1. Init => Plain
  BY IdlePlain DEF Init, Plain, PlainRows
<1>2. IndexInv /\ Plain /\ [Next]_vars => Plain'
  BY PlainStep
<1>3. QED
  BY <1>1, <1>2, IndexInvariant, PTL DEF Spec

\* A step of one thread changes that thread's operation of the register.
LEMMA OpStep ==
  ASSUME req \in [Threads -> Request], NEW t \in Threads, NEW r, req' = [req EXCEPT ![t] = r]
  PROVE  regOp' = [regOp EXCEPT ![t] = OpOf(r)] /\ regOp[t] = OpOf(req[t])
<1>1. regOp = [u \in Threads |-> OpOf(req[u])] /\ regOp' = [u \in Threads |-> OpOf(req'[u])]
  BY MappingOf
<1>2. \A u \in Threads : req'[u] = IF u = t THEN r ELSE req[u]
  OBVIOUS
<1>3. QED
  BY <1>1, <1>2

LEMMA SameOk == ASSUME NEW c, NEW v PROVE Ok(c, v) <=> Register!Ok(c, v)
BY DEF Ok, Register!Ok, Register!None, Register!Any, None, Any

LEMMA OkNoCond == ASSUME NEW v PROVE Register!Ok(NoCond, v)
BY DEF Register!Ok, Register!None, Register!Any, NoCond, None

\* A store call that answers a request, seen by the register.
LEMMA Answered ==
  ASSUME req \in [Threads -> Request], NEW t \in Threads, Finish(t)
  PROVE  regOp' = [regOp EXCEPT ![t] = Register!Idle] /\ regOp[t] = OpOf(req[t])
BY OpStep, IdlePlain DEF Finish

LEMMA RegisterStep ==
  ASSUME Settable = {}, "postgres" \notin Stores, IndexInv, Plain, [Next]_vars
  PROVE  [Register!RegNext]_(Register!regVars)
<1> DEFINE RegStep == [Register!RegNext]_(Register!regVars)
<1>0. req \in [Threads -> Request] /\ store # "postgres" /\ Visible = {regCur.val}
  BY OneRow DEF IndexInv, TypeOK
<1>1. ASSUME UNCHANGED rows PROVE UNCHANGED regCur
  BY <1>1, MappingOf
<1>2. ASSUME NEW t \in Threads,
             \/ \E v \in Values, c \in Conds, tagged \in BOOLEAN : BeginPut(t, v, c, tagged)
             \/ \E id \in Ids : BeginDeleteVersion(t, id)
             \/ \E tagged \in BOOLEAN : BeginTagging(t, tagged)
             \/ BeginCopy(t) \/ BeginDelete(t)
      PROVE  RegStep
  <2> DEFINE r == req'[t]
  <2>1. /\ UNCHANGED rows /\ req[t].pc = "idle" /\ req' = [req EXCEPT ![t] = r] /\ PlainReq(r)
        /\ \/ r.pc = "stamp" /\ r.val \in Values /\ r.cond \in Conds
           \/ r.pc \in {"removeKey", "removeVersion"}
           \/ r.pc \in {"tag", "tagVersion"} /\ r.val = None /\ r.cond = NoCond
        /\ r.tagged \in BOOLEAN
    BY <1>2, BeginsPlain
  <2> HIDE DEF r
  <2>a. regOp' = [regOp EXCEPT ![t] = OpOf(r)] /\ regOp[t] = OpOf(req[t]) /\ UNCHANGED regCur
    BY <1>0, <1>1, <2>1, OpStep
  <2>b. OpOf(req[t]).kind = "none"
    BY <2>1 DEF OpOf
  <2>2. regOp' = [regOp EXCEPT ![t] = OpOf(r)] /\ regOp[t].kind = "none" /\ UNCHANGED regCur
    BY <2>a, <2>b
  <2>3. CASE r.pc = "stamp" /\ r.val \in Values /\ r.cond \in Conds
    <3>1. OpOf(r) = [kind |-> "write", val |-> r.val, tagged |-> r.tagged, cond |-> r.cond]
      BY <2>3 DEF OpOf
    <3>2. Register!Invoke(t, "write", r.val, r.tagged, r.cond)
      BY <2>2, <3>1 DEF Register!Invoke
    <3>3. QED
      BY <2>1, <2>3, <3>2 DEF Register!RegNext
  <2>4. CASE r.pc \in {"removeKey", "removeVersion"}
    <3>1. OpOf(r) = [kind |-> "write", val |-> Register!None, tagged |-> FALSE, cond |-> Register!NoCond]
      BY <2>1, <2>4 DEF OpOf, PlainReq, None, NoCond, Register!None, Register!NoCond
    <3>2. Register!Invoke(t, "write", Register!None, FALSE, Register!NoCond)
      BY <2>2, <3>1 DEF Register!Invoke
    <3>3. QED
      BY <3>2 DEF Register!RegNext
  <2>5. CASE r.pc \in {"tag", "tagVersion"} /\ r.val = None /\ r.cond = NoCond
    <3>1. OpOf(r) = [kind |-> "tag", val |-> Register!None, tagged |-> r.tagged, cond |-> Register!NoCond]
      BY <2>5 DEF OpOf, None, NoCond, Register!None, Register!NoCond
    <3>2. Register!Invoke(t, "tag", Register!None, r.tagged, Register!NoCond)
      BY <2>2, <3>1 DEF Register!Invoke
    <3>3. QED
      BY <2>1, <3>2 DEF Register!RegNext
  <2>6. QED
    BY <2>1, <2>3, <2>4, <2>5
<1>3. ASSUME NEW t \in Threads, stampVersion(t) PROVE RegStep
  <2>1. UNCHANGED rows /\ req' = [req EXCEPT ![t] = req'[t]] /\ OpOf(req'[t]) = OpOf(req[t])
    BY <1>3, PlainStamp
  <2>2. regOp' = [regOp EXCEPT ![t] = OpOf(req[t])] /\ regOp[t] = OpOf(req[t])
    BY <1>0, <2>1, OpStep
  <2>3. regOp \in [Threads -> {OpOf(req[u]) : u \in Threads}]
    BY MappingOf
  <2>4. UNCHANGED regOp
    BY <2>2, <2>3
  <2>5. QED
    BY <1>1, <2>1, <2>4 DEF Register!regVars
<1>4. ASSUME NEW t \in Threads, PutObject(t) PROVE RegStep
  <2> DEFINE o == OpOf(req[t])
  <2>1. regOp' = [regOp EXCEPT ![t] = Register!Idle] /\ regOp[t] = o /\ req[t].pc = "commit"
    BY <1>0, <1>4, Answered DEF PutObject
  <2>2. o.kind = "write" /\ o.val = req[t].val /\ o.tagged = req[t].tagged /\ o.cond = req[t].cond
    BY <2>1 DEF OpOf
  <2> HIDE DEF o
  <2>3. Register!Allowed(o) <=> Ok(req[t].cond, regCur.val)
    BY <2>2, SameOk DEF Register!Allowed
  <2>4. CASE Ok(req[t].cond, regCur.val)
    <3>1. rows' = {RowOf(req[t])}
      BY <1>0, <1>4, <2>1, <2>4, PlainPut DEF PutObject
    <3>2. /\ RowOf(req[t]).latest = TRUE /\ RowOf(req[t]).val = req[t].val
          /\ RowOf(req[t]).tagged = req[t].tagged
      BY DEF RowOf
    <3>3. regCur' = [val |-> req[t].val, tagged |-> req[t].tagged]
      BY <3>1, <3>2, SoleIsCurrent, MappingOf
    <3>4. Register!TakeEffect(t)
      BY <2>1, <2>2, <2>3, <2>4, <3>3 DEF Register!TakeEffect
    <3>5. QED
      BY <3>4 DEF Register!RegNext
  <2>5. CASE ~Ok(req[t].cond, regCur.val)
    <3>1. UNCHANGED regCur
      BY <1>0, <1>1, <1>4, <2>5 DEF PutObject
    <3>2. Register!Fail(t)
      BY <2>1, <2>2, <2>3, <2>5, <3>1 DEF Register!Fail
    <3>3. QED
      BY <3>2 DEF Register!RegNext
  <2>6. QED
    BY <2>4, <2>5
<1>5. ASSUME NEW t \in Threads, DeleteObject(t) \/ DeleteVersion(t) PROVE RegStep
  <2> DEFINE o == OpOf(req[t])
  <2>1. /\ Finish(t) /\ req[t].pc \in {"removeKey", "removeVersion"} /\ PlainReq(req[t]) /\ rows' = {}
    BY <1>5, DeleteAlone DEF DeleteObject, DeleteVersion, Plain, PlainReq, PlainRows
  <2>2. regOp' = [regOp EXCEPT ![t] = Register!Idle] /\ regOp[t] = o
    BY <1>0, <2>1, Answered
  <2>3. o.kind = "write" /\ o.val = None /\ o.tagged = FALSE /\ o.cond = NoCond
    BY <2>1 DEF OpOf, PlainReq
  <2> HIDE DEF o
  <2>4. Register!Allowed(o)
    BY <2>3, OkNoCond DEF Register!Allowed
  <2>5. regCur' = [val |-> None, tagged |-> FALSE]
    BY <2>1, MappingOf, NoneIsAbsent DEF Register!Absent, Register!None, None
  <2>6. Register!TakeEffect(t)
    BY <2>2, <2>3, <2>4, <2>5 DEF Register!TakeEffect
  <2>7. QED
    BY <2>6 DEF Register!RegNext
<1>6. ASSUME NEW t \in Threads, SetObjectTags(t) PROVE RegStep
  <2> DEFINE o == OpOf(req[t])
  <2>1. regOp' = [regOp EXCEPT ![t] = Register!Idle] /\ regOp[t] = o /\ req[t].pc \in {"tag", "tagVersion"}
    BY <1>0, <1>6, Answered DEF SetObjectTags
  <2>2. o.kind = "tag" /\ o.tagged = req[t].tagged
    BY <2>1 DEF OpOf
  <2> HIDE DEF o
  <2>3. Register!Allowed(o) <=> regCur.val # None
    BY <2>2 DEF Register!Allowed, Register!None, None
  <2>4. CASE rows = {}
    <3>1. UNCHANGED regCur
      BY <1>1, <1>6, <2>4, PlainTags
    <3>a. regCur = Register!Absent
      BY <2>4, MappingOf, NoneIsAbsent
    <3>2. regCur.val = None
      BY <3>a DEF Register!Absent, Register!None, None
    <3>3. Register!Fail(t)
      BY <2>1, <2>2, <2>3, <3>1, <3>2 DEF Register!Fail
    <3>4. QED
      BY <3>3 DEF Register!RegNext
  <2>5. CASE rows # {}
    <3>a. regCur' = CurOf(rows')
      BY MappingOf
    <3>b. CurOf(rows') = [val |-> regCur.val, tagged |-> req[t].tagged] /\ regCur.val # None
      BY <1>6, <2>5, PlainTags
    <3>1. regCur' = [val |-> regCur.val, tagged |-> req[t].tagged] /\ regCur.val # None
      BY <3>a, <3>b
    <3>2. Register!TakeEffect(t)
      BY <2>1, <2>2, <2>3, <3>1 DEF Register!TakeEffect
    <3>3. QED
      BY <3>2 DEF Register!RegNext
  <2>6. QED
    BY <2>4, <2>5
<1>7. ASSUME NEW t \in Threads PROVE ~CheckCondition(t) /\ ~PutLocked(t)
  BY <1>0 DEF CheckCondition, PutLocked, Plain, PlainReq
<1>8. ASSUME UNCHANGED vars PROVE RegStep
  <2>1. UNCHANGED regOp
    BY <1>8 DEF vars, regOp
  <2>2. QED
    BY <1>1, <1>8, <2>1 DEF vars, Register!regVars
<1> HIDE DEF RegStep
<1>9. RegStep
  BY <1>2, <1>3, <1>4, <1>5, <1>6, <1>7, <1>8 DEF Next
<1>10. QED
  BY <1>9 DEF RegStep

\* In a bucket that was never versioned, a key of the in-memory or the SQLite index implements a
\* register with conditional writes: whatever the interleaving of early checks, stamps and store
\* calls, each request takes effect or is refused at its one store call. (Postgres is left out: its
\* DeleteObject takes no lock.)
THEOREM KeyIsRegister ==
  ASSUME InitMode = "", Settable = {}, "postgres" \notin Stores
  PROVE  Spec => IsRegister
<1>1. Init => Register!RegInit
  <2> SUFFICES ASSUME Init PROVE Register!RegInit
    OBVIOUS
  <2>1. regCur = Register!Absent
    BY MappingOf, NoneIsAbsent DEF Init
  <2>2. regOp = [t \in Threads |-> Register!Idle]
    BY MappingOf, IdlePlain DEF Init
  <2>3. QED
    BY <2>1, <2>2 DEF Register!RegInit
<1>2. IndexInv /\ Plain /\ [Next]_vars => [Register!RegNext]_(Register!regVars)
  BY RegisterStep
<1>3. Spec => [](IndexInv /\ Plain)
  BY PlainInvariant
<1>4. QED
  BY <1>1, <1>2, <1>3, PTL DEF Spec, IsRegister, Register!RegSpec
=============================================================================

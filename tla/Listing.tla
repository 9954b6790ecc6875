------------------------------- MODULE Listing -------------------------------
(***************************************************************************)
(* A client that lists a bucket page by page (ListObjects V1 and V2,       *)
(* ListObjectVersions) while the bucket changes. A response is assembled   *)
(* from several queries of the index, rolls keys up into common prefixes,  *)
(* and ends with the marker the next request starts from.                  *)
(*                                                                         *)
(* A name is its place in the byte order, a key or a common prefix alike.  *)
(***************************************************************************)
EXTENDS Naturals, FiniteSets, Sequences

CONSTANTS
  Keys,       \* names of objects
  Views,      \* requests' prefix and delimiter, by what they make of the keys
  Starts,     \* start-after, marker or key-marker of a first request; 0 for none
  MaxKeys,    \* choices of max-keys
  ScanPage,   \* rows of one query
  Stamps,     \* VSeq of the writes to come, and of the rows there are
  Contents,   \* indexes a listing may start on
  Null, None, \* the version id "null", and no version id
  MaxWrites, MaxFaults

Names == 1 .. (CHOOSE n \in Keys : \A k \in Keys : k <= n)
Row == [key : Keys, vid : Stamps \cup {Null}, vseq : Stamps, marker : BOOLEAN]

\* under: the keys that begin with the prefix; roll: the common prefix of a key, 0 for none.
\* The keys of a common prefix follow it without a gap.
View == [under : SUBSET Keys, roll : [Keys -> Names \cup {0}]]

ASSUME ListingAssumption ==
  /\ Keys \subseteq Nat \ {0} /\ IsFiniteSet(Keys) /\ Keys # {} /\ Starts \subseteq Nat
  /\ MaxKeys \subseteq Nat /\ ScanPage \in Nat \ {0} /\ {MaxWrites, MaxFaults} \subseteq Nat
  /\ Stamps \subseteq Nat \ {0} /\ Null \notin Stamps /\ None \notin Stamps \cup {Null}
  /\ Views \subseteq View
  /\ \A v \in Views : \A k \in v.under : v.roll[k] # 0 =>
       v.roll[k] <= k /\ \A j \in v.under : v.roll[k] <= j /\ j <= k => v.roll[j] = v.roll[k]
  /\ \A c \in Contents :
       /\ c \subseteq Row /\ IsFiniteSet(c)
       /\ \A r, q \in c : r.key = q.key /\ r.vseq = q.vseq => r = q

VARIABLES
  rows,   \* the index
  fresh,  \* stamps nobody took
  job,    \* the client's listing: kind, view, start and max
  req,    \* the request in progress
  got,    \* what the client was given, in order
  held,   \* entries that were there all the time
  ever,   \* entries that were there at some time
  spent   \* writes, failures, and whether a marker named another row than it was given for

vars == <<rows, fresh, job, req, got, held, ever, spent>>

(***************************************************************************)
(* The store.                                                              *)
(***************************************************************************)
Newer(r) == {q \in rows : q.key = r.key /\ q.vseq > r.vseq}

Before(q, r) == q.key < r.key \/ (q.key = r.key /\ q.vseq > r.vseq)
First(S, n) == {r \in S : Cardinality({q \in S : Before(q, r)}) < n}

ListObjects(view, after) ==
  {r \in rows : r.key \in view.under /\ r.key > after /\ Newer(r) = {} /\ ~r.marker}

\* Mutant: the range of a prefix has no end.
ListVersionsOpen(view, marker, vseq) ==
  {r \in rows : /\ \E k \in view.under : k <= r.key
                /\ marker.key # 0 => r.key > marker.key \/ (r.key = marker.key /\ r.vseq < vseq)}

\* vseq is that of the marker, 0 if there is none or it is not found.
ListVersions(view, marker, vseq) ==
  {r \in rows : /\ r.key \in view.under
                /\ marker.key # 0 => r.key > marker.key \/ (r.key = marker.key /\ r.vseq < vseq)}

\* What a listing is to show of the index: keys, or versions.
Entries(kind, rs) ==
  IF kind = "objects"
  THEN {[key |-> r.key, vid |-> None, vseq |-> 0] :
          r \in {r \in rs : ~r.marker /\ \A q \in rs : q.key = r.key => q.vseq <= r.vseq}}
  ELSE {[key |-> r.key, vid |-> r.vid, vseq |-> r.vseq] : r \in rs}

\* A write changes the index under a listing. Rows that were fetched are scanned without a look
\* at the index, so that a write during the scan is one before the next query.
Becomes(rs) ==
  /\ req.pc \in {"marker", "query"} /\ spent.writes < MaxWrites
  /\ rows' = rs /\ spent' = [spent EXCEPT !.writes = @ + 1]
  /\ held' = held \cap Entries(job.kind, rs)
  /\ ever' = ever \cup Entries(job.kind, rs)
  /\ UNCHANGED <<job, req, got>>

\* A write with a stamp taken some time before; null versions replace each other. A deletion in
\* a versioned bucket is the write of a marker.
PutObject(k, s, null, marker) ==
  LET vid == IF null THEN Null ELSE s IN
  /\ s \in fresh /\ fresh' = fresh \ {s}
  /\ Becomes({r \in rows : r.key # k \/ r.vid # vid}
               \cup {[key |-> k, vid |-> vid, vseq |-> s, marker |-> marker]})

DeleteVersion(r) == Becomes(rows \ {r}) /\ UNCHANGED fresh

DeleteObject(k) == Becomes({r \in rows : r.key # k}) /\ UNCHANGED fresh

(***************************************************************************)
(* The handlers.                                                           *)
(***************************************************************************)
Origin == [key |-> 0, vid |-> None, vseq |-> 0]

\* A request from a marker: nothing fetched, nothing listed.
Request(marker) ==
  [pc |-> "marker", after |-> marker, cursor |-> marker, vseq |-> 0, page |-> {}, short |-> FALSE,
   items |-> <<>>, prefix |-> 0, last |-> Origin]

Init ==
  /\ rows \in Contents
  /\ fresh = Stamps \ {r.vseq : r \in rows}
  /\ job \in [kind : {"objects", "versions"}, view : Views, start : Starts, max : MaxKeys]
  /\ req = [Request([Origin EXCEPT !.key = job.start]) EXCEPT !.pc = IF job.max = 0 THEN "done" ELSE "marker"]
  /\ got = <<>> /\ held = Entries(job.kind, rows) /\ ever = held
  /\ spent = [writes |-> 0, faults |-> 0, strayed |-> FALSE]

\* ListVersions looks up the version it is to continue after; ListObjects has no need to.
FindMarker ==
  LET named == {r \in rows : r.key = req.cursor.key /\ r.vid = req.cursor.vid}
      vseq == IF named = {} THEN 0 ELSE (CHOOSE r \in named : TRUE).vseq
  IN  /\ req.pc = "marker"
      /\ IF job.kind = "objects" \/ req.cursor.vid = None
         THEN req' = [req EXCEPT !.pc = "query", !.vseq = 0] /\ UNCHANGED spent
         ELSE /\ req' = [req EXCEPT !.pc = "query", !.vseq = vseq]
              /\ spent' = [spent EXCEPT !.strayed = @ \/ vseq # req.cursor.vseq]
      /\ UNCHANGED <<rows, fresh, job, got, held, ever>>

Query ==
  LET found == IF job.kind = "objects" THEN ListObjects(job.view, req.cursor.key)
               ELSE ListVersions(job.view, req.cursor, req.vseq)
      page == First(found, ScanPage)
  IN  /\ req.pc = "query"
      /\ req' = [req EXCEPT !.pc = "scan", !.page = page, !.short = Cardinality(page) < ScanPage]
      /\ UNCHANGED <<rows, fresh, job, got, held, ever, spent>>

\* What an entry is listed as: itself, or its common prefix.
Item(view, e) ==
  IF view.roll[e.key] = 0 THEN e ELSE [key |-> view.roll[e.key], vid |-> None, vseq |-> 0]

EntryOf(r) ==
  [key |-> r.key, vid |-> IF job.kind = "objects" THEN None ELSE r.vid,
   vseq |-> IF job.kind = "objects" THEN 0 ELSE r.vseq]

\* Mutant: only what was already listed in this response is left out.
RolledUpHere(cp) == req.prefix = cp

\* The prefix was listed by an earlier response, or by this one.
RolledUp(cp) == cp <= req.after.key \/ req.prefix = cp

\* Mutant: the cursor follows what is listed, not what is scanned.
SkipInPlace(r) == req' = [req EXCEPT !.page = @ \ {r}]

Skip(r) == req' = [req EXCEPT !.page = @ \ {r}, !.cursor = EntryOf(r)]

List(r) ==
  LET item == Item(job.view, EntryOf(r)) cp == job.view.roll[r.key] IN
  req' = [req EXCEPT !.page = @ \ {r}, !.cursor = EntryOf(r), !.items = Append(@, item),
            !.prefix = IF cp # 0 THEN cp ELSE @, !.last = item]

\* Mutant: a response has room for one more.
FullTooLate == Len(req.items) > job.max

Full == Len(req.items) = job.max

\* Mutant: the client continues after the row that found no room.
TruncateAfterRow ==
  \E r \in First(req.page, 1) : req' = Request(EntryOf(r)) /\ got' = got \o req.items

\* A row more than max-keys: the response is truncated, and the client asks for the rest.
Truncate == req' = Request(req.last) /\ got' = got \o req.items

\* The next row of the page.
Scan ==
  /\ req.pc = "scan"
  /\ \E r \in First(req.page, 1) :
       LET cp == job.view.roll[r.key] IN
       IF cp # 0 /\ RolledUp(cp) THEN Skip(r) /\ UNCHANGED got
       ELSE IF Full THEN Truncate
       ELSE List(r) /\ UNCHANGED got
  /\ UNCHANGED <<rows, fresh, job, held, ever, spent>>

\* A full page is followed by another query, a short one is the last.
EndOfPage ==
  /\ req.pc = "scan" /\ req.page = {}
  /\ IF req.short THEN req' = [req EXCEPT !.pc = "done", !.items = <<>>] /\ got' = got \o req.items
     ELSE req' = [req EXCEPT !.pc = "marker"] /\ UNCHANGED got
  /\ UNCHANGED <<rows, fresh, job, held, ever, spent>>

\* A query fails: the client repeats the request.
QueryFails ==
  /\ req.pc \in {"marker", "query"} /\ spent.faults < MaxFaults
  /\ req' = Request(req.after)
  /\ spent' = [spent EXCEPT !.faults = @ + 1]
  /\ UNCHANGED <<rows, fresh, job, got, held, ever>>

Writes ==
  \/ \E k \in Keys, s \in fresh, null, marker \in BOOLEAN : PutObject(k, s, null, marker)
  \/ \E r \in rows : DeleteVersion(r)
  \/ \E k \in Keys : DeleteObject(k)

Lists == FindMarker \/ Query \/ Scan \/ EndOfPage

Next == Writes \/ Lists \/ QueryFails

Spec == Init /\ [][Next]_vars /\ WF_vars(Lists)

(***************************************************************************)
(* Properties.                                                             *)
(***************************************************************************)
Entry == [key : Keys \cup {0} \cup Names \cup Starts, vid : Stamps \cup {Null, None}, vseq : Stamps \cup {0}]

\* Type correctness; no page is longer than it was asked for, of the index or for the client.
TypeOK ==
  /\ rows \subseteq Row /\ fresh \subseteq Stamps
  /\ job \in [kind : {"objects", "versions"}, view : Views, start : Starts, max : MaxKeys]
  /\ req.pc \in {"marker", "query", "scan", "done"} /\ req.page \subseteq Row
  /\ Cardinality(req.page) <= ScanPage /\ Len(req.items) <= job.max
  /\ {req.after, req.cursor, req.last} \subseteq Entry
  /\ \A i \in DOMAIN got : got[i] \in Entry
  /\ held \subseteq ever /\ spent \in [writes : 0 .. MaxWrites, faults : 0 .. MaxFaults, strayed : BOOLEAN]

Given == {got[i] : i \in DOMAIN got}

\* A finished listing has every key, version and common prefix after its start that was there
\* all the time, whatever else was written and however the pages fell (docs/DESIGN.md, "resume after
\* key K or after rolled-up prefix P"), if no version it continued after was removed or replaced.
NothingMissed ==
  req.pc = "done" /\ job.max # 0 /\ ~spent.strayed =>
    \A e \in held : e.key \in job.view.under /\ Item(job.view, e).key > job.start
                      => Item(job.view, e) \in Given

Listed == got \o req.items

\* Under the same condition no key, version or prefix is listed twice, over all pages, and they
\* come in the order of the keys, newest version first ("a strict item > after rule").
OnceInOrder ==
  ~spent.strayed => \A i, j \in DOMAIN Listed : i < j => Before(Listed[i], Listed[j])

\* A listing shows nothing that was not in the bucket while it ran, and nothing of other prefixes.
NothingInvented ==
  \A i \in DOMAIN Listed : \E e \in ever : e.key \in job.view.under /\ Listed[i] = Item(job.view, e)

\* Every listing comes to its end: the cursor moves with every row, listed or rolled up.
ListingEnds == <>(req.pc = "done")
=============================================================================

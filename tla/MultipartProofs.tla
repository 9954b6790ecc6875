--------------------------- MODULE MultipartProofs ---------------------------
(***************************************************************************)
(* Proofs about Multipart, for any number of uploads, parts, requests and  *)
(* failures.                                                               *)
(***************************************************************************)
EXTENDS Multipart, SequenceTheorems, TLAPS

\* An object that is not composite has one reference.
SimpleHasPart ==
  \A i \in DOMAIN rows : rows[i] # Absent /\ ~rows[i].multi => 1 \in DOMAIN rows[i].parts

\* A function on 1..n is a sequence.
LEMMA IsSeq == \A S, n, f : n \in Nat /\ f \in [1..n -> S] => f \in Seq(S)
BY SeqDef

\* Appending changes nothing that is there and adds one index.
LEMMA AppendKeeps ==
  ASSUME NEW S, NEW s \in Seq(S), NEW o \in S
  PROVE  /\ \A i \in DOMAIN s : i \in DOMAIN Append(s, o) /\ Append(s, o)[i] = s[i]
         /\ DOMAIN Append(s, o) = DOMAIN s \cup {Len(s) + 1} /\ Append(s, o)[Len(s) + 1] = o
         /\ Len(Append(s, o)) = Len(s) + 1
OBVIOUS

\* The tags of a sequence of parts, and those a client names, are sequences of bodies.
LEMMA TagsType ==
  /\ \A parts \in Seq(Part) : multipartETag(parts) \in Seq(Contents)
  /\ \A list \in Seq(Wanted) : Tags(list) \in Seq(Contents)
<1>1. ASSUME NEW parts \in Seq(Part) PROVE multipartETag(parts) \in Seq(Contents)
  <2>1. DOMAIN parts = 1..Len(parts) /\ \A i \in 1..Len(parts) : parts[i] \in Part
    OBVIOUS
  <2>2. \A p \in Part : p.content \in Contents
    BY DEF Part
  <2>3. multipartETag(parts) \in [1..Len(parts) -> Contents]
    BY <2>1, <2>2 DEF multipartETag
  <2>4. QED
    BY <2>3, SeqDef
<1>2. ASSUME NEW list \in Seq(Wanted) PROVE Tags(list) \in Seq(Contents)
  <2>1. DOMAIN list = 1..Len(list) /\ \A i \in 1..Len(list) : list[i] \in Wanted
    OBVIOUS
  <2>2. \A w \in Wanted : w.tag \in Contents
    BY DEF Wanted
  <2>3. Tags(list) \in [1..Len(list) -> Contents]
    BY <2>1, <2>2 DEF Tags
  <2>4. QED
    BY <2>3, SeqDef
<1>3. QED
  BY <1>1, <1>2

\* The idle request, and a new upload, are well typed.
LEMMA IdleType == Idle \in Request /\ NewUpload \in Upload /\ Gone \in Upload
<1>1. (CHOOSE u \in Uploads : TRUE) \in Uploads
  BY MultipartAssumption
<1>2. 1 \in Numbers
  BY MultipartAssumption DEF Numbers
<1>3. <<>> \in Seq(Wanted) /\ <<>> \in Seq(Part)
  OBVIOUS
<1>4. NoParts \in [Numbers -> Part \cup {NoPart}]
  BY DEF NoParts
<1>5. QED
  BY <1>1, <1>2, <1>3, <1>4 DEF Idle, Request, NewUpload, Gone, Upload

\* The latest object, if there is one, is one of the rows.
LEMMA LatestRow ==
  ASSUME rows \in Seq(Object \cup {Absent}), Latest # Absent
  PROVE  Len(rows) \in DOMAIN rows /\ Latest = rows[Len(rows)] /\ Latest \in Object
BY DEF Latest

\* The counters stay natural numbers.
LEMMA SpentType ==
  ASSUME spent \in [requests : Nat, faults : Nat]
  PROVE  /\ [spent EXCEPT !.requests = @ + 1] \in [requests : Nat, faults : Nat]
         /\ [spent EXCEPT !.faults = @ + 1] \in [requests : Nat, faults : Nat]
<1>1. spent.requests + 1 \in Nat /\ spent.faults + 1 \in Nat
  OBVIOUS
<1>2. QED
  BY <1>1

\* A request that starts, goes on or fails keeps the types of the requests and the counters.
LEMMA BeginType ==
  ASSUME TypeOK, NEW t \in Threads, NEW r \in Request, Begin(t, r)
  PROVE  req' \in [Threads -> Request] /\ spent' \in [requests : Nat, faults : Nat]
BY SpentType DEF TypeOK, Begin

\* The same when a request goes on.
LEMMA BecomeType ==
  ASSUME TypeOK, NEW t \in Threads, NEW r \in Request, Become(t, r)
  PROVE  req' \in [Threads -> Request] /\ spent' \in [requests : Nat, faults : Nat]
BY DEF TypeOK, Become

\* The same when a request fails.
LEMMA FailType ==
  ASSUME TypeOK, NEW t \in Threads, Fail(t)
  PROVE  req' \in [Threads -> Request] /\ spent' \in [requests : Nat, faults : Nat]
BY IdleType, SpentType DEF TypeOK, Fail

\* Every list of parts a completion may name is a sequence.
LEMMA ListsType == Lists \subseteq Seq(Wanted)
<1> SUFFICES ASSUME NEW n \in Numbers, NEW list \in [1..n -> Wanted] PROVE list \in Seq(Wanted)
  BY DEF Lists
<1>1. n \in Nat
  BY MultipartAssumption DEF Numbers
<1>2. QED
  BY <1>1, SeqDef

\* The records that requests start with are requests.
LEMMA StartType ==
  ASSUME NEW u \in Uploads, NEW n \in Numbers
  PROVE  /\ \A p \in Part : [Idle EXCEPT !.pc = "part", !.up = u, !.num = n, !.part = p] \in Request
         /\ \A list \in Seq(Wanted), absent, enc \in BOOLEAN :
              [Idle EXCEPT !.pc = "list", !.up = u, !.list = list, !.absent = absent, !.enc = enc] \in Request
         /\ [Idle EXCEPT !.pc = "abort", !.up = u] \in Request
BY IdleType DEF Request

\* Every handler step keeps the types.
LEMMA NextType == TypeOK /\ SimpleHasPart /\ [Next]_vars => TypeOK'
<1> SUFFICES ASSUME TypeOK, SimpleHasPart, [Next]_vars PROVE TypeOK'
  OBVIOUS
<1> USE IdleType, TagsType
<1>0. 1 \in Numbers
  BY MultipartAssumption DEF Numbers
<1>1. CASE UNCHANGED vars
  BY <1>1 DEF TypeOK, vars
<1>2. ASSUME NEW u \in Uploads, NEW enc \in BOOLEAN, CreateMultipartUpload(u, enc) PROVE TypeOK'
  <2>1. [state |-> "open", enc |-> enc, parts |-> NoParts] \in Upload
    BY DEF Upload, NoParts
  <2>2. QED
    BY <1>2, <2>1 DEF TypeOK, CreateMultipartUpload
<1>3. ASSUME NEW c \in Contents, NEW enc \in BOOLEAN, PutObject(c, enc) PROVE TypeOK'
  <2>1. <<[content |-> c, keyed |-> enc]>> \in Seq(Part)
    BY DEF Part
  <2>2. [multi |-> FALSE, parts |-> <<[content |-> c, keyed |-> enc]>>, enc |-> enc] \in Object
    BY <2>1 DEF Object
  <2>3. rows' \in Seq(Object \cup {Absent})
    BY <1>3, <2>2 DEF TypeOK, PutObject
  <2>4. QED
    BY <1>3, <2>3 DEF TypeOK, PutObject
<1>4. CASE DeleteObject
  BY <1>4 DEF TypeOK, DeleteObject
<1>5. ASSUME NEW t \in Threads, NEW u \in Uploads, NEW n \in Numbers, NEW c \in Contents, UploadPart(t, u, n, c)
      PROVE TypeOK'
  <2>1. uploads[u].enc \in BOOLEAN
    BY DEF TypeOK, Upload
  <2>2. [content |-> c, keyed |-> uploads[u].enc] \in Part
    BY <2>1 DEF Part
  <2>3. [Idle EXCEPT !.pc = "part", !.up = u, !.num = n,
                     !.part = [content |-> c, keyed |-> uploads[u].enc]] \in Request
    BY <2>2, StartType
  <2>4. QED
    BY <1>5, <2>3, BeginType DEF TypeOK, UploadPart
<1>6. ASSUME NEW t \in Threads, NEW u \in Uploads, NEW n \in Numbers, NEW c \in Contents, NEW ranged \in BOOLEAN,
             UploadPartCopy(t, u, n, c, ranged)
      PROVE TypeOK'
  <2>1. uploads[u].enc \in BOOLEAN
    BY DEF TypeOK, Upload
  <2>2. Latest \in Object /\ Latest # Absent /\ ~Latest.multi
    BY <1>6, LatestRow DEF TypeOK, UploadPartCopy
  <2>3. 1 \in DOMAIN Latest.parts
    BY <2>2, LatestRow DEF SimpleHasPart, TypeOK
  <2>4. Latest.parts[1] \in Part
    BY <2>2, <2>3 DEF Object
  <2>5. CopiedPart(Latest, uploads[u].enc, c, ranged) \in Part
    BY <2>1, <2>4 DEF Part, CopiedPart
  <2>6. [Idle EXCEPT !.pc = "part", !.up = u, !.num = n,
                     !.part = CopiedPart(Latest, uploads[u].enc, c, ranged)] \in Request
    BY <2>5, StartType
  <2>7. QED
    BY <1>6, <2>6, BeginType DEF TypeOK, UploadPartCopy
<1>7. ASSUME NEW t \in Threads, NEW u \in Uploads, NEW list \in Lists, NEW absent \in BOOLEAN,
             Complete(t, u, list, absent)
      PROVE TypeOK'
  <2>1. uploads[u].enc \in BOOLEAN /\ list \in Seq(Wanted)
    BY ListsType DEF TypeOK, Upload
  <2>2. [Idle EXCEPT !.pc = "list", !.up = u, !.list = list, !.absent = absent,
                     !.enc = uploads[u].enc] \in Request
    BY <1>0, <2>1, StartType
  <2>3. QED
    BY <1>7, <2>2, BeginType DEF TypeOK, Complete
<1>8. ASSUME NEW t \in Threads, NEW u \in Uploads, NEW list \in Lists, CompleteAgain(t, u, list) PROVE TypeOK'
  BY <1>8, ListsType, BeginType DEF TypeOK, CompleteAgain
<1>9. ASSUME NEW t \in Threads, NEW u \in Uploads, Abort(t, u) PROVE TypeOK'
  <2>1. [Idle EXCEPT !.pc = "abort", !.up = u] \in Request
    BY <1>0, StartType
  <2>2. QED
    BY <1>9, <2>1, BeginType DEF TypeOK, Abort
<1>10. ASSUME NEW t \in Threads, PutPart(t) PROVE TypeOK'
  <2>1. req[t] \in Request
    BY DEF TypeOK
  <2>2. req[t].up \in Uploads /\ req[t].num \in Numbers /\ req[t].part \in Part \cup {NoPart}
    BY <2>1 DEF Request
  <2>3. uploads' \in [Uploads -> Upload]
    BY <1>10, <2>2 DEF TypeOK, PutPart, Upload
  <2>4. QED
    BY <1>10, <2>3, BecomeType DEF TypeOK, PutPart
<1>11. ASSUME NEW t \in Threads, ListParts(t) PROVE TypeOK'
  <2> DEFINE r == req[t]
             stored == uploads[r.up].parts
             next == [r EXCEPT !.pc = "put", !.parts = [i \in DOMAIN r.list |-> stored[r.list[i].num]]]
  <2>1. r \in Request /\ r.list \in Seq(Wanted) /\ r.up \in Uploads
    BY DEF TypeOK, Request
  <2>2. stored \in [Numbers -> Part \cup {NoPart}]
    BY <2>1 DEF TypeOK, Upload
  <2>3. ASSUME Valid(r.list, stored) PROVE next \in Request
    <3>0. Len(r.list) \in Nat /\ \A i \in 1..Len(r.list) : r.list[i] \in Wanted
      BY <2>1
    <3>1. \A w \in Wanted : w.num \in Numbers
      BY DEF Wanted
    <3>2. [i \in DOMAIN r.list |-> stored[r.list[i].num]] \in [1..Len(r.list) -> Part]
      BY <2>1, <2>2, <2>3, <3>0, <3>1 DEF Valid
    <3>3. [i \in DOMAIN r.list |-> stored[r.list[i].num]] \in Seq(Part)
      BY <3>0, <3>2, IsSeq
    <3>4. QED
      BY <2>1, <3>3 DEF Request
  <2>4. req' \in [Threads -> Request] /\ spent' \in [requests : Nat, faults : Nat]
    BY <1>11, <2>3, BecomeType DEF ListParts
  <2>5. QED
    BY <1>11, <2>4 DEF TypeOK, ListParts
<1>12. ASSUME NEW t \in Threads, PutComposite(t) PROVE TypeOK'
  <2> DEFINE r == req[t]
  <2>1. r \in Request /\ r.parts \in Seq(Part) /\ r.enc \in BOOLEAN /\ r.up \in Uploads
    BY DEF TypeOK, Request
  <2>2. [multi |-> TRUE, parts |-> r.parts, enc |-> r.enc] \in Object
    BY <2>1 DEF Object
  <2>3. rows' \in Seq(Object \cup {Absent})
    BY <1>12, <2>2 DEF TypeOK, PutComposite
  <2>4. written' \in [Uploads -> Nat]
    BY <1>12, <2>1 DEF TypeOK, PutComposite
  <2>5. [r EXCEPT !.pc = "delete"] \in Request
    BY <2>1 DEF Request
  <2>6. req' \in [Threads -> Request] /\ spent' \in [requests : Nat, faults : Nat]
    BY <1>12, <2>5, BecomeType DEF PutComposite
  <2>7. QED
    BY <1>12, <2>3, <2>4, <2>6 DEF TypeOK, PutComposite
<1>13. ASSUME NEW t \in Threads, FinishComplete(t) PROVE TypeOK'
  <2>1. req[t].up \in Uploads /\ req[t].parts \in Seq(Part)
    BY DEF TypeOK, Request
  <2>2. req' \in [Threads -> Request] /\ spent' \in [requests : Nat, faults : Nat]
    BY <1>13, BecomeType, FailType DEF FinishComplete
  <2>3. uploads' \in [Uploads -> Upload] /\ acked' \subseteq Seq(Contents)
    BY <1>13, <2>1 DEF TypeOK, FinishComplete
  <2>4. QED
    BY <1>13, <2>2, <2>3 DEF TypeOK, FinishComplete
<1>14. ASSUME NEW t \in Threads, DeleteMultipartUpload(t) PROVE TypeOK'
  BY <1>14, BecomeType DEF TypeOK, DeleteMultipartUpload
<1>15. ASSUME NEW t \in Threads, Die(t) PROVE TypeOK'
  BY <1>15, FailType DEF TypeOK, Die
<1>16. QED
  BY <1>1, <1>2, <1>3, <1>4, <1>5, <1>6, <1>7, <1>8, <1>9, <1>10, <1>11, <1>12, <1>13, <1>14, <1>15 DEF Next

(***************************************************************************)
(* The inductive invariant.                                                *)
(***************************************************************************)
HasObject(rs, tags) ==
  \E i \in DOMAIN rs : rs[i] # Absent /\ rs[i].multi /\ multipartETag(rs[i].parts) = tags

\* What ListParts has checked of the parts it hands to the write.
Checked(r) ==
  /\ multipartETag(r.parts) = Tags(r.list)
  /\ \A i \in DOMAIN r.parts : r.parts[i].keyed = r.enc
  /\ \A i \in 1..(Len(r.parts) - 1) : r.parts[i].content \notin Small

\* A part in flight carries the flag of its upload, a completion the flag it read, and a
\* completion that has only the bookkeeping left has written its object.
InFlight(t) ==
  LET r == req[t] IN
  /\ r.pc # "idle" => uploads[r.up].state # "unused"
  /\ r.pc = "part" /\ uploads[r.up].state = "open" => r.part # NoPart /\ r.part.keyed = uploads[r.up].enc
  /\ r.pc = "list" /\ uploads[r.up].state = "open" => r.enc = uploads[r.up].enc
  /\ r.pc = "put" => Checked(r)
  /\ r.pc = "delete" => written[r.up] > 0 /\ HasObject(rows, multipartETag(r.parts))

StoredFlags ==
  \A u \in Uploads, n \in Numbers :
    uploads[u].state = "open" /\ uploads[u].parts[n] # NoPart => uploads[u].parts[n].keyed = uploads[u].enc

MultipartInv ==
  /\ TypeOK /\ SimpleHasPart /\ FlagMatchesReferences /\ StoredFlags /\ AcksAreTrue
  /\ \A t \in Threads : InFlight(t)

\* What no step undoes: an upload keeps its flag while it is open and is never opened
\* again, writes are counted, rows are only added.
Monotone ==
  /\ \A u \in Uploads : uploads[u].state # "unused" =>
       /\ uploads'[u].state # "unused"
       /\ uploads'[u].state = "open" => uploads[u].state = "open" /\ uploads'[u].enc = uploads[u].enc
  /\ \A u \in Uploads : written'[u] >= written[u]
  /\ rows' = rows \/ \E o \in Object \cup {Absent} : rows' = Append(rows, o)

\* No step undoes it.
LEMMA NextMonotone == TypeOK /\ [Next]_vars => Monotone
<1> SUFFICES ASSUME TypeOK, [Next]_vars PROVE Monotone
  OBVIOUS
<1>1. CASE UNCHANGED <<rows, uploads, written>>
  BY <1>1 DEF TypeOK, Monotone
<1>2. ASSUME NEW u \in Uploads, NEW enc \in BOOLEAN, CreateMultipartUpload(u, enc) PROVE Monotone
  BY <1>2 DEF TypeOK, Monotone, CreateMultipartUpload
<1>3. ASSUME NEW c \in Contents, NEW enc \in BOOLEAN, PutObject(c, enc) PROVE Monotone
  <2>1. <<[content |-> c, keyed |-> enc]>> \in Seq(Part)
    BY DEF Part
  <2>2. [multi |-> FALSE, parts |-> <<[content |-> c, keyed |-> enc]>>, enc |-> enc] \in Object
    BY <2>1 DEF Object
  <2>3. QED
    BY <1>3, <2>2 DEF TypeOK, Monotone, PutObject
<1>4. CASE DeleteObject
  BY <1>4 DEF TypeOK, Monotone, DeleteObject
<1>5. ASSUME NEW t \in Threads, PutPart(t) PROVE Monotone
  <2>1. req[t].up \in Uploads /\ req[t].num \in Numbers
    BY DEF TypeOK, Request
  <2>2. \A u \in Uploads : uploads'[u].state = uploads[u].state /\ uploads'[u].enc = uploads[u].enc
    BY <1>5, <2>1 DEF TypeOK, Upload, PutPart
  <2>3. QED
    BY <1>5, <2>2 DEF TypeOK, Monotone, PutPart
<1>6. ASSUME NEW t \in Threads, PutComposite(t) PROVE Monotone
  <2>1. req[t].parts \in Seq(Part) /\ req[t].enc \in BOOLEAN /\ req[t].up \in Uploads
    BY DEF TypeOK, Request
  <2>2. [multi |-> TRUE, parts |-> req[t].parts, enc |-> req[t].enc] \in Object
    BY <2>1 DEF Object
  <2>3. \A u \in Uploads : written'[u] >= written[u]
    BY <1>6, <2>1 DEF TypeOK, PutComposite
  <2>4. QED
    BY <1>6, <2>2, <2>3 DEF TypeOK, Monotone, PutComposite
<1>7. ASSUME NEW t \in Threads, FinishComplete(t) \/ DeleteMultipartUpload(t) PROVE Monotone
  <2>1. req[t].up \in Uploads
    BY DEF TypeOK, Request
  <2>2. QED
    BY <1>7, <2>1 DEF TypeOK, Monotone, FinishComplete, DeleteMultipartUpload, Gone, NewUpload
<1>8. QED
  BY <1>1, <1>2, <1>3, <1>4, <1>5, <1>6, <1>7
  DEF Next, vars, UploadPart, UploadPartCopy, Complete, CompleteAgain, Abort, ListParts, Die

\* An object that was written stays a row.
LEMMA ObjectsStay ==
  ASSUME TypeOK, Monotone
  PROVE  \A tags : HasObject(rows, tags) => HasObject(rows', tags)
<1>1. \A i \in DOMAIN rows : i \in DOMAIN rows' /\ rows'[i] = rows[i]
  <2>1. ASSUME NEW o \in Object \cup {Absent}, rows' = Append(rows, o) PROVE \A i \in DOMAIN rows : i \in DOMAIN rows' /\ rows'[i] = rows[i]
    BY <2>1, AppendKeeps DEF TypeOK
  <2>2. QED
    BY <2>1 DEF Monotone
<1>2. QED
  BY <1>1 DEF HasObject

\* The requests a step leaves alone stay sound.
LEMMA OthersInFlight ==
  ASSUME TypeOK, TypeOK', Monotone, NEW s \in Threads, InFlight(s), req'[s] = req[s]
  PROVE  InFlight(s)'
<1>1. req[s].up \in Uploads
  BY DEF TypeOK, Request
<1>2. Checked(req[s])' <=> Checked(req[s])
  BY DEF Checked, multipartETag, Tags
<1>3. written[req[s].up] \in Nat /\ written'[req[s].up] \in Nat /\ written'[req[s].up] >= written[req[s].up]
  BY <1>1 DEF TypeOK, Monotone
<1>4. req[s].pc = "delete" => written'[req[s].up] > 0 /\ HasObject(rows', multipartETag(req[s].parts))
  BY <1>3, ObjectsStay DEF InFlight
<1>5. QED
  BY <1>1, <1>2, <1>4 DEF InFlight, Monotone, multipartETag

\* The invariant holds of a gateway that has served no request.
LEMMA InitInv == Init => MultipartInv
<1> SUFFICES ASSUME Init PROVE MultipartInv
  OBVIOUS
<1>1. TypeOK
  <2>1. rows \in Seq(Object \cup {Absent}) /\ spent \in [requests : Nat, faults : Nat]
    BY DEF Init
  <2>2. uploads \in [Uploads -> Upload] /\ req \in [Threads -> Request]
    BY IdleType DEF Init
  <2>3. written \in [Uploads -> Nat] /\ acked \subseteq Seq(Contents)
    BY DEF Init
  <2>4. QED
    BY <2>1, <2>2, <2>3 DEF TypeOK
<1>2. DOMAIN rows = {}
  BY DEF Init
<1>3. SimpleHasPart /\ FlagMatchesReferences
  BY <1>2 DEF SimpleHasPart, FlagMatchesReferences
<1>4. StoredFlags
  BY DEF Init, StoredFlags, NewUpload
<1>5. AcksAreTrue
  BY DEF Init, AcksAreTrue
<1>6. \A t \in Threads : req[t].pc = "idle"
  BY DEF Init, Idle
<1>7. \A t \in Threads : InFlight(t)
  BY <1>6 DEF InFlight
<1>8. QED
  BY <1>1, <1>3, <1>4, <1>5, <1>7 DEF MultipartInv

\* Adding an object whose references match its flag keeps every row sound.
LEMMA AddRow ==
  ASSUME TypeOK, SimpleHasPart, FlagMatchesReferences, NEW o \in Object \cup {Absent}, rows' = Append(rows, o),
         o # Absent => (o.multi \/ 1 \in DOMAIN o.parts) /\ \A j \in DOMAIN o.parts : o.parts[j].keyed = o.enc
  PROVE  SimpleHasPart' /\ FlagMatchesReferences'
<1>1. DOMAIN rows' = DOMAIN rows \cup {Len(rows) + 1} /\ rows'[Len(rows) + 1] = o
      /\ \A i \in DOMAIN rows : rows'[i] = rows[i]
  BY AppendKeeps DEF TypeOK
<1>2. SimpleHasPart'
  BY <1>1 DEF SimpleHasPart
<1>3. FlagMatchesReferences'
  BY <1>1 DEF FlagMatchesReferences
<1>4. QED
  BY <1>2, <1>3

\* Answers stay true as long as no new one is given.
LEMMA SameAcks ==
  ASSUME TypeOK, Monotone, AcksAreTrue, acked' = acked
  PROVE  AcksAreTrue'
<1>1. \A tags \in acked : HasObject(rows, tags)
  BY DEF AcksAreTrue, HasObject
<1>2. \A tags \in acked : HasObject(rows', tags)
  BY <1>1, ObjectsStay
<1>3. QED
  BY <1>2 DEF AcksAreTrue, HasObject

\* A thread that a step leaves idle is sound.
LEMMA IdleInFlight ==
  ASSUME NEW t \in Threads, req'[t] = Idle
  PROVE  InFlight(t)'
BY DEF InFlight, Idle

\* Every handler step keeps the invariant.
LEMMA NextInv == MultipartInv /\ [Next]_vars => MultipartInv'
<1> SUFFICES ASSUME MultipartInv, [Next]_vars PROVE MultipartInv'
  OBVIOUS
<1>a. TypeOK /\ SimpleHasPart /\ FlagMatchesReferences /\ StoredFlags /\ AcksAreTrue
      /\ \A s \in Threads : InFlight(s)
  BY DEF MultipartInv
<1>b. TypeOK' /\ Monotone
  BY <1>a, NextType, NextMonotone
<1>c. \A s \in Threads : req'[s] = req[s] => InFlight(s)'
  BY <1>a, <1>b, OthersInFlight
<1>d. rows' = rows => SimpleHasPart' /\ FlagMatchesReferences'
  BY <1>a DEF SimpleHasPart, FlagMatchesReferences
<1>e. uploads' = uploads => StoredFlags'
  BY <1>a DEF StoredFlags
<1>f. acked' = acked => AcksAreTrue'
  BY <1>a, <1>b, SameAcks
<1>g. ASSUME NEW t \in Threads, NEW r, req' = [req EXCEPT ![t] = r], InFlight(t)' PROVE \A s \in Threads : InFlight(s)'
  BY <1>a, <1>c, <1>g DEF TypeOK
<1>1. CASE UNCHANGED vars
  BY <1>1, <1>b, <1>c, <1>d, <1>e, <1>f DEF vars, MultipartInv
<1>2. ASSUME NEW u \in Uploads, NEW enc \in BOOLEAN, CreateMultipartUpload(u, enc) PROVE MultipartInv'
  <2>1. StoredFlags'
    BY <1>a, <1>2 DEF TypeOK, StoredFlags, CreateMultipartUpload, NoParts
  <2>2. QED
    BY <1>2, <1>b, <1>c, <1>d, <1>f, <2>1 DEF CreateMultipartUpload, MultipartInv
<1>3. ASSUME NEW c \in Contents, NEW enc \in BOOLEAN, PutObject(c, enc) PROVE MultipartInv'
  <2> DEFINE o == [multi |-> FALSE, parts |-> <<[content |-> c, keyed |-> enc]>>, enc |-> enc]
  <2>1. <<[content |-> c, keyed |-> enc]>> \in Seq(Part)
    BY DEF Part
  <2>2. o \in Object
    BY <2>1 DEF Object
  <2>3. 1 \in DOMAIN o.parts /\ \A j \in DOMAIN o.parts : o.parts[j].keyed = o.enc
    OBVIOUS
  <2>4. rows' = Append(rows, o)
    BY <1>3 DEF PutObject
  <2>5. SimpleHasPart' /\ FlagMatchesReferences'
    BY <1>a, <2>2, <2>3, <2>4, AddRow
  <2>6. QED
    BY <1>3, <1>b, <1>c, <1>e, <1>f, <2>5 DEF PutObject, MultipartInv
<1>4. CASE DeleteObject
  <2>1. SimpleHasPart' /\ FlagMatchesReferences'
    BY <1>a, <1>4, AddRow DEF DeleteObject
  <2>2. QED
    BY <1>4, <1>b, <1>c, <1>e, <1>f, <2>1 DEF DeleteObject, MultipartInv
<1>5. ASSUME NEW t \in Threads, NEW u \in Uploads, NEW n \in Numbers, NEW c \in Contents, UploadPart(t, u, n, c)
      PROVE MultipartInv'
  <2>1. [content |-> c, keyed |-> uploads[u].enc] # NoPart
    BY <1>a, MultipartAssumption DEF Part, TypeOK, Upload
  <2>2. req'[t].pc = "part" /\ req'[t].up = u /\ req'[t].part = [content |-> c, keyed |-> uploads[u].enc]
    BY <1>a, <1>5 DEF UploadPart, Begin, TypeOK, Idle
  <2>3. InFlight(t)'
    BY <1>5, <2>1, <2>2 DEF InFlight, UploadPart
  <2>4. QED
    BY <1>5, <1>b, <1>d, <1>e, <1>f, <1>g, <2>3 DEF UploadPart, Begin, MultipartInv
<1>6. ASSUME NEW t \in Threads, NEW u \in Uploads, NEW n \in Numbers, NEW c \in Contents, NEW ranged \in BOOLEAN,
             UploadPartCopy(t, u, n, c, ranged)
      PROVE MultipartInv'
  <2> DEFINE p == CopiedPart(Latest, uploads[u].enc, c, ranged)
  <2>1. Len(rows) \in DOMAIN rows /\ Latest = rows[Len(rows)] /\ Latest \in Object /\ ~Latest.multi /\ Latest # Absent
    BY <1>a, <1>6, LatestRow DEF TypeOK, UploadPartCopy
  <2>2. 1 \in DOMAIN Latest.parts /\ Latest.parts[1].keyed = Latest.enc
    BY <1>a, <2>1 DEF SimpleHasPart, FlagMatchesReferences
  <2>3. Latest.parts[1] \in Part /\ uploads[u].enc \in BOOLEAN
    BY <1>a, <2>1, <2>2 DEF Object, TypeOK, Upload
  <2>4. p \in Part /\ p.keyed = uploads[u].enc
    BY <2>2, <2>3 DEF CopiedPart, Part
  <2>5. req'[t].pc = "part" /\ req'[t].up = u /\ req'[t].part = p
    BY <1>a, <1>6 DEF UploadPartCopy, Begin, TypeOK, Idle
  <2>6. p # NoPart
    BY <2>4, MultipartAssumption
  <2> HIDE DEF p
  <2>7. InFlight(t)'
    BY <1>6, <2>4, <2>5, <2>6 DEF InFlight, UploadPartCopy
  <2>8. QED
    BY <1>6, <1>b, <1>d, <1>e, <1>f, <1>g, <2>7 DEF UploadPartCopy, Begin, MultipartInv
<1>7. ASSUME NEW t \in Threads, NEW u \in Uploads, NEW list \in Lists, NEW absent \in BOOLEAN,
             Complete(t, u, list, absent)
      PROVE MultipartInv'
  <2>1. req'[t].pc = "list" /\ req'[t].up = u /\ req'[t].enc = uploads[u].enc
    BY <1>a, <1>7 DEF Complete, Begin, TypeOK, Idle
  <2>2. InFlight(t)'
    BY <1>7, <2>1 DEF InFlight, Complete
  <2>3. QED
    BY <1>7, <1>b, <1>d, <1>e, <1>f, <1>g, <2>2 DEF Complete, Begin, MultipartInv
<1>8. ASSUME NEW t \in Threads, NEW u \in Uploads, NEW list \in Lists, CompleteAgain(t, u, list) PROVE MultipartInv'
  <2>1. InFlight(t)'
    BY <1>a, <1>8, IdleInFlight DEF CompleteAgain, Begin, TypeOK
  <2>2. HasObject(rows, Tags(list))
    BY <1>a, <1>8, LatestRow DEF CompleteAgain, alreadyCompleted, HasObject, TypeOK
  <2>3. AcksAreTrue'
    BY <1>a, <1>8, <2>2 DEF CompleteAgain, AcksAreTrue, HasObject
  <2>4. QED
    BY <1>8, <1>b, <1>d, <1>e, <1>g, <2>1, <2>3 DEF CompleteAgain, Begin, MultipartInv
<1>9. ASSUME NEW t \in Threads, NEW u \in Uploads, Abort(t, u) PROVE MultipartInv'
  <2>1. req'[t].pc = "abort" /\ req'[t].up = u
    BY <1>a, <1>9 DEF Abort, Begin, TypeOK, Idle
  <2>2. InFlight(t)'
    BY <1>9, <2>1 DEF InFlight, Abort
  <2>3. QED
    BY <1>9, <1>b, <1>d, <1>e, <1>f, <1>g, <2>2 DEF Abort, Begin, MultipartInv
<1>10. ASSUME NEW t \in Threads, PutPart(t) PROVE MultipartInv'
  <2>1. InFlight(t)'
    BY <1>a, <1>10, IdleInFlight DEF PutPart, Become, TypeOK
  <2>2. req[t].up \in Uploads /\ req[t].num \in Numbers
    BY <1>a DEF TypeOK, Request
  <2>3. StoredFlags'
    BY <1>a, <1>10, <2>2 DEF PutPart, StoredFlags, InFlight, TypeOK, Upload
  <2>4. QED
    BY <1>10, <1>b, <1>d, <1>f, <1>g, <2>1, <2>3 DEF PutPart, Become, MultipartInv
<1>11. ASSUME NEW t \in Threads, ListParts(t) PROVE MultipartInv'
  <2> DEFINE r == req[t]
             stored == uploads[r.up].parts
             ps == [i \in DOMAIN r.list |-> stored[r.list[i].num]]
  <2>1. CASE req'[t] = Idle
    BY ZenonT(40), <1>11, <1>b, <1>d, <1>e, <1>f, <1>g, <2>1, IdleInFlight DEF ListParts, Become, MultipartInv
  <2>2. CASE req'[t] # Idle
    <3>1. uploads[r.up].state = "open" /\ Valid(r.list, stored) /\ r.pc = "list"
      BY <1>a, <1>11, <2>2 DEF ListParts, Become, TypeOK
    <3>2. req'[t] = [r EXCEPT !.pc = "put", !.parts = ps]
      BY <1>a, <1>11, <3>1 DEF ListParts, Become, TypeOK
    <3>3. r \in Request /\ r.list \in Seq(Wanted) /\ r.up \in Uploads
      BY <1>a DEF TypeOK, Request
    <3>4. req'[t].pc = "put" /\ req'[t].parts = ps /\ req'[t].list = r.list /\ req'[t].enc = r.enc /\ req'[t].up = r.up
      BY <3>2, <3>3 DEF Request
    <3>5. r.enc = uploads[r.up].enc
      BY <1>a, <3>1 DEF InFlight
    <3>6. \A i \in DOMAIN r.list : r.list[i].num \in Numbers
      <4>1. \A w \in Wanted : w.num \in Numbers
        BY DEF Wanted
      <4>2. \A i \in DOMAIN r.list : r.list[i] \in Wanted
        BY <3>3
      <4>3. QED
        BY <4>1, <4>2
    <3>7. multipartETag(ps) = Tags(r.list)
      BY ZenonT(40), <3>1 DEF multipartETag, Tags, Valid
    <3>8. \A i \in DOMAIN ps : ps[i].keyed = r.enc
      BY <1>a, <3>1, <3>3, <3>5, <3>6 DEF StoredFlags, Valid
    <3>9. Len(r.list) \in Nat /\ DOMAIN r.list = 1..Len(r.list) /\ Len(ps) = Len(r.list)
      <4>1. Len(r.list) \in Nat /\ DOMAIN r.list = 1..Len(r.list)
        BY <3>3
      <4>2. ps \in Seq({stored[r.list[i].num] : i \in DOMAIN r.list})
        BY <4>1, IsSeq
      <4>3. Len(ps) \in Nat /\ DOMAIN ps = 1..Len(ps) /\ DOMAIN ps = 1..Len(r.list)
        BY <4>1, <4>2
      <4>4. QED
        BY <4>1, <4>3
    <3>10. \A i \in 1..(Len(ps) - 1) : ps[i].content \notin Small
      <4> SUFFICES ASSUME NEW i \in 1..(Len(ps) - 1) PROVE ps[i].content \notin Small
        OBVIOUS
      <4>1. i \in DOMAIN r.list /\ i < Len(r.list)
        BY <3>9
      <4>2. QED
        BY ZenonT(40), <3>1, <4>1 DEF Valid
    <3> HIDE DEF ps
    <3>11. InFlight(t)'
      BY <1>a, <1>b, <3>1, <3>3, <3>4, <3>7, <3>8, <3>9, <3>10 DEF InFlight, Checked, Monotone, multipartETag, Tags
    <3>12. QED
      BY <1>11, <1>b, <1>d, <1>e, <1>f, <1>g, <3>11 DEF ListParts, Become, MultipartInv
  <2>3. QED
    BY <2>1, <2>2
<1>12. ASSUME NEW t \in Threads, PutComposite(t) PROVE MultipartInv'
  <2> DEFINE r == req[t]
             o == [multi |-> TRUE, parts |-> r.parts, enc |-> r.enc]
  <2>1. r \in Request /\ r.parts \in Seq(Part) /\ r.enc \in BOOLEAN /\ r.up \in Uploads
    BY <1>a DEF TypeOK, Request
  <2>2. CASE r.absent /\ Latest # Absent
    <3>1. rows' = rows /\ req' = [req EXCEPT ![t] = Idle] /\ uploads' = uploads /\ acked' = acked
      BY <1>12, <2>2 DEF PutComposite, Become
    <3>2. InFlight(t)'
      BY <1>a, <3>1, IdleInFlight DEF TypeOK
    <3>3. QED
      BY <1>b, <1>d, <1>e, <1>f, <1>g, <3>1, <3>2 DEF MultipartInv
  <2>3. CASE ~(r.absent /\ Latest # Absent)
    <3>1. rows' = Append(rows, o) /\ req' = [req EXCEPT ![t] = [r EXCEPT !.pc = "delete"]]
          /\ uploads' = uploads /\ acked' = acked /\ written' = [written EXCEPT ![r.up] = @ + 1]
      BY <1>12, <2>3 DEF PutComposite, Become
    <3>2. o \in Object
      BY <2>1 DEF Object
    <3>3. r.pc = "put" /\ Checked(r)
      BY <1>a, <1>12 DEF PutComposite, InFlight
    <3>4. SimpleHasPart' /\ FlagMatchesReferences'
      BY <1>a, <3>1, <3>2, <3>3, AddRow DEF Checked
    <3>5. req'[t].pc = "delete" /\ req'[t].up = r.up /\ req'[t].parts = r.parts
      BY <1>a, <2>1, <3>1 DEF TypeOK, Request
    <3>6. HasObject(rows', multipartETag(r.parts))
      <4>1. Len(rows) + 1 \in DOMAIN rows' /\ rows'[Len(rows) + 1] = o
        BY <1>a, <3>1, <3>2, AppendKeeps DEF TypeOK
      <4>2. o # Absent
        BY <3>2, MultipartAssumption
      <4>3. QED
        BY <4>1, <4>2 DEF HasObject
    <3>7. written'[r.up] > 0
      BY <1>a, <2>1, <3>1 DEF TypeOK
    <3>8. uploads[r.up].state # "unused"
      BY <1>a, <3>3 DEF InFlight
    <3>9. InFlight(t)'
      BY <3>1, <3>5, <3>6, <3>7, <3>8 DEF InFlight, multipartETag
    <3>10. QED
      BY <1>b, <1>e, <1>f, <1>g, <3>1, <3>4, <3>9 DEF MultipartInv
  <2>4. QED
    BY <2>2, <2>3
<1>13. ASSUME NEW t \in Threads, FinishComplete(t) PROVE MultipartInv'
  <2>1. InFlight(t)'
    BY <1>a, <1>13, IdleInFlight DEF FinishComplete, Become, Fail, TypeOK
  <2>2. HasObject(rows, multipartETag(req[t].parts))
    BY <1>a, <1>13 DEF FinishComplete, InFlight
  <2>3. AcksAreTrue'
    BY <1>a, <1>13, <2>2 DEF FinishComplete, AcksAreTrue, HasObject
  <2>4. StoredFlags'
    BY <1>a, <1>13 DEF FinishComplete, StoredFlags, TypeOK, Gone, NewUpload
  <2>5. QED
    BY <1>13, <1>b, <1>d, <1>g, <2>1, <2>3, <2>4 DEF FinishComplete, Become, Fail, MultipartInv
<1>14. ASSUME NEW t \in Threads, DeleteMultipartUpload(t) PROVE MultipartInv'
  <2>1. InFlight(t)'
    BY <1>a, <1>14, IdleInFlight DEF DeleteMultipartUpload, Become, TypeOK
  <2>2. StoredFlags'
    BY <1>a, <1>14 DEF DeleteMultipartUpload, StoredFlags, TypeOK, Gone, NewUpload
  <2>3. QED
    BY <1>14, <1>b, <1>d, <1>f, <1>g, <2>1, <2>2 DEF DeleteMultipartUpload, Become, MultipartInv
<1>15. ASSUME NEW t \in Threads, Die(t) PROVE MultipartInv'
  <2>1. InFlight(t)'
    BY <1>a, <1>15, IdleInFlight DEF Die, Fail, TypeOK
  <2>2. QED
    BY <1>15, <1>b, <1>d, <1>e, <1>f, <1>g, <2>1 DEF Die, Fail, MultipartInv
<1>16. QED
  BY <1>1, <1>2, <1>3, <1>4, <1>5, <1>6, <1>7, <1>8, <1>9, <1>10, <1>11, <1>12, <1>13, <1>14, <1>15 DEF Next

(***************************************************************************)
(* The theorems.                                                           *)
(***************************************************************************)
\* The invariant holds in every behaviour.
LEMMA Invariance == Spec => []MultipartInv
<1>1. Init => MultipartInv
  BY InitInv
<1>2. MultipartInv /\ [Next]_vars => MultipartInv'
  BY NextInv
<1>3. QED
  BY <1>1, <1>2, PTL DEF Spec

\* Types are kept; every part of an object handleCompleteMultipartUpload wrote was uploaded.
THEOREM TypesKept == Spec => []TypeOK
<1>1. MultipartInv => TypeOK
  BY DEF MultipartInv
<1>2. QED
  BY <1>1, Invariance, PTL

\* An object's encryption flag always matches its references, whatever was uploaded, copied
\* by handleUploadPartCopy or assembled by handleCompleteMultipartUpload.
THEOREM FlagsMatch == Spec => []FlagMatchesReferences
<1>1. MultipartInv => FlagMatchesReferences
  BY DEF MultipartInv
<1>2. QED
  BY <1>1, Invariance, PTL

\* handleCompleteMultipartUpload never answers 200 for an object that was not written.
THEOREM AcksStayTrue == Spec => []AcksAreTrue
<1>1. MultipartInv => AcksAreTrue
  BY DEF MultipartInv
<1>2. QED
  BY <1>1, Invariance, PTL

\* A step that takes a thread past its write and adds a row is that thread's completion.
LEMMA OnlyCompletionWrites ==
  ASSUME TypeOK, Next, NEW t \in Threads, req[t].pc = "put", rows' # rows, req'[t] # req[t]
  PROVE  PutComposite(t)
<1>1. ASSUME NEW s \in Threads, PutComposite(s) PROVE s = t
  BY <1>1 DEF PutComposite, Become, TypeOK
<1>2. QED
  BY ZenonT(40), <1>1 DEF Next, CreateMultipartUpload, PutObject, DeleteObject, UploadPart, UploadPartCopy, Complete,
     CompleteAgain, Abort, PutPart, ListParts, FinishComplete, DeleteMultipartUpload, Die

\* What handleCompleteMultipartUpload writes is what its client named, part by part, even if
\* parts are uploaded again between its check and its write.
THEOREM CompletionsAsAsked == Spec => CompletedAsAsked
<1> DEFINE AsAsked ==
      \A t \in Threads : req[t].pc = "put" /\ rows' # rows /\ req'[t] # req[t] =>
        /\ multipartETag(Latest'.parts) = Tags(req[t].list)
        /\ \A i \in 1..(Len(Latest'.parts) - 1) : Latest'.parts[i].content \notin Small
<1>1. MultipartInv /\ [Next]_vars => [AsAsked]_vars
  <2> SUFFICES ASSUME MultipartInv, Next, NEW t \in Threads, req[t].pc = "put", rows' # rows, req'[t] # req[t]
               PROVE  /\ multipartETag(Latest'.parts) = Tags(req[t].list)
                      /\ \A i \in 1..(Len(Latest'.parts) - 1) : Latest'.parts[i].content \notin Small
    OBVIOUS
  <2> DEFINE o == [multi |-> TRUE, parts |-> req[t].parts, enc |-> req[t].enc]
  <2>1. TypeOK /\ Checked(req[t])
    BY DEF MultipartInv, InFlight
  <2>2. rows' = Append(rows, o)
    BY <2>1, OnlyCompletionWrites DEF PutComposite
  <2>3. o \in Object
    BY <2>1 DEF TypeOK, Request, Object
  <2>4. rows'[Len(rows')] = o /\ rows' # <<>>
    BY <2>1, <2>2, <2>3, AppendKeeps DEF TypeOK
  <2>5. Latest'.parts = req[t].parts
    BY <2>4 DEF Latest
  <2>6. QED
    BY <2>1, <2>5 DEF Checked, multipartETag
<1>2. QED
  BY <1>1, Invariance, PTL DEF Spec, CompletedAsAsked

\* An upload that was not aborted by handleAbortMultipartUpload is deleted only after
\* handleCompleteMultipartUpload wrote its object, whatever fails.
THEOREM UploadsKept == Spec => UploadsAreNotLost
<1> DEFINE Kept ==
      \A u \in Uploads : uploads[u].state = "open" /\ uploads'[u].state # "open" =>
        written[u] > 0 \/ \E t \in Threads : req[t].pc = "abort" /\ req[t].up = u
<1>1. MultipartInv /\ [Next]_vars => [Kept]_vars
  <2> SUFFICES ASSUME MultipartInv, Next, NEW u \in Uploads, uploads[u].state = "open", uploads'[u].state # "open"
               PROVE  written[u] > 0 \/ \E t \in Threads : req[t].pc = "abort" /\ req[t].up = u
    OBVIOUS
  <2>0. TypeOK
    BY DEF MultipartInv
  <2>1. ASSUME NEW v \in Uploads, NEW enc \in BOOLEAN, CreateMultipartUpload(v, enc) PROVE FALSE
    BY <2>0, <2>1 DEF CreateMultipartUpload, TypeOK
  <2>2. ASSUME NEW t \in Threads, PutPart(t) PROVE FALSE
    <3>1. req[t].up \in Uploads /\ req[t].num \in Numbers
      BY <2>0 DEF TypeOK, Request
    <3>2. QED
      BY <2>0, <2>2, <3>1 DEF PutPart, TypeOK, Upload
  <2>3. ASSUME NEW t \in Threads, FinishComplete(t) PROVE written[u] > 0
    <3>1. written[req[t].up] > 0
      BY <2>3 DEF MultipartInv, InFlight, FinishComplete
    <3>2. u = req[t].up
      BY <2>0, <2>3 DEF FinishComplete, TypeOK
    <3>3. QED
      BY <3>1, <3>2
  <2>4. ASSUME NEW t \in Threads, DeleteMultipartUpload(t) PROVE req[t].pc = "abort" /\ req[t].up = u
    BY <2>0, <2>4 DEF DeleteMultipartUpload, TypeOK
  <2>5. QED
    BY <2>1, <2>2, <2>3, <2>4 DEF Next, PutObject, DeleteObject, UploadPart, UploadPartCopy, Complete,
       CompleteAgain, Abort, ListParts, PutComposite, Die
<1>2. QED
  BY <1>1, Invariance, PTL DEF Spec, UploadsAreNotLost
=============================================================================

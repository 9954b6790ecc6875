------------------------------ MODULE Multipart ------------------------------
(***************************************************************************)
(* Multipart uploads to one key: creation, parts uploaded or copied in any *)
(* order, completion, its retries, and aborts. A handler is cut at its     *)
(* store calls; between them other requests run, or the request dies with  *)
(* its client or its gateway.                                              *)
(***************************************************************************)
EXTENDS Integers, Sequences, FiniteSets

CONSTANTS
  Threads,   \* concurrent requests
  Uploads,   \* upload ids
  NParts,    \* part numbers are 1..NParts
  Contents,  \* bodies; a body's MD5, its entity tag, is the body
  Small,     \* bodies shorter than minPartSize
  NoPart,    \* a part number nothing was uploaded for
  Absent,    \* the key holds no object
  MaxRows, MaxRequests, MaxFaults  \* bounds

Numbers == 1..NParts
Part == [content : Contents, keyed : BOOLEAN]  \* keyed: the reference embeds its key
Object == [multi : BOOLEAN, parts : Seq(Part), enc : BOOLEAN]
NoParts == [n \in Numbers |-> NoPart]

\* The parts a completion names: number and entity tag.
Wanted == [num : Numbers, tag : Contents]

ASSUME MultipartAssumption ==
  /\ Uploads # {} /\ NParts \in Nat \ {0} /\ Small \subseteq Contents
  /\ NoPart \notin Part /\ Absent \notin Object
  /\ {MaxRows, MaxRequests, MaxFaults} \subseteq Nat

VARIABLES
  rows,     \* the objects the key has held, oldest first; the last one is the latest
  uploads,  \* per id: in progress or not, encryption and parts
  req,      \* per thread: the request in flight
  written,  \* per id: how often its completion wrote an object
  acked,    \* entity tags completions answered 200 for
  spent     \* requests started and requests that failed

vars == <<rows, uploads, req, written, acked, spent>>

Latest == IF rows = <<>> THEN Absent ELSE rows[Len(rows)]

\* The multipart entity tag hashes the tags of the parts and counts them.
multipartETag(parts) == [i \in DOMAIN parts |-> parts[i].content]

NewUpload == [state |-> "unused", enc |-> FALSE, parts |-> NoParts]
Gone == [NewUpload EXCEPT !.state = "gone"]
Idle == [pc |-> "idle", up |-> CHOOSE u \in Uploads : TRUE, num |-> 1, part |-> NoPart,
         list |-> <<>>, parts |-> <<>>, enc |-> FALSE, absent |-> FALSE]

Init ==
  /\ rows = <<>> /\ uploads = [u \in Uploads |-> NewUpload]
  /\ req = [t \in Threads |-> Idle]
  /\ written = [u \in Uploads |-> 0] /\ acked = {}
  /\ spent = [requests |-> 0, faults |-> 0]

Begin(t, r) ==
  /\ req[t].pc = "idle" /\ spent.requests < MaxRequests
  /\ spent' = [spent EXCEPT !.requests = @ + 1]
  /\ req' = [req EXCEPT ![t] = r]

\* The request ends because a store call failed, its client hung up or its gateway died.
Fail(t) ==
  /\ spent.faults < MaxFaults
  /\ spent' = [spent EXCEPT !.faults = @ + 1]
  /\ req' = [req EXCEPT ![t] = Idle]

Become(t, r) == req' = [req EXCEPT ![t] = r] /\ UNCHANGED spent

(***************************************************************************)
(* Uploads and parts.                                                      *)
(***************************************************************************)
\* Whether the parts are encrypted is settled here, by resolveSSE. Ids are never used twice.
CreateMultipartUpload(u, enc) ==
  /\ uploads[u].state = "unused"
  /\ uploads' = [uploads EXCEPT ![u] = [state |-> "open", enc |-> enc, parts |-> NoParts]]
  /\ UNCHANGED <<rows, req, written, acked, spent>>

\* handleUploadPart: the upload is found, the body is on Swarm, the row is not yet written.
UploadPart(t, u, n, c) ==
  /\ uploads[u].state = "open"
  /\ Begin(t, [Idle EXCEPT !.pc = "part", !.up = u, !.num = n,
                           !.part = [content |-> c, keyed |-> uploads[u].enc]])
  /\ UNCHANGED <<rows, uploads, written, acked>>

\* Mutant: a whole object is always copied by its reference.
CopiedByReference(src, enc, c, ranged) ==
  IF ~ranged THEN src.parts[1] ELSE [content |-> c, keyed |-> enc]

\* A whole-object copy reuses the reference unless it crosses the encryption boundary;
\* otherwise the bytes, or a range of them, are written anew.
CopiedPart(src, enc, c, ranged) ==
  IF ~ranged /\ src.enc = enc THEN src.parts[1] ELSE [content |-> c, keyed |-> enc]

\* handleUploadPartCopy from the key itself; a composite source is not supported.
UploadPartCopy(t, u, n, c, ranged) ==
  /\ uploads[u].state = "open"
  /\ Latest # Absent /\ ~Latest.multi
  /\ ~ranged => c = Latest.parts[1].content
  /\ Begin(t, [Idle EXCEPT !.pc = "part", !.up = u, !.num = n,
                           !.part = CopiedPart(Latest, uploads[u].enc, c, ranged)])
  /\ UNCHANGED <<rows, uploads, written, acked>>

\* The row replaces an earlier part of the same number; an upload that is gone is an error.
PutPart(t) ==
  LET r == req[t] IN
  /\ r.pc = "part"
  /\ uploads' = IF uploads[r.up].state = "open" THEN [uploads EXCEPT ![r.up].parts[r.num] = r.part] ELSE uploads
  /\ Become(t, Idle)
  /\ UNCHANGED <<rows, written, acked>>

(***************************************************************************)
(* Completion.                                                             *)
(***************************************************************************)
Tags(list) == [i \in DOMAIN list |-> list[i].tag]

\* Mutant: only the number of parts is compared.
alreadyCompletedByCount(list) ==
  Latest # Absent /\ Latest.multi /\ Len(Latest.parts) = Len(list)

\* alreadyCompleted: the key holds the object that completing these parts makes.
alreadyCompleted(list) ==
  Latest # Absent /\ Latest.multi /\ multipartETag(Latest.parts) = Tags(list)

\* GetMultipartUpload: go on, or answer a retry from the object alone.
Complete(t, u, list, absent) ==
  /\ uploads[u].state = "open"
  /\ Begin(t, [Idle EXCEPT !.pc = "list", !.up = u, !.list = list, !.absent = absent,
                           !.enc = uploads[u].enc])
  /\ UNCHANGED <<rows, uploads, written, acked>>

CompleteAgain(t, u, list) ==
  /\ uploads[u].state # "open" /\ alreadyCompleted(list)
  /\ Begin(t, Idle)
  /\ acked' = acked \cup {Tags(list)}
  /\ UNCHANGED <<rows, uploads, written>>

\* Mutant: a part that was never uploaded is not noticed.
ValidUnchecked(list, parts) ==
  \A i, j \in DOMAIN list : i < j => list[i].num < list[j].num

\* Mutant: the entity tags the client names are not compared.
ValidUntagged(list, parts) ==
  /\ \A i, j \in DOMAIN list : i < j => list[i].num < list[j].num
  /\ \A i \in DOMAIN list :
       /\ parts[list[i].num] # NoPart
       /\ i < Len(list) => parts[list[i].num].content \notin Small

\* Strictly ascending; every part there with its tag; all but the last large enough.
Valid(list, parts) ==
  /\ \A i, j \in DOMAIN list : i < j => list[i].num < list[j].num
  /\ \A i \in DOMAIN list :
       /\ parts[list[i].num] # NoPart
       /\ parts[list[i].num].content = list[i].tag
       /\ i < Len(list) => list[i].tag \notin Small

\* Mutant: a completion that is refused removes the upload.
ListPartsAndForget(t) ==
  LET r == req[t]
      stored == uploads[r.up].parts
      ok == uploads[r.up].state = "open" /\ Valid(r.list, stored)
  IN  /\ r.pc = "list"
      /\ Become(t, IF ok THEN [r EXCEPT !.pc = "put", !.parts = [i \in DOMAIN r.list |-> stored[r.list[i].num]]]
                   ELSE Idle)
      /\ uploads' = IF ok THEN uploads ELSE [uploads EXCEPT ![r.up] = Gone]
      /\ UNCHANGED <<rows, written, acked>>

ListParts(t) ==
  LET r == req[t]
      stored == uploads[r.up].parts
  IN  /\ r.pc = "list"
      /\ Become(t, IF uploads[r.up].state = "open" /\ Valid(r.list, stored)
                   THEN [r EXCEPT !.pc = "put", !.parts = [i \in DOMAIN r.list |-> stored[r.list[i].num]]]
                   ELSE Idle)
      /\ UNCHANGED <<rows, uploads, written, acked>>

\* PutObject, with If-None-Match: * when the client sent it.
PutComposite(t) ==
  LET r == req[t]
      ok == ~r.absent \/ Latest = Absent
  IN  /\ r.pc = "put" /\ Len(rows) < MaxRows
      /\ rows' = IF ok THEN Append(rows, [multi |-> TRUE, parts |-> r.parts, enc |-> r.enc]) ELSE rows
      /\ written' = [written EXCEPT ![r.up] = @ + (IF ok THEN 1 ELSE 0)]
      /\ Become(t, IF ok THEN [r EXCEPT !.pc = "delete"] ELSE Idle)
      /\ UNCHANGED <<uploads, acked>>

\* The answer is 200 whether or not the bookkeeping could be deleted.
FinishComplete(t) ==
  LET r == req[t] IN
  /\ r.pc = "delete"
  /\ \/ uploads' = [uploads EXCEPT ![r.up] = Gone] /\ Become(t, Idle)
     \/ UNCHANGED uploads /\ Fail(t)
  /\ acked' = acked \cup {multipartETag(r.parts)}
  /\ UNCHANGED <<rows, written>>

Abort(t, u) ==
  /\ uploads[u].state = "open"
  /\ Begin(t, [Idle EXCEPT !.pc = "abort", !.up = u])
  /\ UNCHANGED <<rows, uploads, written, acked>>

DeleteMultipartUpload(t) ==
  /\ req[t].pc = "abort"
  /\ uploads' = [uploads EXCEPT ![req[t].up] = Gone]
  /\ Become(t, Idle)
  /\ UNCHANGED <<rows, written, acked>>

(***************************************************************************)
(* Everything else that happens to the key and to requests.                *)
(***************************************************************************)
\* A simple PUT; ObjectIndex has its steps.
PutObject(c, enc) ==
  /\ Len(rows) < MaxRows
  /\ rows' = Append(rows, [multi |-> FALSE, parts |-> <<[content |-> c, keyed |-> enc]>>, enc |-> enc])
  /\ UNCHANGED <<uploads, req, written, acked, spent>>

DeleteObject ==
  /\ Latest # Absent /\ Len(rows) < MaxRows
  /\ rows' = Append(rows, Absent)
  /\ UNCHANGED <<uploads, req, written, acked, spent>>

\* At any store call the request may end.
Die(t) ==
  /\ req[t].pc # "idle"
  /\ Fail(t)
  /\ UNCHANGED <<rows, uploads, written, acked>>

Lists == UNION {[1..n -> Wanted] : n \in Numbers}

Next ==
  \/ \E u \in Uploads, enc \in BOOLEAN : CreateMultipartUpload(u, enc)
  \/ \E c \in Contents, enc \in BOOLEAN : PutObject(c, enc)
  \/ DeleteObject
  \/ \E t \in Threads, u \in Uploads :
       \/ \E n \in Numbers, c \in Contents : UploadPart(t, u, n, c)
       \/ \E n \in Numbers, c \in Contents, ranged \in BOOLEAN : UploadPartCopy(t, u, n, c, ranged)
       \/ \E list \in Lists, absent \in BOOLEAN : Complete(t, u, list, absent)
       \/ \E list \in Lists : CompleteAgain(t, u, list)
       \/ Abort(t, u)
  \/ \E t \in Threads :
       \/ PutPart(t) \/ ListParts(t) \/ PutComposite(t) \/ FinishComplete(t)
       \/ DeleteMultipartUpload(t) \/ Die(t)

Spec == Init /\ [][Next]_vars

(***************************************************************************)
(* Properties.                                                             *)
(***************************************************************************)
Upload == [state : {"unused", "open", "gone"}, enc : BOOLEAN, parts : [Numbers -> Part \cup {NoPart}]]
Request == [pc : {"idle", "part", "list", "put", "delete", "abort"}, up : Uploads, num : Numbers,
            part : Part \cup {NoPart}, list : Seq(Wanted), parts : Seq(Part), enc : BOOLEAN, absent : BOOLEAN]

\* Type correctness; in particular every part of an object was uploaded.
TypeOK ==
  /\ rows \in Seq(Object \cup {Absent}) /\ uploads \in [Uploads -> Upload]
  /\ req \in [Threads -> Request] /\ written \in [Uploads -> Nat]
  /\ acked \subseteq Seq(Contents) /\ spent \in [requests : Nat, faults : Nat]

\* An object says it is encrypted exactly if every reference it holds embeds a key, whatever
\* mixture of uploads and copies its parts came from: otherwise a commit would publish a key
\* or the object claim an encryption it has not (handleUploadPartCopy on crossesSSE).
FlagMatchesReferences ==
  \A i \in DOMAIN rows : rows[i] # Absent =>
    \A j \in DOMAIN rows[i].parts : rows[i].parts[j].keyed = rows[i].enc

\* A completion writes the bodies its client named, in the order of their numbers and none
\* but the last below the minimum, whatever parts are replaced while it runs (the check that
\* every part is "uploaded with a matching ETag").
CompletedAsAsked ==
  [][\A t \in Threads : req[t].pc = "put" /\ rows' # rows /\ req'[t] # req[t] =>
       /\ multipartETag(Latest'.parts) = Tags(req[t].list)
       /\ \A i \in 1..(Len(Latest'.parts) - 1) : Latest'.parts[i].content \notin Small]_vars

\* A completion that is answered 200, a retry or not, has an object of exactly those parts
\* to show for it ("If the object at this key is the result of completing exactly these
\* parts, report success again").
AcksAreTrue ==
  \A tags \in acked : \E i \in DOMAIN rows :
    rows[i] # Absent /\ rows[i].multi /\ multipartETag(rows[i].parts) = tags

\* An upload disappears only when a client aborts it or after its object was written: a
\* completion that fails half-way, or whose condition fails, can be sent again.
UploadsAreNotLost ==
  [][\A u \in Uploads : uploads[u].state = "open" /\ uploads'[u].state # "open" =>
       written[u] > 0 \/ \E t \in Threads : req[t].pc = "abort" /\ req[t].up = u]_vars
=============================================================================

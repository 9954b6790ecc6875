---------------------------- MODULE BucketAccess -----------------------------
(***************************************************************************)
(* Who may touch a bucket and who can read what is in it. A request is let *)
(* through by one read of the bucket's row, works from a later read of it, *)
(* uploads to Bee under the ACT history it found there, and writes the row *)
(* back without comparing. Grants, uploads, copies, multipart uploads and  *)
(* the deletion and re-creation of the bucket overlap.                     *)
(***************************************************************************)
EXTENDS Integers, Sequences

CONSTANTS
  Tenants, Root,  \* who sends requests; the root identity passes every check
  Keys,           \* keys a tenant grants access to
  Objects,        \* object keys
  Threads,        \* requests under way at the same time
  MaxRequests,    \* bound: requests in all
  MaxHistories,   \* bound: ACT histories Bee starts
  MaxLives        \* bound: times the bucket is created

ASSUME AccessAssumption ==
  /\ Root \notin Tenants
  /\ {MaxRequests, MaxHistories, MaxLives} \subseteq Nat

VARIABLES
  bucket,   \* the bucket's row
  objects,  \* key -> the pieces of its object; none: no object
  upload,   \* a multipart upload and its parts
  lists,    \* Bee: the grantee lists, numbered from 1
  hists,    \* Bee: the keys that can read what is written under each history
  req,      \* thread -> its request
  lives,    \* how often the bucket has been created
  spent,    \* requests so far
  granted,  \* what the acknowledged grants and revokes amount to
  crossed   \* the row was written by a request that loaded another bucket of the name

vars == <<bucket, objects, upload, lists, hists, req, lives, spent, granted, crossed>>

\* No history, no list, no bucket: 0. A piece is what one reference stands for.
Bucket == [exists : BOOLEAN, owner : Tenants \cup {Root}, act : BOOLEAN,
           history : 0..MaxHistories, list : 0..MaxHistories, life : 0..MaxLives]
NoBucket == [exists |-> FALSE, owner |-> Root, act |-> FALSE, history |-> 0, list |-> 0, life |-> 0]

Piece == [under : 0..MaxHistories,     \* what Bee encrypted it with
          recorded : 0..MaxHistories,  \* what its row says
          part : BOOLEAN,
          life : 0..MaxLives]          \* the bucket it went to; 0: it was copied by the row of another

Ops == {"create", "delete", "put", "copy", "remove", "initiate", "part", "partCopy", "complete", "grant"}
Idle == [pc |-> "idle", op |-> "create", who |-> Root, seen |-> 0, b |-> NoBucket, src |-> NoBucket,
         pieces |-> {}, add |-> {}, revoke |-> {}, list |-> 0, hist |-> 0]

Init ==
  /\ bucket = NoBucket /\ objects = [k \in Objects |-> {}] /\ upload = [open |-> FALSE, parts |-> {}]
  /\ lists = <<>> /\ hists = <<>>
  /\ req = [t \in Threads |-> Idle] /\ lives = 0 /\ spent = 0
  /\ granted = {} /\ crossed = FALSE

Members(list) == IF list = 0 THEN {} ELSE lists[list]

At(t, pc) == req[t].pc = pc
Goes(t, r) == req' = [req EXCEPT ![t] = r]
Moves(t, pc) == Goes(t, [req[t] EXCEPT !.pc = pc])
Ends(t) == Goes(t, Idle)

(***************************************************************************)
(* Letting a request in.                                                   *)
(***************************************************************************)
\* Mutant: buckets of the root identity are everyone's.
authorizeBucketOpen(who) == who = Root \/ ~bucket.exists \/ bucket.owner \in {Root, who}

\* A missing bucket passes: what to answer is the handler's business.
authorizeBucket(who) == who = Root \/ ~bucket.exists \/ bucket.owner = who

First(op) == CASE op = "create" -> {"mint", "insert"}
               [] op \in {"put", "copy", "part", "complete", "grant"} -> {"load"}
               [] op = "partCopy" -> {"source"}
               [] OTHER -> {op}

\* Creating is not checked. A read that fails lets any request pass, like a missing bucket, so the
\* ones the check would refuse are let in with nothing seen.
Dispatch(t) ==
  /\ At(t, "idle") /\ spent < MaxRequests
  /\ \E op \in Ops, who \in Tenants \cup {Root} :
       \E add \in IF op = "grant" THEN SUBSET Keys ELSE {{}}, revoke \in IF op = "grant" THEN SUBSET Keys ELSE {{}},
          pc \in First(op) :
         /\ op = "grant" => add \cup revoke # {}
         /\ Goes(t, [Idle EXCEPT !.pc = pc, !.op = op, !.who = who, !.add = add, !.revoke = revoke,
                                 !.seen = IF op # "create" /\ authorizeBucket(who) THEN bucket.life ELSE 0])
  /\ spent' = spent + 1
  /\ UNCHANGED <<bucket, objects, upload, lists, hists, lives, granted, crossed>>

\* Bee, the store or the client fails, or the process dies.
Fails(t) == ~At(t, "idle") /\ Ends(t) /\ UNCHANGED <<bucket, objects, upload, lists, hists, lives, spent, granted, crossed>>

(***************************************************************************)
(* Buckets.                                                                *)
(***************************************************************************)
\* A marker is uploaded to start the history.
createActHistory(t) ==
  /\ At(t, "mint") /\ Len(hists) < MaxHistories
  /\ hists' = Append(hists, {})
  /\ Goes(t, [req[t] EXCEPT !.pc = "insert", !.hist = Len(hists) + 1])
  /\ UNCHANGED <<bucket, objects, upload, lists, lives, spent, granted, crossed>>

Created(t, history) ==
  [exists |-> TRUE, owner |-> req[t].who, act |-> req[t].hist # 0, history |-> history, list |-> 0, life |-> lives + 1]

\* Mutant: the first upload is left to start the history.
CreateBucketLazily(t) ==
  /\ At(t, "insert") /\ ~bucket.exists /\ lives < MaxLives
  /\ bucket' = Created(t, 0)
  /\ lives' = lives + 1 /\ granted' = {} /\ crossed' = FALSE
  /\ Ends(t) /\ UNCHANGED <<objects, upload, lists, hists, spent>>

\* A bucket that is there is left as it is, whatever the answer.
CreateBucket(t) ==
  /\ At(t, "insert") /\ ~bucket.exists /\ lives < MaxLives
  /\ bucket' = Created(t, req[t].hist)
  /\ lives' = lives + 1 /\ granted' = {} /\ crossed' = FALSE
  /\ Ends(t) /\ UNCHANGED <<objects, upload, lists, hists, spent>>

\* Only objects keep a bucket; a multipart upload stays behind.
DeleteBucket(t) ==
  /\ At(t, "delete") /\ bucket.exists /\ \A k \in Objects : objects[k] = {}
  /\ bucket' = NoBucket
  /\ Ends(t) /\ UNCHANGED <<objects, upload, lists, hists, lives, spent, granted, crossed>>

\* The row is replaced whatever it is by now. What is acknowledged counts from what the request
\* had read; if that was no longer so, from what it wrote.
SetBucketACT(t, history, list, grants) ==
  /\ bucket' = [bucket EXCEPT !.act = TRUE, !.history = history, !.list = list]
  /\ granted' = IF bucket = req[t].b THEN grants ELSE Members(list)
  /\ crossed' = (crossed \/ bucket.life # req[t].b.life)

(***************************************************************************)
(* Bytes.                                                                  *)
(***************************************************************************)
\* Mutant: the bucket's history is as good as the recorded one.
actHistoryForBucket(recorded, b) == b.history

actHistoryFor(recorded, b) == IF recorded # 0 THEN recorded ELSE b.history

\* Bee: plain bytes are anyone's; others decrypt only under the history they were written under.
Decrypts(p, history) == p.under \in {0, history}

\* What the gateway asks Bee with; nothing for a plain bucket.
Readable(p, b) == Decrypts(p, IF b.act THEN actHistoryFor(p.recorded, b) ELSE 0)

\* The row a request works from.
GetBucket(t) ==
  /\ At(t, "load") /\ bucket.exists
  /\ req[t].op = "part" => upload.open
  /\ req[t].op = "grant" => bucket.act /\ (bucket.list = 0 => req[t].revoke = {})
  /\ \E pc \in CASE req[t].op \in {"put", "part"} -> {"upload"} [] req[t].op = "copy" -> {"source"}
                 [] req[t].op = "partCopy" -> {"store"} \cup {"upload" : p \in {q \in req[t].pieces : Readable(q, req[t].src)}}
                 [] req[t].op = "complete" -> {"parts"} [] req[t].op = "grant" -> {"bee"} :
       Goes(t, [req[t] EXCEPT !.pc = pc, !.b = bucket])
  /\ UNCHANGED <<bucket, objects, upload, lists, hists, lives, spent, granted, crossed>>

\* A copy checks the source bucket, loads it and then the object. Within one bucket there is no
\* ACT boundary to cross.
GetSourceBucket(t) ==
  /\ At(t, "source") /\ bucket.exists /\ authorizeBucket(req[t].who)
  /\ req[t].op = "partCopy" => upload.open
  /\ Goes(t, [req[t] EXCEPT !.pc = "object", !.src = bucket])
  /\ UNCHANGED <<bucket, objects, upload, lists, hists, lives, spent, granted, crossed>>

\* The reference keeps the history it was written under; a row without one is pinned to the source's.
GetSourceObject(t) ==
  /\ At(t, "object")
  /\ \E k \in Objects :
       /\ objects[k] # {}
       /\ IF req[t].op = "copy"
          THEN Goes(t, [req[t] EXCEPT !.pc = "store",
                 !.pieces = {[p EXCEPT !.recorded = IF req[t].b.act /\ ~p.part /\ @ = 0 THEN req[t].src.history ELSE @] :
                               p \in objects[k]}])
          ELSE /\ \A p \in objects[k] : ~p.part
               /\ Goes(t, [req[t] EXCEPT !.pc = "load",
                    !.pieces = {[p EXCEPT !.part = TRUE, !.life = IF @ = req[t].src.life THEN @ ELSE 0,
                                          !.recorded = IF req[t].src.act THEN actHistoryFor(@, req[t].src) ELSE 0] :
                                  p \in objects[k]}])
  /\ UNCHANGED <<bucket, objects, upload, lists, hists, lives, spent, granted, crossed>>

PieceUnder(t, history) ==
  [under |-> history, recorded |-> history, part |-> req[t].op # "put", life |-> req[t].b.life]

\* Bee extends the history it is given, or starts another one and says so.
UploadBytes(t) ==
  /\ At(t, "upload")
  /\ \/ /\ Goes(t, [req[t] EXCEPT !.pc = "store", !.pieces = {PieceUnder(t, req[t].b.history)}])
        /\ UNCHANGED hists
     \/ /\ req[t].b.act /\ Len(hists) < MaxHistories
        /\ hists' = Append(hists, {})
        /\ Goes(t, [req[t] EXCEPT !.pc = IF req[t].op = "partCopy" THEN "store" ELSE "track",
                                  !.hist = Len(hists) + 1, !.pieces = {PieceUnder(t, Len(hists) + 1)}])
  /\ UNCHANGED <<bucket, objects, upload, lists, lives, spent, granted, crossed>>

\* Mutant: the row gets the new history and no list.
TrackAlone(t) ==
  /\ At(t, "track") /\ bucket.exists
  /\ SetBucketACT(t, req[t].hist, 0, granted)
  /\ Moves(t, "store") /\ UNCHANGED <<objects, upload, lists, hists, lives, spent>>

\* The history Bee started, with the list the request had loaded; an error is passed over.
Track(t) ==
  /\ At(t, "track")
  /\ \/ bucket.exists /\ SetBucketACT(t, req[t].hist, req[t].b.list, granted)
     \/ UNCHANGED <<bucket, granted, crossed>>
  /\ Moves(t, "store") /\ UNCHANGED <<objects, upload, lists, hists, lives, spent>>

PutObject(t) ==
  /\ At(t, "store") /\ req[t].op \in {"put", "copy", "complete"} /\ bucket.exists
  /\ \E k \in Objects : objects' = [objects EXCEPT ![k] = req[t].pieces]
  /\ IF req[t].op = "complete" THEN Moves(t, "close") ELSE Ends(t)
  /\ UNCHANGED <<bucket, upload, lists, hists, lives, spent, granted, crossed>>

PutPart(t) ==
  /\ At(t, "store") /\ req[t].op \in {"part", "partCopy"} /\ upload.open
  /\ upload' = [upload EXCEPT !.parts = @ \cup req[t].pieces]
  /\ Ends(t) /\ UNCHANGED <<bucket, objects, lists, hists, lives, spent, granted, crossed>>

DeleteObject(t) ==
  /\ At(t, "remove") /\ \E k \in Objects : objects' = [objects EXCEPT ![k] = {}]
  /\ Ends(t) /\ UNCHANGED <<bucket, upload, lists, hists, lives, spent, granted, crossed>>

CreateMultipartUpload(t) ==
  /\ At(t, "initiate") /\ bucket.exists /\ ~upload.open
  /\ upload' = [open |-> TRUE, parts |-> {}]
  /\ Ends(t) /\ UNCHANGED <<bucket, objects, lists, hists, lives, spent, granted, crossed>>

\* The parts are stored as an object, then the upload is removed.
ListParts(t) ==
  /\ At(t, "parts") /\ upload.open /\ upload.parts # {}
  /\ \E chosen \in (SUBSET upload.parts) \ {{}} : Goes(t, [req[t] EXCEPT !.pc = "store", !.pieces = chosen])
  /\ UNCHANGED <<bucket, objects, upload, lists, hists, lives, spent, granted, crossed>>

DeleteMultipartUpload(t) ==
  /\ At(t, "close") /\ upload' = [open |-> FALSE, parts |-> {}]
  /\ Ends(t) /\ UNCHANGED <<bucket, objects, lists, hists, lives, spent, granted, crossed>>

(***************************************************************************)
(* Grants.                                                                 *)
(***************************************************************************)
\* Bee: a list is never changed, only followed by another one. Who is added and revoked is revoked.
Amended(list, add, revoke) == (Members(list) \cup add) \ revoke

\* CreateGrantees or PatchGrantees: the list and the history are new ones.
BeeGrants(t) ==
  LET now == Amended(req[t].b.list, req[t].add, req[t].revoke) IN
  /\ At(t, "bee") /\ Len(lists) < MaxHistories /\ Len(hists) < MaxHistories
  /\ lists' = Append(lists, now) /\ hists' = Append(hists, now)
  /\ Goes(t, [req[t] EXCEPT !.pc = "record", !.list = Len(lists) + 1, !.hist = Len(hists) + 1])
  /\ UNCHANGED <<bucket, objects, upload, lives, spent, granted, crossed>>

RecordGrants(t) ==
  /\ At(t, "record") /\ bucket.exists
  /\ SetBucketACT(t, req[t].hist, req[t].list, (granted \cup req[t].add) \ req[t].revoke)
  /\ Ends(t) /\ UNCHANGED <<objects, upload, lists, hists, lives, spent>>

Next == \E t \in Threads :
  \/ Dispatch(t) \/ Fails(t)
  \/ createActHistory(t) \/ CreateBucket(t) \/ DeleteBucket(t)
  \/ GetBucket(t) \/ GetSourceBucket(t) \/ GetSourceObject(t) \/ UploadBytes(t) \/ Track(t)
  \/ PutObject(t) \/ PutPart(t) \/ DeleteObject(t)
  \/ CreateMultipartUpload(t) \/ ListParts(t) \/ DeleteMultipartUpload(t)
  \/ BeeGrants(t) \/ RecordGrants(t)

Spec == Init /\ [][Next]_vars

(***************************************************************************)
(* Properties.                                                             *)
(***************************************************************************)
\* Type correctness, and a bucket is ACT-protected exactly if it has a history from the start
\* ("keeps concurrent first writes from racing two histories into existence").
TypeOK ==
  /\ bucket \in Bucket /\ (bucket.act <=> bucket.history # 0)
  /\ \A k \in Objects : objects[k] \subseteq Piece
  /\ upload.open \in BOOLEAN /\ upload.parts \subseteq Piece
  /\ \A t \in Threads : req[t].pieces \subseteq Piece /\ req[t].b \in Bucket /\ req[t].hist \in 0..Len(hists)
  /\ granted \subseteq Keys /\ lives \in 0..MaxLives

\* Whatever grants, revokes, copies and fresh histories came in between, the gateway can read back
\* every piece of every object with what its row says, and in an ACT bucket every one of them was
\* uploaded with ACT ("with the write-time history ...: grant mutations re-key into a new history
\* that cannot decrypt every older epoch"). Pieces and row writes that come from an earlier bucket
\* of the name are another matter, and so are parts copied while the bucket was replaced.
OwnerReads ==
  \A k \in Objects : \A p \in objects[k] :
    p.life = bucket.life /\ ~crossed => Readable(p, bucket) /\ (bucket.act => p.under # 0)

\* A grant mutation that is acknowledged, and read the row it replaces, has exactly its effect:
\* the list on record is what the acknowledged ones amount to, and the history new uploads go
\* under is readable by none but those on it, whatever uploads and failed mutations there were.
GrantsInEffect ==
  bucket.act => Members(bucket.list) = granted /\ hists[bucket.history] \subseteq granted

\* "A tenant key may only touch buckets its tenant owns": no step of a tenant changes the row, the
\* objects or the upload of a bucket it does not own, unless the bucket has been re-created since
\* the request was let in, or the check could not read it.
OwnBucketOnly ==
  [][\A t \in Threads :
       /\ req'[t] # req[t] /\ bucket.exists
       /\ <<bucket', objects', upload'>> # <<bucket, objects, upload>>
       => req[t].who \in {Root, bucket.owner} \/ req[t].seen # bucket.life]_vars
=============================================================================

-------------------------- MODULE BucketAccessProofs -------------------------
(***************************************************************************)
(* Proofs about BucketAccess, for any number of tenants, keys, objects,    *)
(* requests, histories and lives of the bucket.                            *)
(***************************************************************************)
EXTENDS BucketAccess, TLAPS

Pcs == {"idle", "mint", "insert", "load", "source", "object", "upload", "track", "store", "parts",
        "close", "bee", "record", "delete", "remove", "initiate"}

Request == [pc : Pcs, op : Ops, who : Tenants \cup {Root}, seen : 0..MaxLives, b : Bucket, src : Bucket,
            pieces : SUBSET Piece, add : SUBSET Keys, revoke : SUBSET Keys,
            list : 0..MaxHistories, hist : 0..MaxHistories]

\* What the facts below depend on.
World == [bucket |-> bucket, crossed |-> crossed, lives |-> lives, hists |-> hists, lists |-> lists]
Worlds == [bucket : Bucket, crossed : BOOLEAN, lives : 0..MaxLives, hists : Seq(SUBSET Keys), lists : Seq(SUBSET Keys)]

\* A row of the bucket, as it is or as a request has read it: it is protected exactly if it has a
\* history, Bee knows its history and its list, and while no row write has crossed from one bucket
\* of the name to the next, all readings of one bucket agree on whether it is protected.
RowIn(r, W) ==
  /\ r.act <=> r.history # 0
  /\ r.history <= Len(W.hists) /\ r.list <= Len(W.lists) /\ r.life <= W.lives
  /\ r.exists <=> r.life # 0
  /\ W.bucket.exists /\ r.life = W.bucket.life /\ ~W.crossed => r.act = W.bucket.act

\* A piece that went to the bucket there is now was uploaded the way the bucket is protected, and
\* its row says under which history.
PieceIn(p, W) ==
  /\ p.life <= W.lives
  /\ W.bucket.exists /\ p.life = W.bucket.life /\ ~W.crossed =>
       IF W.bucket.act THEN p.under # 0 /\ p.recorded = p.under ELSE p.under = 0

\* A request was let in by the owner of the bucket there is, or sees another bucket.
LetIn(r, W) == r.seen <= W.lives /\ (W.bucket.exists /\ r.seen = W.bucket.life => r.who \in {Root, W.bucket.owner})

\* What Bee has done for a request: a history of its own that nobody is on, or one for the list it made.
MembersIn(list, W) == IF list = 0 THEN {} ELSE W.lists[list]
BeeDid(r, W) ==
  /\ r.hist <= Len(W.hists) /\ r.list <= Len(W.lists)
  /\ r.pc = "insert" /\ r.hist # 0 => W.hists[r.hist] = {}
  /\ r.pc = "track" => r.hist # 0 /\ W.hists[r.hist] = {}
  /\ r.pc = "record" => /\ r.hist # 0 /\ r.list # 0 /\ W.hists[r.hist] = W.lists[r.list]
                        /\ W.lists[r.list] = (MembersIn(r.b.list, W) \cup r.add) \ r.revoke

RequestIn(r, W) ==
  /\ RowIn(r.b, W) /\ RowIn(r.src, W) /\ (\A p \in r.pieces : PieceIn(p, W))
  /\ LetIn(r, W) /\ BeeDid(r, W)
  /\ r.pc = "upload" => r.b.exists
  /\ r.pc \in {"track", "bee", "record"} => r.b.act
  /\ r.pc = "load" => r.op \in {"put", "part", "copy", "partCopy", "complete", "grant"}
  /\ r.pc \in {"source", "object"} => r.op \in {"copy", "partCopy"}

\* What is in effect: the list on record, and a history readable by none but those on it.
GrantsIn(W, g) ==
  W.bucket.act => MembersIn(W.bucket.list, W) = g /\ W.hists[W.bucket.history] \subseteq g

Types ==
  /\ World \in Worlds /\ Len(lists) <= MaxHistories /\ Len(hists) <= MaxHistories
  /\ objects \in [Objects -> SUBSET Piece] /\ upload \in [open : BOOLEAN, parts : SUBSET Piece]
  /\ req \in [Threads -> Request]
  /\ granted \subseteq Keys

\* The inductive invariant.
AccessInv ==
  /\ Types
  /\ RowIn(bucket, World) /\ (~bucket.exists => \A k \in Objects : objects[k] = {})
  /\ \A k \in Objects : \A p \in objects[k] : PieceIn(p, World)
  /\ \A p \in upload.parts : PieceIn(p, World)
  /\ \A t \in Threads : RequestIn(req[t], World)
  /\ GrantsIn(World, granted)

\* Bee forgets nothing, and the bucket is gone, a new one, or the same with the same protection.
Grows(s, z) == Len(s) <= Len(z) /\ \A i \in 1..Len(s) : z[i] = s[i]
Advances(W, X) ==
  /\ W.lives <= X.lives /\ Grows(W.hists, X.hists) /\ Grows(W.lists, X.lists)
  /\ \/ ~X.bucket.exists
     \/ X.bucket.life > W.lives
     \/ /\ W.bucket.exists /\ X.bucket.life = W.bucket.life /\ X.bucket.owner = W.bucket.owner
        /\ ~X.crossed => ~W.crossed /\ X.bucket.act = W.bucket.act

\* Fields and their types.
LEMMA WorldTypes ==
  ASSUME NEW W \in Worlds
  PROVE  /\ W.lives \in Nat /\ Len(W.hists) \in Nat /\ Len(W.lists) \in Nat
         /\ W.bucket \in Bucket /\ W.crossed \in BOOLEAN
BY AccessAssumption DEF Worlds

LEMMA RowTypes ==
  ASSUME NEW r \in Bucket
  PROVE  /\ r.exists \in BOOLEAN /\ r.act \in BOOLEAN /\ r.owner \in Tenants \cup {Root}
         /\ r.life \in Nat /\ r.history \in Nat /\ r.list \in Nat
BY AccessAssumption DEF Bucket

LEMMA RowAdvances ==
  ASSUME NEW W \in Worlds, NEW X \in Worlds, Advances(W, X), NEW r \in Bucket, RowIn(r, W)
  PROVE  RowIn(r, X)
<1>1. /\ W.lives \in Nat /\ Len(W.hists) \in Nat /\ Len(W.lists) \in Nat
      /\ X.lives \in Nat /\ Len(X.hists) \in Nat /\ Len(X.lists) \in Nat
      /\ r.life \in Nat /\ r.history \in Nat /\ r.list \in Nat
      /\ W.bucket.life \in Nat /\ X.bucket.life \in Nat
  BY WorldTypes, RowTypes
<1>2. /\ r.history <= Len(X.hists) /\ r.list <= Len(X.lists) /\ r.life <= X.lives
  BY <1>1 DEF RowIn, Advances, Grows
<1>3. X.bucket.exists /\ r.life = X.bucket.life /\ ~X.crossed => r.act = X.bucket.act
  <2> SUFFICES ASSUME X.bucket.exists, r.life = X.bucket.life, ~X.crossed PROVE r.act = X.bucket.act
    OBVIOUS
  <2>1. X.bucket.life <= W.lives
    BY DEF RowIn
  <2>2. W.bucket.exists /\ r.life = W.bucket.life /\ ~W.crossed /\ X.bucket.act = W.bucket.act
    BY <1>1, <2>1 DEF Advances
  <2>3. QED
    BY <2>2 DEF RowIn
<1>4. QED
  BY <1>2, <1>3 DEF RowIn

LEMMA PieceAdvances ==
  ASSUME NEW W \in Worlds, NEW X \in Worlds, Advances(W, X), NEW p \in Piece, PieceIn(p, W)
  PROVE  PieceIn(p, X)
<1>1. W.lives \in Nat /\ X.lives \in Nat /\ W.bucket.life \in Nat /\ X.bucket.life \in Nat
  BY WorldTypes, RowTypes
<1>2. p.life \in Nat
  BY AccessAssumption DEF Piece
<1>3. p.life <= X.lives
  BY <1>1, <1>2 DEF PieceIn, Advances
<1>4. ASSUME X.bucket.exists, p.life = X.bucket.life, ~X.crossed
      PROVE  W.bucket.exists /\ p.life = W.bucket.life /\ ~W.crossed /\ X.bucket.act = W.bucket.act
  <2>1. X.bucket.life <= W.lives
    BY <1>4 DEF PieceIn
  <2>2. QED
    BY <1>1, <1>4, <2>1 DEF Advances
<1>5. QED
  BY <1>3, <1>4 DEF PieceIn

LEMMA RequestAdvances ==
  ASSUME NEW W \in Worlds, NEW X \in Worlds, Advances(W, X), NEW r \in Request, RequestIn(r, W)
  PROVE  RequestIn(r, X)
<1>1. /\ r.b \in Bucket /\ r.src \in Bucket /\ r.pieces \subseteq Piece /\ r.seen \in Nat
      /\ r.hist \in Nat /\ r.list \in Nat /\ r.b.list \in Nat /\ r.b.list <= Len(W.lists)
  BY AccessAssumption DEF Request, Bucket, RequestIn, RowIn
<1>2. RowIn(r.b, X) /\ RowIn(r.src, X) /\ \A p \in r.pieces : PieceIn(p, X)
  BY <1>1, RowAdvances, PieceAdvances DEF RequestIn
<1>a. W.lives \in Nat /\ X.lives \in Nat /\ W.bucket.life \in Nat /\ X.bucket.life \in Nat
  BY WorldTypes, RowTypes
<1>3. LetIn(r, X)
  BY <1>1, <1>a DEF RequestIn, LetIn, Advances
<1>4. /\ \A i \in 1..Len(W.hists) : X.hists[i] = W.hists[i]
      /\ \A i \in 1..Len(W.lists) : X.lists[i] = W.lists[i]
      /\ Len(W.hists) \in Nat /\ Len(W.lists) \in Nat /\ Len(X.hists) \in Nat /\ Len(X.lists) \in Nat
      /\ Len(W.hists) <= Len(X.hists) /\ Len(W.lists) <= Len(X.lists)
  BY DEF Worlds, Advances, Grows
<1>5. MembersIn(r.b.list, X) = MembersIn(r.b.list, W)
  BY <1>1, <1>4 DEF MembersIn
<1>6. BeeDid(r, X)
  <2>1. BeeDid(r, W) /\ (r.list # 0 => r.list \in 1..Len(W.lists)) /\ (r.hist # 0 => r.hist \in 1..Len(W.hists))
    BY <1>1, <1>4 DEF RequestIn, BeeDid
  <2>2. r.hist <= Len(X.hists) /\ r.list <= Len(X.lists)
    BY <1>1, <1>4, <2>1 DEF BeeDid
  <2>3. /\ r.hist # 0 => X.hists[r.hist] = W.hists[r.hist]
        /\ r.list # 0 => X.lists[r.list] = W.lists[r.list]
    BY <1>4, <2>1
  <2>4. QED
    BY <1>5, <2>1, <2>2, <2>3 DEF BeeDid
<1>7. QED
  BY <1>2, <1>3, <1>6 DEF RequestIn

\* A step of one thread that leaves what it advances in order leaves everything in order.
LEMMA Advanced ==
  ASSUME AccessInv, Types', Advances(World, World'), NEW t \in Threads,
         \A u \in Threads : u # t => req'[u] = req[u],
         RequestIn(req[t], World)', RowIn(bucket, World)',
         ~bucket'.exists => \A k \in Objects : objects'[k] = {},
         \A k \in Objects : \A p \in objects'[k] : p \in objects[k] \/ p \in req[t].pieces,
         \A p \in upload'.parts : p \in upload.parts \/ p \in req[t].pieces,
         GrantsIn(World, granted)'
  PROVE  AccessInv'
<1>1. World \in Worlds /\ World' \in Worlds
  BY DEF AccessInv, Types
<1>2. \A p \in req[t].pieces : PieceIn(p, World')
  BY <1>1, PieceAdvances DEF AccessInv, Types, Request, RequestIn
<1>3. \A k \in Objects : \A p \in objects'[k] : PieceIn(p, World')
  BY <1>1, <1>2, PieceAdvances DEF AccessInv, Types
<1>4. \A p \in upload'.parts : PieceIn(p, World')
  BY <1>1, <1>2, PieceAdvances DEF AccessInv, Types
<1>5. \A u \in Threads : RequestIn(req'[u], World')
  BY <1>1, RequestAdvances DEF AccessInv, Types
<1>6. QED
  BY <1>3, <1>4, <1>5 DEF AccessInv

\* What every action below starts from.
LEMMA Known ==
  ASSUME AccessInv, NEW t \in Threads
  PROVE  /\ World \in Worlds /\ req \in [Threads -> Request] /\ req[t] \in Request
         /\ RowIn(bucket, World) /\ RequestIn(req[t], World) /\ bucket \in Bucket
         /\ World.bucket = bucket /\ World.hists = hists /\ World.lists = lists
         /\ World.lives = lives /\ World.crossed = crossed
         /\ hists \in Seq(SUBSET Keys) /\ lists \in Seq(SUBSET Keys)
BY DEF AccessInv, Types, World, Worlds

\* Actions that only take a request further.
LEMMA OnlyRequest ==
  ASSUME AccessInv, NEW t \in Threads, NEW r \in Request, RequestIn(r, World), Goes(t, r),
         UNCHANGED <<bucket, objects, upload, lists, hists, lives, granted, crossed>>
  PROVE  AccessInv'
<1>1. World' = World
  BY DEF World
<1>2. req \in [Threads -> Request] /\ req' = [req EXCEPT ![t] = r] /\ World \in Worlds
  BY Known DEF Goes
<1>3. req' \in [Threads -> Request] /\ req'[t] = r /\ \A u \in Threads : u # t => req'[u] = req[u]
  BY <1>2
<1>4. Types'
  BY <1>1, <1>3 DEF AccessInv, Types
<1>5. \A u \in Threads : RequestIn(req'[u], World')
  BY <1>1, <1>3 DEF AccessInv
<1>6. QED
  BY <1>1, <1>4, <1>5 DEF AccessInv

LEMMA IdleOK ==
  ASSUME AccessInv
  PROVE  Idle \in Request /\ RequestIn(Idle, World) /\ Idle.pc = "idle"
<1>1. NoBucket \in Bucket /\ RowIn(NoBucket, World)
  <2>1. /\ NoBucket.life = 0 /\ NoBucket.history = 0 /\ NoBucket.list = 0
        /\ NoBucket.exists = FALSE /\ NoBucket.act = FALSE /\ NoBucket \in Bucket
    BY AccessAssumption DEF NoBucket, Bucket
  <2>2. /\ Len(World.hists) \in Nat /\ Len(World.lists) \in Nat /\ World.lives \in Nat
        /\ World.bucket.exists => World.bucket.life # 0
    BY WorldTypes DEF AccessInv, Types, RowIn, World
  <2>3. QED
    BY <2>1, <2>2 DEF RowIn
<1>2. Idle \in Request
  BY <1>1, AccessAssumption DEF Idle, Request, Pcs, Ops
<1>3. /\ Idle.pc = "idle" /\ Idle.b = NoBucket /\ Idle.src = NoBucket /\ Idle.pieces = {}
      /\ Idle.seen = 0 /\ Idle.hist = 0 /\ Idle.list = 0
  BY DEF Idle
<1>4. /\ Len(World.hists) \in Nat /\ Len(World.lists) \in Nat /\ World.lives \in Nat
      /\ World.bucket.exists => World.bucket.life # 0
  BY WorldTypes DEF AccessInv, Types, RowIn, World
<1>5. RequestIn(Idle, World)
  BY <1>1, <1>3, <1>4 DEF RequestIn, LetIn, BeeDid
<1>6. QED
  BY <1>2, <1>3, <1>5

\* A request stays one when a handler moves it on and keeps what it has read or what Bee returned.
LEMMA RequestTypes ==
  ASSUME NEW q \in Request, NEW pc \in Pcs
  PROVE  /\ [q EXCEPT !.pc = pc] \in Request
         /\ \A b \in Bucket : [q EXCEPT !.pc = pc, !.b = b] \in Request
         /\ \A b \in Bucket : [q EXCEPT !.pc = pc, !.src = b] \in Request
         /\ \A ps \in SUBSET Piece : [q EXCEPT !.pc = pc, !.pieces = ps] \in Request
         /\ \A h \in 0..MaxHistories : [q EXCEPT !.pc = pc, !.hist = h] \in Request
<1>1. [q EXCEPT !.pc = pc] \in Request
  BY DEF Request
<1>2. ASSUME NEW b \in Bucket PROVE [q EXCEPT !.pc = pc, !.b = b] \in Request
  BY DEF Request
<1>3. ASSUME NEW b \in Bucket PROVE [q EXCEPT !.pc = pc, !.src = b] \in Request
  BY DEF Request
<1>4. ASSUME NEW ps \in SUBSET Piece PROVE [q EXCEPT !.pc = pc, !.pieces = ps] \in Request
  BY DEF Request
<1>5. ASSUME NEW h \in 0..MaxHistories PROVE [q EXCEPT !.pc = pc, !.hist = h] \in Request
  BY DEF Request
<1>6. QED
  BY <1>1, <1>2, <1>3, <1>4, <1>5

LEMMA DispatchStep == ASSUME AccessInv, NEW t \in Threads, Dispatch(t) PROVE AccessInv'
<1>1. PICK op \in Ops, who \in Tenants \cup {Root} :
        \E add \in SUBSET Keys, revoke \in SUBSET Keys, pc \in First(op) :
          Goes(t, [Idle EXCEPT !.pc = pc, !.op = op, !.who = who, !.add = add, !.revoke = revoke,
                               !.seen = IF op # "create" /\ authorizeBucket(who) THEN bucket.life ELSE 0])
  BY ZenonT(40) DEF Dispatch
<1>2. PICK add \in SUBSET Keys, revoke \in SUBSET Keys, pc \in First(op) :
        Goes(t, [Idle EXCEPT !.pc = pc, !.op = op, !.who = who, !.add = add, !.revoke = revoke,
                             !.seen = IF op # "create" /\ authorizeBucket(who) THEN bucket.life ELSE 0])
  BY <1>1
<1> DEFINE seen == IF op # "create" /\ authorizeBucket(who) THEN bucket.life ELSE 0
           r == [Idle EXCEPT !.pc = pc, !.op = op, !.who = who, !.add = add, !.revoke = revoke, !.seen = seen]
<1>3. pc \in {"mint", "insert", "load", "source", "delete", "remove", "initiate"}
  BY <1>1 DEF First, Ops
<1>4. /\ pc = "load" => op \in {"put", "part", "copy", "partCopy", "complete", "grant"}
      /\ pc = "source" => op \in {"copy", "partCopy"}
  BY <1>1 DEF First, Ops
<1>5. /\ bucket.life \in 0..MaxLives /\ bucket.life <= lives /\ lives \in Nat /\ bucket.life \in Nat
      /\ World.bucket = bucket /\ World.lives = lives /\ (bucket.exists => bucket.life # 0)
  BY Known, RowTypes, WorldTypes DEF RowIn, Bucket
<1>6. seen \in 0..MaxLives /\ seen <= lives /\ (bucket.exists /\ seen = bucket.life => who \in {Root, bucket.owner})
  BY <1>5, AccessAssumption DEF authorizeBucket
<1> HIDE DEF seen
<1>7. r \in Request
  BY <1>1, <1>2, <1>3, <1>6, IdleOK DEF Request, Pcs
<1>8. /\ r.pc = pc /\ r.op = op /\ r.who = who /\ r.seen = seen /\ r.b = Idle.b /\ r.src = Idle.src
      /\ r.pieces = Idle.pieces /\ r.hist = Idle.hist /\ r.list = Idle.list
  BY IdleOK DEF Request
<1>9. Goes(t, r)
  BY <1>2 DEF seen
<1> HIDE DEF r
<1>10. Idle.hist = 0 /\ Idle.list = 0
  BY DEF Idle
<1>11. RequestIn(r, World)
  BY <1>3, <1>4, <1>5, <1>6, <1>8, <1>10, IdleOK DEF RequestIn, LetIn, BeeDid
<1>12. QED
  BY <1>7, <1>9, <1>11, OnlyRequest DEF Dispatch

LEMMA FailsStep == ASSUME AccessInv, NEW t \in Threads, Fails(t) PROVE AccessInv'
BY IdleOK, OnlyRequest DEF Fails, Ends

\* A request that goes on with what it has found.
LEMMA RequestMoves ==
  ASSUME NEW W \in Worlds, NEW r \in Request, NEW q \in Request, RequestIn(r, W),
         q.who = r.who /\ q.seen = r.seen /\ q.hist = r.hist /\ q.list = r.list,
         q.b = r.b \/ RowIn(q.b, W), q.src = r.src \/ RowIn(q.src, W),
         q.pieces = r.pieces \/ \A p \in q.pieces : PieceIn(p, W),
         q.pc \notin {"insert", "track", "record"},
         q.pc = "upload" => q.b.exists, q.pc = "bee" => q.b.act,
         q.pc = "load" => q.op \in {"put", "part", "copy", "partCopy", "complete", "grant"},
         q.pc \in {"source", "object"} => q.op \in {"copy", "partCopy"}
  PROVE  RequestIn(q, W)
BY DEF RequestIn, LetIn, BeeDid

LEMMA GetBucketStep == ASSUME AccessInv, NEW t \in Threads, GetBucket(t) PROVE AccessInv'
<1>1. /\ req[t].op \in {"put", "part", "copy", "partCopy", "complete", "grant"} /\ bucket.exists
      /\ req[t].op = "grant" => bucket.act
  BY Known DEF GetBucket, At, RequestIn
<1>2. PICK pc \in {"upload", "source", "store", "parts", "bee"} :
        /\ pc = "source" => req[t].op = "copy"
        /\ pc = "bee" => req[t].op = "grant"
        /\ Goes(t, [req[t] EXCEPT !.pc = pc, !.b = bucket])
  BY <1>1 DEF GetBucket
<1> DEFINE r == [req[t] EXCEPT !.pc = pc, !.b = bucket]
<1>3. r \in Request
  <2>1. pc \in Pcs
    BY <1>2 DEF Pcs
  <2>2. QED
    BY <2>1, Known, RequestTypes
<1>4. /\ r.pc = pc /\ r.b = bucket /\ r.op = req[t].op /\ r.who = req[t].who /\ r.seen = req[t].seen
      /\ r.src = req[t].src /\ r.pieces = req[t].pieces /\ r.hist = req[t].hist /\ r.list = req[t].list
  BY Known DEF Request
<1>5. Goes(t, r)
  BY <1>2
<1> HIDE DEF r
<1>6. RequestIn(r, World)
  BY <1>1, <1>2, <1>3, <1>4, Known, RequestMoves
<1>7. QED
  BY <1>3, <1>5, <1>6, OnlyRequest DEF GetBucket

LEMMA GetSourceBucketStep == ASSUME AccessInv, NEW t \in Threads, GetSourceBucket(t) PROVE AccessInv'
<1> DEFINE r == [req[t] EXCEPT !.pc = "object", !.src = bucket]
<1>1. r \in Request
  <2>1. "object" \in Pcs
    BY DEF Pcs
  <2>2. QED
    BY <2>1, Known, RequestTypes
<1>2. /\ r.pc = "object" /\ r.src = bucket /\ r.op = req[t].op /\ r.who = req[t].who /\ r.seen = req[t].seen
      /\ r.b = req[t].b /\ r.pieces = req[t].pieces /\ r.hist = req[t].hist /\ r.list = req[t].list
  BY Known DEF Request
<1>3. Goes(t, r) /\ req[t].pc = "source"
  BY DEF GetSourceBucket, At
<1> HIDE DEF r
<1>4. r.op \in {"copy", "partCopy"}
  BY <1>2, <1>3, Known DEF RequestIn
<1>5. RequestIn(r, World)
  BY <1>1, <1>2, <1>4, Known, RequestMoves
<1>6. QED
  BY <1>1, <1>3, <1>5, OnlyRequest DEF GetSourceBucket

\* A copied reference keeps what it was written under, and the copy's row says so.
LEMMA CopiesIn ==
  ASSUME AccessInv, NEW t \in Threads, NEW p \in Piece, PieceIn(p, World)
  PROVE  /\ LET c == [p EXCEPT !.recorded = IF req[t].b.act /\ ~p.part /\ @ = 0 THEN req[t].src.history ELSE @]
            IN  c \in Piece /\ PieceIn(c, World)
         /\ LET c == [p EXCEPT !.part = TRUE, !.life = IF @ = req[t].src.life THEN @ ELSE 0,
                               !.recorded = IF req[t].src.act THEN actHistoryFor(@, req[t].src) ELSE 0]
            IN  c \in Piece /\ PieceIn(c, World)
<1>1. /\ req[t].src \in Bucket /\ RowIn(req[t].src, World) /\ req[t].src.history \in 0..MaxHistories
      /\ req[t].src.act \in BOOLEAN /\ req[t].b.act \in BOOLEAN
      /\ p.recorded \in 0..MaxHistories /\ p.life \in 0..MaxLives /\ p.part \in BOOLEAN
  BY Known DEF RequestIn, Request, Bucket, Piece
<1>2. World.lives \in Nat /\ World.bucket.act \in BOOLEAN /\ (World.bucket.exists => World.bucket.life # 0)
  BY Known, WorldTypes, RowTypes DEF RowIn
<1>3. 0 \in 0..MaxHistories /\ 0 \in 0..MaxLives
  BY AccessAssumption
<1> DEFINE h == IF req[t].b.act /\ ~p.part /\ p.recorded = 0 THEN req[t].src.history ELSE p.recorded
           c == [p EXCEPT !.recorded = h]
           l == IF p.life = req[t].src.life THEN p.life ELSE 0
           g == IF req[t].src.act THEN actHistoryFor(p.recorded, req[t].src) ELSE 0
           d == [p EXCEPT !.part = TRUE, !.life = l, !.recorded = g]
<1>4. h \in 0..MaxHistories /\ (p.recorded # 0 => h = p.recorded)
  BY <1>1
<1>5. g \in 0..MaxHistories /\ (p.recorded # 0 /\ req[t].src.act => g = p.recorded)
  BY <1>1, <1>3 DEF actHistoryFor
<1>6. l \in 0..MaxLives /\ (l # 0 => l = p.life /\ l = req[t].src.life)
  BY <1>1, <1>3
<1>7. c = [p EXCEPT !.recorded = IF req[t].b.act /\ ~p.part /\ @ = 0 THEN req[t].src.history ELSE @]
  BY DEF Piece
<1>8. d = [p EXCEPT !.part = TRUE, !.life = IF @ = req[t].src.life THEN @ ELSE 0,
                    !.recorded = IF req[t].src.act THEN actHistoryFor(@, req[t].src) ELSE 0]
  BY DEF Piece
<1> HIDE DEF h, l, g
<1>9. c \in Piece /\ c.recorded = h /\ c.under = p.under /\ c.life = p.life
  BY <1>4 DEF Piece
<1>10. d \in Piece /\ d.recorded = g /\ d.under = p.under /\ d.life = l
  BY <1>5, <1>6 DEF Piece
<1> HIDE DEF c, d
<1>11. PieceIn(c, World)
  BY <1>4, <1>9 DEF PieceIn
<1>12. PieceIn(d, World)
  <2>1. d.life <= World.lives
    BY <1>1, <1>2, <1>6, <1>10 DEF PieceIn
  <2>2. ASSUME World.bucket.exists, d.life = World.bucket.life, ~World.crossed
        PROVE  IF World.bucket.act THEN d.under # 0 /\ d.recorded = d.under ELSE d.under = 0
    <3>1. p.life = World.bucket.life /\ req[t].src.life = World.bucket.life
      BY <1>2, <1>6, <1>10, <2>2
    <3>2. req[t].src.act = World.bucket.act
      BY <1>1, <2>2, <3>1 DEF RowIn
    <3>3. IF World.bucket.act THEN p.under # 0 /\ p.recorded = p.under ELSE p.under = 0
      BY <2>2, <3>1 DEF PieceIn
    <3>4. QED
      BY <1>5, <1>10, <3>2, <3>3
  <2>3. QED
    BY <2>1, <2>2 DEF PieceIn
<1>13. QED
  BY <1>7, <1>8, <1>9, <1>10, <1>11, <1>12

\* A request that gets its pieces.
LEMMA WithPieces ==
  ASSUME AccessInv, NEW t \in Threads,
         NEW pc \in {"store", "load"}, NEW ps \in SUBSET Piece, \A p \in ps : PieceIn(p, World),
         pc = "load" => req[t].op = "partCopy", Goes(t, [req[t] EXCEPT !.pc = pc, !.pieces = ps]),
         UNCHANGED <<bucket, objects, upload, lists, hists, lives, granted, crossed>>
  PROVE  AccessInv'
<1> DEFINE r == [req[t] EXCEPT !.pc = pc, !.pieces = ps]
<1>1. r \in Request
  <2>1. pc \in Pcs
    BY DEF Pcs
  <2>2. QED
    BY <2>1, Known, RequestTypes
<1>2. /\ r.pc = pc /\ r.pieces = ps /\ r.op = req[t].op /\ r.who = req[t].who /\ r.seen = req[t].seen
      /\ r.b = req[t].b /\ r.src = req[t].src /\ r.hist = req[t].hist /\ r.list = req[t].list
  BY Known DEF Request
<1>3. Goes(t, r)
  OBVIOUS
<1> HIDE DEF r
<1>4. RequestIn(r, World)
  BY <1>1, <1>2, Known, RequestMoves
<1>5. QED
  BY <1>1, <1>3, <1>4, OnlyRequest

LEMMA GetSourceObjectStep == ASSUME AccessInv, NEW t \in Threads, GetSourceObject(t) PROVE AccessInv'
<1> DEFINE c(p) == [p EXCEPT !.recorded = IF req[t].b.act /\ ~p.part /\ @ = 0 THEN req[t].src.history ELSE @]
           d(p) == [p EXCEPT !.part = TRUE, !.life = IF @ = req[t].src.life THEN @ ELSE 0,
                             !.recorded = IF req[t].src.act THEN actHistoryFor(@, req[t].src) ELSE 0]
<1>1. PICK k \in Objects :
        \/ req[t].op = "copy" /\ Goes(t, [req[t] EXCEPT !.pc = "store", !.pieces = {c(p) : p \in objects[k]}])
        \/ req[t].op # "copy" /\ Goes(t, [req[t] EXCEPT !.pc = "load", !.pieces = {d(p) : p \in objects[k]}])
  BY DEF GetSourceObject
<1>2. \A p \in objects[k] : p \in Piece /\ PieceIn(p, World)
  BY <1>1 DEF AccessInv, Types
<1>3. \A p \in objects[k] : c(p) \in Piece /\ PieceIn(c(p), World) /\ d(p) \in Piece /\ PieceIn(d(p), World)
  BY <1>2, CopiesIn
<1> HIDE DEF c, d
<1>4. UNCHANGED <<bucket, objects, upload, lists, hists, lives, granted, crossed>>
  BY DEF GetSourceObject
<1>5. req[t].op \in {"copy", "partCopy"}
  BY Known DEF GetSourceObject, At, RequestIn
<1>6. CASE req[t].op = "copy"
  <2> DEFINE ps == {c(p) : p \in objects[k]}
  <2>1. ps \in SUBSET Piece /\ \A p \in ps : PieceIn(p, World)
    BY <1>3
  <2>2. Goes(t, [req[t] EXCEPT !.pc = "store", !.pieces = ps])
    BY <1>1, <1>6
  <2> HIDE DEF ps
  <2>3. QED
    BY <1>4, <2>1, <2>2, WithPieces
<1>7. CASE req[t].op = "partCopy"
  <2> DEFINE ps == {d(p) : p \in objects[k]}
  <2>1. ps \in SUBSET Piece /\ \A p \in ps : PieceIn(p, World)
    BY <1>3
  <2>2. Goes(t, [req[t] EXCEPT !.pc = "load", !.pieces = ps])
    BY <1>1, <1>7
  <2> HIDE DEF ps
  <2>3. QED
    BY <1>4, <1>7, <2>1, <2>2, WithPieces
<1>8. QED
  BY <1>5, <1>6, <1>7

LEMMA ListPartsStep == ASSUME AccessInv, NEW t \in Threads, ListParts(t) PROVE AccessInv'
<1>1. PICK chosen \in SUBSET upload.parts : Goes(t, [req[t] EXCEPT !.pc = "store", !.pieces = chosen])
  BY DEF ListParts
<1>2. chosen \in SUBSET Piece /\ \A p \in chosen : PieceIn(p, World)
  BY <1>1 DEF AccessInv, Types
<1>3. QED
  BY <1>1, <1>2, WithPieces DEF ListParts

\* A request that Bee has done something for.
LEMMA RequestServed ==
  ASSUME NEW W \in Worlds, NEW r \in Request, NEW q \in Request, RequestIn(r, W),
         q.who = r.who /\ q.seen = r.seen /\ q.b = r.b /\ q.src = r.src,
         q.pieces = r.pieces \/ \A p \in q.pieces : PieceIn(p, W),
         BeeDid(q, W), q.pc \in {"insert", "store", "track", "record"},
         q.pc \in {"track", "record"} => q.b.act
  PROVE  RequestIn(q, W)
BY DEF RequestIn, LetIn

\* Bee appends.
LEMMA Appended ==
  ASSUME NEW S, NEW s \in Seq(S), NEW x \in S
  PROVE  /\ Append(s, x) \in Seq(S) /\ Len(Append(s, x)) = Len(s) + 1 /\ Append(s, x)[Len(s) + 1] = x
         /\ Grows(s, Append(s, x)) /\ Grows(s, s) /\ Len(s) \in Nat
BY DEF Grows

\* Actions in which Bee starts a history, and perhaps makes a list.
LEMMA BeeGrows ==
  ASSUME AccessInv, NEW t \in Threads, NEW r \in Request, Goes(t, r),
         RequestIn(req[t], World') => RequestIn(r, World'),
         NEW h \in SUBSET Keys, hists' = Append(hists, h), Len(hists) < MaxHistories,
         lists' = lists \/ (lists' = Append(lists, h) /\ Len(lists) < MaxHistories),
         UNCHANGED <<bucket, objects, upload, lives, granted, crossed>>
  PROVE  AccessInv'
<1>1. req' \in [Threads -> Request] /\ req'[t] = r /\ \A u \in Threads : u # t => req'[u] = req[u]
  BY Known DEF Goes
<1>2. /\ World' = [bucket |-> bucket, crossed |-> crossed, lives |-> lives, hists |-> hists', lists |-> lists']
      /\ World'.bucket = bucket /\ World'.hists = hists' /\ World'.lists = lists'
      /\ World'.lives = lives /\ World'.crossed = crossed
  BY DEF World
<1>3. /\ hists' \in Seq(SUBSET Keys) /\ lists' \in Seq(SUBSET Keys)
      /\ Len(hists') <= MaxHistories /\ Len(lists') <= MaxHistories
      /\ Grows(hists, hists') /\ Grows(lists, lists')
  <2>1. /\ hists \in Seq(SUBSET Keys) /\ lists \in Seq(SUBSET Keys) /\ MaxHistories \in Nat
        /\ Len(hists) <= MaxHistories /\ Len(lists) <= MaxHistories
    BY Known, AccessAssumption DEF AccessInv, Types
  <2>2. \A s \in Seq(SUBSET Keys) :
           /\ Append(s, h) \in Seq(SUBSET Keys) /\ Len(Append(s, h)) = Len(s) + 1 /\ Grows(s, Append(s, h))
           /\ Grows(s, s) /\ Len(s) \in Nat
    BY Appended
  <2>3. Len(hists') = Len(hists) + 1 /\ hists' \in Seq(SUBSET Keys) /\ Grows(hists, hists') /\ Len(hists) \in Nat
    BY <2>1, <2>2
  <2>4. CASE lists' = lists
    BY <2>1, <2>2, <2>3, <2>4
  <2>5. CASE lists' = Append(lists, h) /\ Len(lists) < MaxHistories
    <3>1. Len(lists') = Len(lists) + 1 /\ lists' \in Seq(SUBSET Keys) /\ Grows(lists, lists') /\ Len(lists) \in Nat
      BY <2>1, <2>2, <2>5
    <3>2. QED
      BY <2>1, <2>3, <2>5, <3>1
  <2>6. QED
    BY <2>4, <2>5
<1>4. World' \in Worlds
  BY <1>2, <1>3, Known DEF Worlds
<1>5. Types'
  BY <1>1, <1>3, <1>4 DEF AccessInv, Types
<1>6. Advances(World, World')
  BY <1>2, <1>3, Known, WorldTypes DEF Advances
<1>7. RequestIn(req[t], World)'
  BY <1>1, <1>4, <1>6, Known, RequestAdvances
<1>8. RowIn(bucket, World)'
  BY <1>4, <1>6, Known, RowAdvances
<1>9. GrantsIn(World, granted)'
  <2>1. /\ bucket.act => bucket.history \in 1..Len(hists)
        /\ bucket.list # 0 => bucket.list \in 1..Len(lists)
    BY Known, RowTypes, WorldTypes DEF RowIn
  <2>2. GrantsIn(World, granted)
    BY DEF AccessInv
  <2>3. /\ bucket.act => hists'[bucket.history] = hists[bucket.history]
        /\ bucket.list # 0 => lists'[bucket.list] = lists[bucket.list]
    BY <1>3, <2>1 DEF Grows
  <2>4. QED
    BY <1>2, <2>2, <2>3, Known DEF GrantsIn, MembersIn
<1>10. QED
  BY <1>1, <1>5, <1>6, <1>7, <1>8, <1>9, Advanced DEF AccessInv

LEMMA HistoryStep == ASSUME AccessInv, NEW t \in Threads, createActHistory(t) PROVE AccessInv'
<1> DEFINE h == Len(hists) + 1
           r == [req[t] EXCEPT !.pc = "insert", !.hist = h]
<1>1. /\ Goes(t, r) /\ hists' = Append(hists, {}) /\ Len(hists) < MaxHistories
      /\ UNCHANGED <<bucket, objects, upload, lists, lives, granted, crossed>>
  BY DEF createActHistory
<1>2. h # 0 /\ h = Len(hists') /\ hists'[h] = {} /\ h \in Nat /\ h <= MaxHistories
  BY <1>1, Known, Appended, AccessAssumption
<1>3. r \in Request
  <2>1. h \in 0..MaxHistories
    BY <1>2, AccessAssumption
  <2> HIDE DEF h
  <2>2. "insert" \in Pcs
    BY DEF Pcs
  <2>3. QED
    BY <2>1, <2>2, Known, RequestTypes
<1> HIDE DEF h
<1>4. /\ r.pc = "insert" /\ r.hist = h /\ r.pieces = req[t].pieces /\ r.who = req[t].who /\ r.seen = req[t].seen
      /\ r.b = req[t].b /\ r.src = req[t].src /\ r.list = req[t].list
  BY Known DEF Request
<1> HIDE DEF r
<1>5. World'.hists = hists' /\ World'.lists = lists'
  BY DEF World
<1>6. req[t].list <= Len(lists)
  BY Known DEF RequestIn, BeeDid
<1>8. BeeDid(r, World')
  BY <1>1, <1>2, <1>4, <1>5, <1>6 DEF BeeDid
<1>9. World' \in Worlds
  BY <1>1, Known DEF World, Worlds
<1>10. RequestIn(req[t], World') => RequestIn(r, World')
  BY <1>3, <1>4, <1>8, <1>9, Known, RequestServed
<1>11. {} \in SUBSET Keys /\ lists' = lists
  BY <1>1
<1>12. QED
  BY <1>1, <1>3, <1>10, <1>11, BeeGrows

\* What a request uploads is as protected as the row it loaded.
LEMMA UploadedIn ==
  ASSUME AccessInv, NEW t \in Threads, req[t].pc = "upload", NEW h \in 0..MaxHistories,
         h = req[t].b.history \/ (h # 0 /\ req[t].b.act),
         NEW W \in Worlds, RowIn(req[t].b, W)
  PROVE  PieceUnder(t, h) \in Piece /\ PieceIn(PieceUnder(t, h), W)
<1>1. /\ PieceUnder(t, h).under = h /\ PieceUnder(t, h).recorded = h /\ PieceUnder(t, h).life = req[t].b.life
      /\ PieceUnder(t, h).part = (req[t].op # "put")
  BY DEF PieceUnder
<1>2. req[t].b \in Bucket /\ req[t].b.life \in 0..MaxLives
  BY Known DEF Request, Bucket
<1>3. PieceUnder(t, h) \in Piece
  BY <1>2 DEF PieceUnder, Piece
<1>4. req[t].b.act <=> h # 0
  BY DEF RowIn
<1>5. PieceIn(PieceUnder(t, h), W)
  BY <1>1, <1>4 DEF PieceIn, RowIn
<1>6. QED
  BY <1>3, <1>5

\* The record of a request that Bee has done something for.
LEMMA ServedType ==
  ASSUME NEW q \in Request, NEW pc \in Pcs, NEW h \in 0..MaxHistories, NEW l \in 0..MaxHistories,
         NEW ps \in SUBSET Piece
  PROVE  /\ [q EXCEPT !.pc = pc, !.list = l, !.hist = h] \in Request
         /\ [q EXCEPT !.pc = pc, !.hist = h, !.pieces = ps] \in Request
BY DEF Request

LEMMA UploadStep == ASSUME AccessInv, NEW t \in Threads, UploadBytes(t) PROVE AccessInv'
<1>0. /\ req[t].pc = "upload" /\ RowIn(req[t].b, World) /\ req[t].b.history \in 0..MaxHistories
      /\ UNCHANGED <<bucket, objects, upload, lists, lives, granted, crossed>>
  BY Known DEF UploadBytes, At, RequestIn, Request, Bucket
<1>1. CASE /\ Goes(t, [req[t] EXCEPT !.pc = "store", !.pieces = {PieceUnder(t, req[t].b.history)}])
           /\ UNCHANGED hists
  <2> DEFINE ps == {PieceUnder(t, req[t].b.history)}
  <2>1. ps \in SUBSET Piece /\ \A p \in ps : PieceIn(p, World)
    BY <1>0, Known, UploadedIn
  <2>2. Goes(t, [req[t] EXCEPT !.pc = "store", !.pieces = ps])
    BY <1>1
  <2> HIDE DEF ps
  <2>3. QED
    BY <1>0, <1>1, <2>1, <2>2, WithPieces
<1>2. CASE /\ req[t].b.act /\ Len(hists) < MaxHistories /\ hists' = Append(hists, {})
           /\ Goes(t, [req[t] EXCEPT !.pc = IF req[t].op = "partCopy" THEN "store" ELSE "track",
                                     !.hist = Len(hists) + 1, !.pieces = {PieceUnder(t, Len(hists) + 1)}])
  <2> DEFINE h == Len(hists) + 1
             ps == {PieceUnder(t, h)}
             pc == IF req[t].op = "partCopy" THEN "store" ELSE "track"
             r == [req[t] EXCEPT !.pc = pc, !.hist = h, !.pieces = ps]
  <2>1. Goes(t, r)
    BY <1>2
  <2>2. h # 0 /\ h = Len(hists') /\ hists'[h] = {} /\ h \in Nat /\ h <= MaxHistories
    BY <1>2, Known, Appended, AccessAssumption
  <2>3. h \in 0..MaxHistories
    BY <2>2, AccessAssumption
  <2> HIDE DEF h
  <2>4. PieceUnder(t, h) \in Piece /\ \A W \in Worlds : RowIn(req[t].b, W) => PieceIn(PieceUnder(t, h), W)
    <3>1. ASSUME NEW W \in Worlds, RowIn(req[t].b, W)
          PROVE  PieceUnder(t, h) \in Piece /\ PieceIn(PieceUnder(t, h), W)
      BY <1>0, <1>2, <2>2, <2>3, <3>1, UploadedIn
    <3>2. QED
      BY <1>0, <3>1, Known
  <2>5. ps \in SUBSET Piece /\ pc \in {"store", "track"}
    BY <2>4
  <2> HIDE DEF pc, ps
  <2>6. r \in Request
    <3>1. pc \in Pcs
      BY <2>5 DEF Pcs
    <3>2. QED
      BY <2>3, <2>5, <3>1, Known, ServedType
  <2>7. /\ r.pc = pc /\ r.hist = h /\ r.pieces = ps /\ r.who = req[t].who /\ r.seen = req[t].seen
        /\ r.b = req[t].b /\ r.src = req[t].src /\ r.list = req[t].list
    BY Known DEF Request
  <2> HIDE DEF r
  <2>8. World'.hists = hists' /\ World'.lists = lists /\ World' \in Worlds
    <3>1. hists' \in Seq(SUBSET Keys)
      BY <1>2, Known, Appended
    <3>2. QED
      BY <1>0, <3>1, Known DEF World, Worlds
  <2>9. BeeDid(r, World')
    BY <1>0, <2>2, <2>5, <2>7, <2>8, Known DEF BeeDid, RequestIn
  <2>10. RequestIn(req[t], World') => RequestIn(r, World')
    <3> HAVE RequestIn(req[t], World')
    <3>1. \A p \in ps : PieceIn(p, World')
      BY <2>4, <2>8 DEF RequestIn, ps
    <3>2. QED
      BY <1>2, <2>5, <2>6, <2>7, <2>8, <2>9, <3>1, Known, RequestServed
  <2>11. {} \in SUBSET Keys /\ lists' = lists
    BY <1>0
  <2>12. QED
    BY <1>0, <1>2, <2>1, <2>6, <2>10, <2>11, BeeGrows
<1>3. QED
  BY <1>1, <1>2 DEF UploadBytes

LEMMA BeeGrantsStep == ASSUME AccessInv, NEW t \in Threads, BeeGrants(t) PROVE AccessInv'
<1> DEFINE now == Amended(req[t].b.list, req[t].add, req[t].revoke)
           l == Len(lists) + 1
           h == Len(hists) + 1
           r == [req[t] EXCEPT !.pc = "record", !.list = l, !.hist = h]
<1>1. /\ req[t].pc = "bee" /\ Len(lists) < MaxHistories /\ Len(hists) < MaxHistories
      /\ lists' = Append(lists, now) /\ hists' = Append(hists, now) /\ Goes(t, r)
      /\ UNCHANGED <<bucket, objects, upload, lives, granted, crossed>>
  BY DEF BeeGrants, At
<1>2. req[t].b.list \in Nat /\ req[t].b.list <= Len(lists) /\ req[t].add \in SUBSET Keys /\ req[t].b.act
  BY <1>1, Known, RowTypes DEF Request, RequestIn, RowIn
<1>3. now = (Members(req[t].b.list) \cup req[t].add) \ req[t].revoke /\ now \in SUBSET Keys
  BY <1>2, Known DEF Amended, Members
<1> HIDE DEF now
<1>4. /\ h # 0 /\ h = Len(hists') /\ hists'[h] = now /\ h \in Nat /\ h <= MaxHistories
      /\ hists' \in Seq(SUBSET Keys)
  BY <1>1, <1>3, Known, Appended, AccessAssumption
<1>5. /\ l # 0 /\ l = Len(lists') /\ lists'[l] = now /\ l \in Nat /\ l <= MaxHistories
      /\ lists' \in Seq(SUBSET Keys) /\ Grows(lists, lists')
  BY <1>1, <1>3, Known, Appended, AccessAssumption
<1>6. r \in Request
  <2>1. h \in 0..MaxHistories /\ l \in 0..MaxHistories
    BY <1>4, <1>5, AccessAssumption
  <2> HIDE DEF h, l
  <2>2. "record" \in Pcs
    BY DEF Pcs
  <2>3. QED
    BY <2>1, <2>2, Known, ServedType
<1> HIDE DEF h, l
<1>7. /\ r.pc = "record" /\ r.hist = h /\ r.list = l /\ r.pieces = req[t].pieces /\ r.who = req[t].who
      /\ r.seen = req[t].seen /\ r.b = req[t].b /\ r.src = req[t].src
      /\ r.add = req[t].add /\ r.revoke = req[t].revoke
  BY Known DEF Request
<1> HIDE DEF r
<1>8. World'.hists = hists' /\ World'.lists = lists' /\ World' \in Worlds
  BY <1>1, <1>4, <1>5, Known DEF World, Worlds
<1>9. MembersIn(req[t].b.list, World') = Members(req[t].b.list)
  <2>1. Len(lists) \in Nat
    BY Known
  <2>2. QED
    BY <1>2, <1>5, <1>8, <2>1 DEF MembersIn, Members, Grows
<1>10. BeeDid(r, World')
  BY <1>3, <1>4, <1>5, <1>7, <1>8, <1>9 DEF BeeDid
<1>11. RequestIn(req[t], World') => RequestIn(r, World')
  BY <1>2, <1>6, <1>7, <1>8, <1>10, Known, RequestServed
<1>12. QED
  BY <1>1, <1>3, <1>6, <1>11, BeeGrows

\* A request further on in a world that has advanced.
LEMMA MovedOn ==
  ASSUME AccessInv, NEW t \in Threads, NEW r \in Request, Goes(t, r),
         RequestIn(req[t], World') => RequestIn(r, World'),
         World' \in Worlds, Advances(World, World'), UNCHANGED <<hists, lists>>, RowIn(bucket, World)',
         objects' \in [Objects -> SUBSET Piece], upload' \in [open : BOOLEAN, parts : SUBSET Piece],
         ~bucket'.exists => \A k \in Objects : objects'[k] = {},
         \A k \in Objects : \A p \in objects'[k] : p \in objects[k] \/ p \in req[t].pieces,
         \A p \in upload'.parts : p \in upload.parts \/ p \in req[t].pieces,
         GrantsIn(World, granted)', granted' \subseteq Keys
  PROVE  AccessInv'
<1>1. req' \in [Threads -> Request] /\ req'[t] = r /\ \A u \in Threads : u # t => req'[u] = req[u]
  BY Known DEF Goes
<1>2. Types'
  BY <1>1 DEF AccessInv, Types
<1>3. RequestIn(req[t], World)'
  BY <1>1, Known, RequestAdvances
<1>4. QED
  BY <1>1, <1>2, <1>3, Advanced

\* A row is replaced by one of a protected bucket, whose list is what is acknowledged.
LEMMA RowWritten ==
  ASSUME AccessInv, NEW t \in Threads, NEW history \in 1..Len(hists), NEW list \in 0..Len(lists), NEW grants,
         bucket.exists, req[t].b.act, UNCHANGED <<lists, hists, lives>>,
         bucket = req[t].b => grants = Members(list), hists[history] \subseteq Members(list),
         SetBucketACT(t, history, list, grants)
  PROVE  /\ World' \in Worlds /\ Advances(World, World') /\ RowIn(bucket, World)' /\ bucket'.exists
         /\ GrantsIn(World, granted)' /\ granted' \subseteq Keys
<1>1. /\ bucket \in Bucket /\ lives \in 0..MaxLives /\ crossed \in BOOLEAN
      /\ hists \in Seq(SUBSET Keys) /\ lists \in Seq(SUBSET Keys)
      /\ Len(hists) \in Nat /\ Len(lists) \in Nat /\ MaxHistories \in Nat
      /\ Len(hists) <= MaxHistories /\ Len(lists) <= MaxHistories
  BY AccessAssumption DEF AccessInv, Types, World, Worlds
<1>2. history \in 0..MaxHistories /\ list \in 0..MaxHistories /\ history # 0
  BY <1>1
<1>3. bucket' = [bucket EXCEPT !.act = TRUE, !.history = history, !.list = list]
  BY DEF SetBucketACT
<1>4. /\ bucket' \in Bucket /\ bucket'.act = TRUE /\ bucket'.history = history /\ bucket'.list = list
      /\ bucket'.exists = bucket.exists /\ bucket'.owner = bucket.owner /\ bucket'.life = bucket.life
  BY <1>1, <1>2, <1>3 DEF Bucket
<1>5. crossed' = (crossed \/ bucket.life # req[t].b.life) /\ crossed' \in BOOLEAN
  BY <1>1 DEF SetBucketACT
<1>6. /\ World'.bucket = bucket' /\ World'.hists = hists /\ World'.lists = lists
      /\ World'.lives = lives /\ World'.crossed = crossed'
  BY DEF World
<1>7. World' \in Worlds
  BY <1>1, <1>4, <1>5 DEF World, Worlds
<1>8. ASSUME ~crossed' PROVE ~crossed /\ bucket.act = TRUE
  <2>1. ~crossed /\ bucket.life = req[t].b.life
    BY <1>5, <1>8
  <2>2. RowIn(req[t].b, World) /\ World.bucket = bucket /\ World.crossed = crossed
    BY Known DEF RequestIn
  <2>3. req[t].b.act = bucket.act /\ bucket.act \in BOOLEAN
    BY <2>1, <2>2, Known, RowTypes DEF RowIn
  <2>4. QED
    BY <2>1, <2>3
<1>9. Advances(World, World')
  <2>1. Grows(hists, hists) /\ Grows(lists, lists) /\ lives \in Nat
    BY <1>1 DEF Grows
  <2>2. World.bucket = bucket /\ World.hists = hists /\ World.lists = lists /\ World.lives = lives /\ World.crossed = crossed
    BY DEF World
  <2>3. ~World'.crossed => ~World.crossed /\ World'.bucket.act = World.bucket.act
    BY <1>4, <1>6, <1>8, <2>2
  <2>4. QED
    BY <1>4, <1>6, <2>1, <2>2, <2>3 DEF Advances
<1>10. RowIn(bucket, World)'
  <2>1. bucket.life <= lives /\ (bucket.exists <=> bucket.life # 0)
    BY Known DEF RowIn
  <2>2. QED
    BY <1>1, <1>2, <1>4, <1>6, <2>1 DEF RowIn
<1>11. granted' = Members(list)
  BY DEF SetBucketACT
<1>12. MembersIn(list, World') = Members(list) /\ Members(list) \subseteq Keys
  BY <1>1, <1>6 DEF MembersIn, Members
<1>13. GrantsIn(World, granted)'
  BY <1>4, <1>6, <1>11, <1>12 DEF GrantsIn
<1>14. QED
  BY <1>4, <1>7, <1>9, <1>10, <1>11, <1>12, <1>13

\* A request that is done with, or goes on to its next step with all it has.
LEMMA GoesOn ==
  ASSUME AccessInv, NEW t \in Threads, NEW pc \in {"store", "close"}
  PROVE  /\ [req[t] EXCEPT !.pc = pc] \in Request
         /\ \A W \in Worlds : RequestIn(req[t], W) => RequestIn([req[t] EXCEPT !.pc = pc], W)
<1> DEFINE r == [req[t] EXCEPT !.pc = pc]
<1>1. r \in Request
  <2>1. pc \in Pcs
    BY DEF Pcs
  <2>2. QED
    BY <2>1, Known, RequestTypes
<1>2. /\ r.pc = pc /\ r.pieces = req[t].pieces /\ r.op = req[t].op /\ r.who = req[t].who /\ r.seen = req[t].seen
      /\ r.b = req[t].b /\ r.src = req[t].src /\ r.hist = req[t].hist /\ r.list = req[t].list
  BY Known DEF Request
<1> HIDE DEF r
<1>3. \A W \in Worlds : RequestIn(req[t], W) => RequestIn(r, W)
  BY <1>1, <1>2, Known, RequestMoves
<1>4. QED
  BY <1>1, <1>3 DEF r

LEMMA IdleThen ==
  ASSUME AccessInv, World' \in Worlds, Advances(World, World') PROVE Idle \in Request /\ RequestIn(Idle, World')
<1>1. World \in Worlds
  BY DEF AccessInv, Types
<1>2. QED
  BY <1>1, IdleOK, RequestAdvances

LEMMA TrackStep == ASSUME AccessInv, NEW t \in Threads, Track(t) PROVE AccessInv'
<1> DEFINE r == [req[t] EXCEPT !.pc = "store"]
<1>1. r \in Request /\ (\A W \in Worlds : RequestIn(req[t], W) => RequestIn(r, W)) /\ Goes(t, r)
  BY GoesOn DEF Track, Moves
<1> HIDE DEF r
<1>2. req[t].pc = "track" /\ UNCHANGED <<objects, upload, lists, hists, lives>>
  BY DEF Track, At
<1>3. CASE bucket.exists /\ SetBucketACT(t, req[t].hist, req[t].b.list, granted)
  <2>1. /\ req[t].hist # 0 /\ hists[req[t].hist] = {} /\ req[t].b.act
        /\ req[t].hist <= Len(hists) /\ req[t].b.list <= Len(lists)
    BY <1>2, Known DEF RequestIn, BeeDid, RowIn
  <2>2. req[t].hist \in Nat /\ req[t].b.list \in Nat /\ Len(hists) \in Nat /\ Len(lists) \in Nat
    BY Known, RowTypes, AccessAssumption DEF Request
  <2>3. req[t].hist \in 1..Len(hists) /\ req[t].b.list \in 0..Len(lists)
    BY <2>1, <2>2
  <2>4. bucket = req[t].b => granted = Members(req[t].b.list)
    BY <2>1 DEF AccessInv, GrantsIn, MembersIn, Members, World
  <2>5. /\ World' \in Worlds /\ Advances(World, World') /\ RowIn(bucket, World)' /\ bucket'.exists
        /\ GrantsIn(World, granted)' /\ granted' \subseteq Keys
    BY <1>2, <1>3, <2>1, <2>3, <2>4, RowWritten
  <2>6. QED
    BY <1>1, <1>2, <2>5, MovedOn DEF AccessInv, Types
<1>4. CASE UNCHANGED <<bucket, granted, crossed>>
  BY <1>1, <1>2, <1>4, Known, OnlyRequest
<1>5. QED
  BY <1>3, <1>4 DEF Track

LEMMA RecordStep == ASSUME AccessInv, NEW t \in Threads, RecordGrants(t) PROVE AccessInv'
<1>1. /\ req[t].pc = "record" /\ UNCHANGED <<objects, upload, lists, hists, lives>> /\ Goes(t, Idle) /\ bucket.exists
      /\ SetBucketACT(t, req[t].hist, req[t].list, (granted \cup req[t].add) \ req[t].revoke)
  BY DEF RecordGrants, At, Ends
<1>2. /\ req[t].hist # 0 /\ req[t].list # 0 /\ req[t].b.act /\ hists[req[t].hist] = lists[req[t].list]
      /\ lists[req[t].list] = (MembersIn(req[t].b.list, World) \cup req[t].add) \ req[t].revoke
      /\ req[t].hist <= Len(hists) /\ req[t].list <= Len(lists)
  BY <1>1, Known DEF RequestIn, BeeDid
<1>3. req[t].hist \in Nat /\ req[t].list \in Nat /\ Len(hists) \in Nat /\ Len(lists) \in Nat
  BY Known, AccessAssumption DEF Request
<1>4. req[t].hist \in 1..Len(hists) /\ req[t].list \in 0..Len(lists)
  BY <1>2, <1>3
<1>5. hists[req[t].hist] \subseteq Members(req[t].list)
  BY <1>2 DEF Members
<1>6. bucket = req[t].b => (granted \cup req[t].add) \ req[t].revoke = Members(req[t].list)
  BY <1>2 DEF AccessInv, GrantsIn, Members, World
<1>7. /\ World' \in Worlds /\ Advances(World, World') /\ RowIn(bucket, World)' /\ bucket'.exists
      /\ GrantsIn(World, granted)' /\ granted' \subseteq Keys
  BY <1>1, <1>2, <1>4, <1>5, <1>6, RowWritten
<1>8. QED
  BY <1>1, <1>7, IdleThen, MovedOn DEF AccessInv, Types

LEMMA CreateStep == ASSUME AccessInv, NEW t \in Threads, CreateBucket(t) PROVE AccessInv'
<1>1. /\ req[t].pc = "insert" /\ ~bucket.exists /\ lives < MaxLives /\ bucket' = Created(t, req[t].hist)
      /\ lives' = lives + 1 /\ granted' = {} /\ crossed' = FALSE /\ Goes(t, Idle)
      /\ UNCHANGED <<objects, upload, lists, hists>>
  BY DEF CreateBucket, At, Ends
<1>2. /\ lives \in Nat /\ MaxLives \in Nat /\ hists \in Seq(SUBSET Keys) /\ lists \in Seq(SUBSET Keys)
      /\ Len(hists) \in Nat /\ Len(lists) \in Nat
  BY AccessAssumption, Known, WorldTypes
<1>3. /\ req[t].hist \in 0..MaxHistories /\ req[t].who \in Tenants \cup {Root} /\ req[t].hist <= Len(hists)
      /\ req[t].hist # 0 => hists[req[t].hist] = {}
  BY <1>1, Known DEF Request, RequestIn, BeeDid
<1>4. lives' \in 0..MaxLives /\ lives' > lives
  BY <1>1, <1>2
<1>5. /\ bucket' \in Bucket /\ bucket'.exists = TRUE /\ bucket'.act = (req[t].hist # 0) /\ bucket'.history = req[t].hist
      /\ bucket'.list = 0 /\ bucket'.life = lives'
  <2>1. bucket' = [exists |-> TRUE, owner |-> req[t].who, act |-> req[t].hist # 0, history |-> req[t].hist,
                   list |-> 0, life |-> lives']
    BY <1>1 DEF Created
  <2>2. 0 \in 0..MaxHistories /\ (req[t].hist # 0) \in BOOLEAN
    BY AccessAssumption
  <2>3. QED
    BY <1>3, <1>4, <2>1, <2>2 DEF Bucket
<1>6. /\ World'.bucket = bucket' /\ World'.hists = hists /\ World'.lists = lists
      /\ World'.lives = lives' /\ World'.crossed = FALSE
  BY <1>1 DEF World
<1>7. World' \in Worlds
  BY <1>1, <1>2, <1>4, <1>5 DEF World, Worlds
<1>8. Advances(World, World')
  <2>1. Grows(hists, hists) /\ Grows(lists, lists)
    BY <1>2 DEF Grows
  <2>2. World.hists = hists /\ World.lists = lists /\ World.lives = lives
    BY DEF World
  <2>3. QED
    BY <1>2, <1>4, <1>5, <1>6, <2>1, <2>2 DEF Advances
<1>9. RowIn(bucket, World)'
  <2>1. bucket'.act <=> bucket'.history # 0
    BY <1>5
  <2>2. lives' \in Nat /\ lives' # 0 /\ lives' <= lives'
    BY <1>2, <1>4
  <2>3. /\ bucket'.history <= Len(hists) /\ bucket'.list <= Len(lists) /\ bucket'.life <= lives'
        /\ bucket'.exists <=> bucket'.life # 0
    BY <1>2, <1>3, <1>5, <2>2
  <2>4. QED
    BY <1>6, <2>1, <2>3 DEF RowIn
<1>10. GrantsIn(World, granted)'
  BY <1>1, <1>3, <1>5, <1>6 DEF GrantsIn, MembersIn
<1>11. QED
  BY <1>1, <1>5, <1>7, <1>8, <1>9, <1>10, IdleThen, MovedOn DEF AccessInv, Types

LEMMA DeleteStep == ASSUME AccessInv, NEW t \in Threads, DeleteBucket(t) PROVE AccessInv'
<1>1. /\ bucket' = NoBucket /\ (\A k \in Objects : objects[k] = {}) /\ Goes(t, Idle)
      /\ UNCHANGED <<objects, upload, lists, hists, lives, granted, crossed>>
  BY DEF DeleteBucket, Ends
<1>2. /\ lives \in 0..MaxLives /\ lives \in Nat /\ hists \in Seq(SUBSET Keys) /\ lists \in Seq(SUBSET Keys)
      /\ Len(hists) \in Nat /\ Len(lists) \in Nat /\ crossed \in BOOLEAN
  BY AccessAssumption DEF AccessInv, Types, World, Worlds
<1>3. /\ NoBucket \in Bucket /\ NoBucket.exists = FALSE /\ NoBucket.act = FALSE /\ NoBucket.history = 0
      /\ NoBucket.list = 0 /\ NoBucket.life = 0
  BY AccessAssumption DEF NoBucket, Bucket
<1>4. /\ World'.bucket = NoBucket /\ World'.hists = hists /\ World'.lists = lists
      /\ World'.lives = lives /\ World'.crossed = crossed
  BY <1>1 DEF World
<1>5. World' \in Worlds
  BY <1>1, <1>2, <1>3 DEF World, Worlds
<1>6. Advances(World, World')
  <2>1. Grows(hists, hists) /\ Grows(lists, lists)
    BY <1>2 DEF Grows
  <2>2. World.hists = hists /\ World.lists = lists /\ World.lives = lives
    BY DEF World
  <2>3. QED
    BY <1>2, <1>3, <1>4, <2>1, <2>2 DEF Advances
<1>7. RowIn(bucket, World)' /\ GrantsIn(World, granted)'
  BY <1>1, <1>2, <1>3, <1>4 DEF RowIn, GrantsIn
<1>8. QED
  BY <1>1, <1>3, <1>5, <1>6, <1>7, IdleThen, MovedOn DEF AccessInv, Types

\* Actions of the index and the upload leave the bucket and Bee alone.
LEMMA StoreStep ==
  ASSUME AccessInv, NEW t \in Threads, NEW r \in Request, Goes(t, r),
         \A W \in Worlds : RequestIn(req[t], W) => RequestIn(r, W) \/ r = Idle,
         UNCHANGED <<bucket, lists, hists, lives, granted, crossed>>,
         objects' \in [Objects -> SUBSET Piece], upload' \in [open : BOOLEAN, parts : SUBSET Piece],
         ~bucket.exists => \A k \in Objects : objects'[k] = {},
         \A k \in Objects : \A p \in objects'[k] : p \in objects[k] \/ p \in req[t].pieces,
         \A p \in upload'.parts : p \in upload.parts \/ p \in req[t].pieces
  PROVE  AccessInv'
<1>1. World' = World
  BY DEF World
<1>2. Advances(World, World')
  <2>1. Grows(hists, hists) /\ Grows(lists, lists) /\ lives \in Nat
    BY Known, WorldTypes DEF Grows
  <2>2. QED
    BY <1>1, <2>1, Known DEF Advances
<1>3. RequestIn(req[t], World') => RequestIn(r, World')
  BY <1>1, <1>2, Known, IdleThen
<1>4. QED
  BY <1>1, <1>2, <1>3, Known, MovedOn DEF AccessInv, Types

LEMMA PutObjectStep == ASSUME AccessInv, NEW t \in Threads, PutObject(t) PROVE AccessInv'
<1>1. PICK k \in Objects : objects' = [objects EXCEPT ![k] = req[t].pieces]
  BY DEF PutObject
<1>2. /\ bucket.exists /\ UNCHANGED <<bucket, upload, lists, hists, lives, granted, crossed>>
      /\ Goes(t, Idle) \/ Goes(t, [req[t] EXCEPT !.pc = "close"])
  BY DEF PutObject, Ends, Moves
<1>3. objects \in [Objects -> SUBSET Piece] /\ req[t].pieces \in SUBSET Piece
  BY Known DEF AccessInv, Types, Request
<1>4. /\ objects' \in [Objects -> SUBSET Piece]
      /\ \A j \in Objects : \A p \in objects'[j] : p \in objects[j] \/ p \in req[t].pieces
  BY <1>1, <1>3
<1>5. /\ Idle \in Request /\ [req[t] EXCEPT !.pc = "close"] \in Request
      /\ \A W \in Worlds : RequestIn(req[t], W) => RequestIn([req[t] EXCEPT !.pc = "close"], W)
  BY IdleOK, GoesOn
<1>6. QED
  BY <1>2, <1>4, <1>5, StoreStep DEF AccessInv, Types

LEMMA PutPartStep == ASSUME AccessInv, NEW t \in Threads, PutPart(t) PROVE AccessInv'
<1>1. /\ upload' = [upload EXCEPT !.parts = @ \cup req[t].pieces] /\ Goes(t, Idle)
      /\ UNCHANGED <<bucket, objects, lists, hists, lives, granted, crossed>>
  BY DEF PutPart, Ends
<1>2. upload \in [open : BOOLEAN, parts : SUBSET Piece] /\ req[t].pieces \in SUBSET Piece
  BY Known DEF AccessInv, Types, Request
<1>3. upload' \in [open : BOOLEAN, parts : SUBSET Piece] /\ upload'.parts = upload.parts \cup req[t].pieces
  BY <1>1, <1>2
<1>4. QED
  BY <1>1, <1>3, IdleOK, StoreStep DEF AccessInv, Types

LEMMA DeleteObjectStep == ASSUME AccessInv, NEW t \in Threads, DeleteObject(t) PROVE AccessInv'
<1>1. PICK k \in Objects : objects' = [objects EXCEPT ![k] = {}]
  BY DEF DeleteObject
<1>2. Goes(t, Idle) /\ UNCHANGED <<bucket, upload, lists, hists, lives, granted, crossed>>
  BY DEF DeleteObject, Ends
<1>3. objects \in [Objects -> SUBSET Piece]
  BY DEF AccessInv, Types
<1>4. /\ objects' \in [Objects -> SUBSET Piece] /\ \A j \in Objects : objects'[j] \subseteq objects[j]
  BY <1>1, <1>3
<1>5. ~bucket.exists => \A j \in Objects : objects'[j] = {}
  BY <1>4 DEF AccessInv
<1>6. QED
  BY <1>2, <1>4, <1>5, IdleOK, StoreStep DEF AccessInv, Types

LEMMA UploadRowStep ==
  ASSUME AccessInv, NEW t \in Threads, CreateMultipartUpload(t) \/ DeleteMultipartUpload(t) PROVE AccessInv'
<1>1. /\ \E open \in BOOLEAN : upload' = [open |-> open, parts |-> {}]
      /\ Goes(t, Idle) /\ UNCHANGED <<bucket, objects, lists, hists, lives, granted, crossed>>
  BY DEF CreateMultipartUpload, DeleteMultipartUpload, Ends
<1>2. upload' \in [open : BOOLEAN, parts : SUBSET Piece] /\ upload'.parts = {}
  BY <1>1
<1>3. QED
  BY <1>1, <1>2, IdleOK, StoreStep DEF AccessInv, Types

LEMMA AccessStep == AccessInv /\ [Next]_vars => AccessInv'
<1> SUFFICES ASSUME AccessInv, [Next]_vars PROVE AccessInv'
  OBVIOUS
<1>1. CASE UNCHANGED vars
  <2>1. World' = World
    BY <1>1 DEF vars, World
  <2>2. QED
    BY <1>1, <2>1 DEF vars, AccessInv, Types
<1>2. QED
  BY <1>1, DispatchStep, FailsStep, HistoryStep, CreateStep, DeleteStep, GetBucketStep,
     GetSourceBucketStep, GetSourceObjectStep, UploadStep, TrackStep, PutObjectStep, PutPartStep,
     DeleteObjectStep, UploadRowStep, ListPartsStep, BeeGrantsStep, RecordStep DEF Next

LEMMA AccessInit == Init => AccessInv
<1> SUFFICES ASSUME Init PROVE AccessInv
  OBVIOUS
<1>1. /\ NoBucket \in Bucket /\ NoBucket.exists = FALSE /\ NoBucket.act = FALSE /\ NoBucket.history = 0
      /\ NoBucket.list = 0 /\ NoBucket.life = 0
  BY AccessAssumption DEF NoBucket, Bucket
<1>2. /\ World.bucket = NoBucket /\ World.lives = 0 /\ World.hists = <<>> /\ World.lists = <<>>
      /\ World \in Worlds /\ Len(World.hists) = 0 /\ Len(World.lists) = 0
  <2>1. 0 \in 0..MaxLives /\ <<>> \in Seq(SUBSET Keys) /\ FALSE \in BOOLEAN
    BY AccessAssumption
  <2>2. World = [bucket |-> NoBucket, crossed |-> FALSE, lives |-> 0, hists |-> <<>>, lists |-> <<>>]
    BY DEF Init, World
  <2>3. World \in Worlds
    BY <1>1, <2>1, <2>2 DEF Worlds
  <2>4. QED
    BY <2>2, <2>3
<1>3. RowIn(NoBucket, World)
  BY <1>1, <1>2 DEF RowIn
<1>4. Idle \in Request
  BY <1>1, AccessAssumption DEF Idle, Request, Pcs, Ops
<1>5. /\ Idle.pc = "idle" /\ Idle.b = NoBucket /\ Idle.src = NoBucket /\ Idle.pieces = {}
      /\ Idle.seen = 0 /\ Idle.hist = 0 /\ Idle.list = 0
  BY DEF Idle
<1>6. RequestIn(Idle, World)
  BY <1>1, <1>2, <1>3, <1>5 DEF RequestIn, LetIn, BeeDid
<1>7. Types
  BY <1>2, <1>4, AccessAssumption DEF Init, Types
<1>8. QED
  BY <1>1, <1>2, <1>3, <1>6, <1>7 DEF Init, AccessInv, GrantsIn

LEMMA AccessInvariant == Spec => []AccessInv
BY AccessInit, AccessStep, PTL DEF Spec

(***************************************************************************)
(* What follows from it.                                                   *)
(***************************************************************************)
\* Type correctness of BucketAccess, with its claim that a bucket is protected exactly if it has a
\* history: no interleaving leaves an ACT bucket whose first upload would have to start one.
THEOREM RowsProtected == Spec => []TypeOK
<1>1. AccessInv => TypeOK
  <2> SUFFICES ASSUME AccessInv PROVE TypeOK
    OBVIOUS
  <2>1. bucket \in Bucket /\ (bucket.act <=> bucket.history # 0) /\ lives \in 0..MaxLives
    BY DEF AccessInv, Types, World, Worlds, RowIn
  <2>2. /\ \A k \in Objects : objects[k] \subseteq Piece
        /\ upload.open \in BOOLEAN /\ upload.parts \subseteq Piece /\ granted \subseteq Keys
    BY DEF AccessInv, Types
  <2>3. ASSUME NEW t \in Threads
        PROVE  req[t].pieces \subseteq Piece /\ req[t].b \in Bucket /\ req[t].hist \in 0..Len(hists)
    <3>1. /\ req[t].pieces \subseteq Piece /\ req[t].b \in Bucket /\ req[t].hist \in Nat
          /\ req[t].hist <= Len(hists) /\ Len(hists) \in Nat
      BY <2>3, Known, AccessAssumption DEF Request, RequestIn, BeeDid
    <3>2. QED
      BY <3>1
  <2>4. QED
    BY <2>1, <2>2, <2>3 DEF TypeOK
<1>2. QED
  BY <1>1, AccessInvariant, PTL

\* Whatever grants, revokes, copies, uploads and re-creations overlap, the gateway can read back the
\* pieces of every object of the bucket by what their rows record, and no object of an ACT bucket
\* was uploaded without ACT.
THEOREM OwnerAlwaysReads == Spec => []OwnerReads
<1>1. AccessInv => OwnerReads
  <2> SUFFICES ASSUME AccessInv, NEW k \in Objects, NEW p \in objects[k], p.life = bucket.life, ~crossed
               PROVE  Readable(p, bucket) /\ (bucket.act => p.under # 0)
    BY DEF OwnerReads
  <2>1. bucket.exists /\ PieceIn(p, World) /\ World.bucket = bucket /\ World.crossed = crossed
    BY DEF AccessInv, World
  <2>2. IF bucket.act THEN p.under # 0 /\ p.recorded = p.under ELSE p.under = 0
    BY <2>1 DEF PieceIn
  <2>3. QED
    BY <2>2 DEF Readable, Decrypts, actHistoryFor
<1>2. QED
  BY <1>1, AccessInvariant, PTL

\* Acknowledged grants and revokes are what the list on record says, and the history uploads go
\* under is readable by nobody else, however mutations, uploads and failures interleave.
THEOREM GrantsStayInEffect == Spec => []GrantsInEffect
<1>1. AccessInv => GrantsInEffect
  BY DEF AccessInv, GrantsIn, MembersIn, GrantsInEffect, Members, World
<1>2. QED
  BY <1>1, AccessInvariant, PTL

\* Only the owner of a bucket, or the root identity, changes its row, its objects or its upload,
\* except by a request that was let in when there was no such bucket to read.
THEOREM OwnersOnly == Spec => OwnBucketOnly
<1>1. ASSUME AccessInv, [Next]_vars, NEW t \in Threads, req'[t] # req[t], bucket.exists,
             <<bucket', objects', upload'>> # <<bucket, objects, upload>>
      PROVE  req[t].who \in {Root, bucket.owner} \/ req[t].seen # bucket.life
  BY <1>1, Known DEF RequestIn, LetIn
<1>2. AccessInv /\ [Next]_vars =>
        [\A t \in Threads :
           /\ req'[t] # req[t] /\ bucket.exists
           /\ <<bucket', objects', upload'>> # <<bucket, objects, upload>>
           => req[t].who \in {Root, bucket.owner} \/ req[t].seen # bucket.life]_vars
  BY <1>1
<1>3. QED
  BY <1>2, AccessInvariant, PTL DEF Spec, OwnBucketOnly
=============================================================================

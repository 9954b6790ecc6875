-------------------------- MODULE CommitChainProofs --------------------------
(***************************************************************************)
(* Proofs about CommitChain and CommitHistory for every value of their     *)
(* constants: types, sealed keys, well-formed chains, quiet means          *)
(* committed; then what the commits of a bucket record, which are contents *)
(* the bucket really had and, from one gateway that was neither asked to   *)
(* restore nor to delete, a line of commits the feed follows.              *)
(***************************************************************************)
EXTENDS CommitHistory, FiniteSetTheorems, WellFoundedInduction, TLAPS

(***************************************************************************)
(* Pages. ListObjects returns the first PageSize rows past a cursor.       *)
(***************************************************************************)

\* Every nonempty set of naturals has a least element.
LEMMA LeastNat ==
  ASSUME NEW S \in SUBSET Nat, S # {}
  PROVE  \E m \in S : \A n \in S : m <= n
<1>1. PICK m \in S : \A n \in S : ~ (<<n, m>> \in OpToRel(<, Nat))
  BY NatLessThanWellFounded, WFMin, Zenon
<1>2. \A n \in S : ~ (n < m)
  BY <1>1 DEF OpToRel
<1>3. QED BY <1>2

\* Every nonempty set of keys has a greatest element, which is LastOf.
LEMMA LastOfPage ==
  ASSUME NEW S \in SUBSET Keys, S # {}
  PROVE  LastOf(S) \in S /\ \A j \in S : j <= LastOf(S)
<1> DEFINE D == {n \in Nat : \E k \in S : n = NKeys - k}
<1>1. NKeys \in Nat BY ChainAssumption
<1>2. D # {}
  <2>1. PICK k \in S : TRUE OBVIOUS
  <2>2. k \in Int /\ k <= NKeys BY DEF Keys
  <2>3. NKeys - k \in Nat BY <1>1, <2>2
  <2>4. QED BY <2>3
<1>3. PICK m \in D : \A n \in D : m <= n BY <1>2, LeastNat
<1>4. PICK k \in S : m = NKeys - k BY <1>3
<1>5. \A j \in S : NKeys - j \in D BY <1>1 DEF Keys
<1>6. \A j \in S : m <= NKeys - j BY <1>3, <1>5
<1>7. \A j \in S : j <= k
  <2> SUFFICES ASSUME NEW j \in S PROVE j <= k OBVIOUS
  <2>1. j \in Int /\ k \in Int BY DEF Keys
  <2>2. NKeys - k <= NKeys - j BY <1>4, <1>6
  <2>3. QED BY <1>1, <2>1, <2>2
<1>8. QED BY <1>7 DEF LastOf

\* A page is a set of present keys past the cursor, it is closed downwards among them,
\* and a page that is not full is all of them.
LEMMA PageFacts ==
  ASSUME NEW after \in Nat, index \in Rows
  PROVE  LET rest == {k \in Present(index) : k > after}
             page == ListObjects(after)
         IN  /\ page \subseteq rest /\ page \subseteq Keys
             /\ IsFiniteSet(page)
             /\ \A k \in page, j \in rest : j <= k => j \in page
             /\ Cardinality(page) < PageSize => page = rest
             /\ ~(Cardinality(page) < PageSize) => page # {}
<1> DEFINE rest == {k \in Present(index) : k > after}
           page == ListObjects(after)
           below(k) == {j \in rest : j < k}
<1>0. NKeys \in Nat /\ PageSize \in Nat /\ PageSize > 0 BY ChainAssumption
<1>1. rest \subseteq Keys /\ rest \subseteq Nat BY DEF Present, Keys
<1>2. page = {k \in rest : Cardinality(below(k)) < PageSize} BY DEF ListObjects
<1>3. IsFiniteSet(Keys) BY <1>0, FS_Interval DEF Keys
<1>4. \A T \in SUBSET rest : IsFiniteSet(T) /\ Cardinality(T) \in Nat
  BY <1>1, <1>3, FS_Subset, FS_CardinalityType
<1>5. page \subseteq rest /\ page \subseteq Keys BY <1>1, <1>2
<1>6. IsFiniteSet(page) /\ Cardinality(page) \in Nat BY <1>4, <1>5
<1>7. ASSUME NEW k \in page, NEW j \in rest, j <= k PROVE j \in page
  <2>1. k \in rest /\ k \in Nat /\ j \in Nat BY <1>1, <1>5
  <2>2. below(j) \subseteq below(k) BY <1>1, <1>7, <2>1
  <2>3. IsFiniteSet(below(k)) /\ Cardinality(below(k)) \in Nat /\ Cardinality(below(j)) \in Nat
    BY <1>4
  <2>4. Cardinality(below(j)) <= Cardinality(below(k)) BY <2>2, <2>3, FS_Subset
  <2>5. Cardinality(below(k)) < PageSize BY <1>2
  <2>6. Cardinality(below(j)) < PageSize BY <1>0, <2>3, <2>4, <2>5
  <2>7. QED BY <1>2, <2>6
<1>8. ASSUME Cardinality(page) < PageSize PROVE page = rest
  <2> SUFFICES ASSUME rest \ page # {} PROVE FALSE BY <1>5
  <2>1. PICK m \in rest \ page : \A n \in rest \ page : m <= n BY <1>1, LeastNat
  <2>2. below(m) \subseteq page BY <1>1, <2>1
  <2>3. Cardinality(below(m)) <= Cardinality(page) BY <1>6, <2>2, FS_Subset
  <2>4. Cardinality(below(m)) \in Nat BY <1>4
  <2>5. Cardinality(below(m)) < PageSize BY <1>0, <1>6, <1>8, <2>3, <2>4
  <2>6. QED BY <1>2, <2>1, <2>5
<1>9. ASSUME ~(Cardinality(page) < PageSize) PROVE page # {}
  BY <1>0, <1>9, FS_EmptySet
<1>10. QED BY <1>5, <1>6, <1>7, <1>8, <1>9

(***************************************************************************)
(* Sealing and opening.                                                    *)
(***************************************************************************)

\* seal keeps every reference of every row, readable or encrypted.
LEMMA SealType ==
  ASSUME NEW rows \in Rows
  PROVE  seal(rows) \in [Keys -> WireObject]
<1> SUFFICES ASSUME NEW k \in Keys, rows[k] # Absent
    PROVE  [clear |-> clearOf(rows[k]), sealed |-> sealedOf(rows[k])] \in WireObject
  BY DEF seal, WireObject
<1>1. rows[k] \in Objects /\ rows[k] \subseteq Refs BY ChainAssumption DEF Rows
<1>2. clearOf(rows[k]) \cup sealedOf(rows[k]) = rows[k] BY DEF clearOf, sealedOf
<1>3. QED BY <1>1, <1>2 DEF WireObject, clearOf, sealedOf, Refs

\* A commit with nothing left sealed opens to whole objects, whatever the identity.
LEMMA OpenedRows ==
  ASSUME NEW d \in Commit, NEW id,
         \A k \in Keys : opensWith(d.objects[k], d.rec, id), SealedCount(d, id) = 0
  PROVE  GetCommit(d, id) \in Rows
<1> DEFINE left == {k \in Keys : d.objects[k] # Absent /\ d.objects[k].sealed # {}}
<1>1. IsFiniteSet(left)
  <2>1. IsFiniteSet(Keys) BY ChainAssumption, FS_Interval DEF Keys
  <2>2. QED BY <2>1, FS_Subset
<1>2. id = NoRecipient => left = {} BY <1>1, FS_EmptySet DEF SealedCount
<1> SUFFICES ASSUME NEW k \in Keys PROVE open(d.objects[k], d.rec, id) \in Objects \cup {Absent}
  BY DEF GetCommit, Rows
<1>3. CASE d.objects[k] = Absent BY <1>3 DEF open
<1>4. CASE d.objects[k] # Absent
  <2>1. d.objects[k].clear \cup d.objects[k].sealed \in Objects BY <1>4 DEF Commit, WireObject
  <2>2. id # d.rec => d.objects[k].sealed = {} BY <1>2, <1>4 DEF opensWith
  <2>3. d.objects[k].sealed = {} => d.objects[k].clear \in Objects BY <2>1
  <2>4. QED BY <1>4, <2>1, <2>2, <2>3 DEF open
<1>5. QED BY <1>3, <1>4

(***************************************************************************)
(* Type correctness, and that every root held anywhere is a commit on      *)
(* Swarm: a restore reads docs[root], so neither is inductive alone.       *)
(***************************************************************************)
Known == 1..Len(docs)

RootsKnown ==
  /\ bucket.head \in Known \cup {0}
  /\ \A l \in Labels : snaps[l] \in Known \cup {0}
  /\ \A u \in feed : u.root \in Known
  /\ \A g \in Gateways : job[g].pc \in {"advancing", "publishing"} => job[g].root \in Known
  /\ \A q \in pending \cup restoring : q.root \in Known

TypeInv == TypeOK /\ RootsKnown

\* The idle commit is well typed.
LEMMA IdleJobType == IdleJob \in Job /\ IdleJob.pc = "idle"
<1>1. NoObjects \in Rows BY DEF NoObjects, Rows
<1>2. QED BY <1>1 DEF IdleJob, Job

\* Charging a step to its bound.
LEMMA SpentType ==
  ASSUME spent \in Spent
  PROVE  /\ [spent EXCEPT !.writes = @ + 1] \in Spent
         /\ [spent EXCEPT !.faults = @ + 1] \in Spent
         /\ [spent EXCEPT !.stops = @ + 1] \in Spent
         /\ [spent EXCEPT !.deletes = @ + 1] \in Spent
         /\ [spent EXCEPT !.restores = @ + 1] \in Spent
BY DEF Spent

\* The type invariant holds initially.
LEMMA InitTypeInv == Init => TypeInv
<1> SUFFICES ASSUME Init PROVE TypeInv OBVIOUS
<1>1. NoObjects \in Rows BY DEF NoObjects, Rows
<1>2. TypeOK BY <1>1, IdleJobType DEF Init, TypeOK, NoBucket, NotClearing, Row, ClearRequest, Spent, SnapshotRequest, RestoreRequest
<1>3. RootsKnown BY IdleJobType DEF Init, RootsKnown, NoBucket
<1>4. QED BY <1>2, <1>3 DEF TypeInv

\* Bucket, object and restore handlers.
LEMMA HandlerTypeInv ==
  ASSUME TypeInv, NEW g \in Gateways, Handler(g)
  PROVE  TypeInv'
<1> USE DEF storeVars, swarmVars, loopVars, reqVars
<1>0. TypeOK /\ RootsKnown BY DEF TypeInv
<1>1. ASSUME NEW w \in Writers, NEW k \in Keys, NEW o \in Objects \cup {Absent}, WriteObject(w, g, k, o)
      PROVE  TypeInv'
  <2>1. TypeOK' BY <1>0, <1>1, SpentType DEF WriteObject, TypeOK, Rows
  <2>2. RootsKnown' BY <1>0, <1>1 DEF WriteObject, RootsKnown, Known
  <2>3. QED BY <2>1, <2>2 DEF TypeInv
<1>2. ASSUME NEW w \in Writers, NEW rec \in Recipients, SetRecipient(w, g, rec)
      PROVE  TypeInv'
  <2>0. [bucket EXCEPT !.rec = rec] \in Row BY <1>0 DEF TypeOK, Row
  <2>1. TypeOK' BY <1>0, <1>2, <2>0, SpentType DEF SetRecipient, TypeOK
  <2>2. bucket'.head = bucket.head BY <1>0, <1>2 DEF SetRecipient, TypeOK, Row
  <2>3. RootsKnown' BY <1>0, <1>2, <2>2 DEF SetRecipient, RootsKnown, Known
  <2>4. QED BY <2>1, <2>3 DEF TypeInv
<1>3. CASE ClearBegin(g)
  <2>0. [clearing EXCEPT ![g].pc = "checking"] \in [Gateways -> ClearRequest]
    BY <1>0 DEF TypeOK, ClearRequest
  <2>1. TypeOK' BY <1>0, <1>3, <2>0, SpentType DEF ClearBegin, TypeOK
  <2>2. RootsKnown' BY <1>0, <1>3 DEF ClearBegin, RootsKnown, Known
  <2>3. QED BY <2>1, <2>2 DEF TypeInv
<1>4. CASE ClearCheck(g)
  <2> DEFINE page == ListObjects(clearing[g].after)
  <2>1. clearing[g].after \in Nat /\ index \in Rows BY <1>0 DEF TypeOK, ClearRequest
  <2>2. page \subseteq Keys /\ (~(Cardinality(page) < PageSize) => page # {}) BY <2>1, PageFacts
  <2>3. ~(Cardinality(page) < PageSize) => LastOf(page) \in Nat BY <2>2, LastOfPage DEF Keys
  <2>4. TypeOK' BY <1>0, <1>4, <2>3 DEF ClearCheck, TypeOK, NotClearing, ClearRequest
  <2>5. RootsKnown' BY <1>0, <1>4 DEF ClearCheck, RootsKnown, Known
  <2>6. QED BY <2>4, <2>5 DEF TypeInv
<1>5. CASE ClearRecipient(g)
  <2>0. bucket' \in Row BY <1>0, <1>5 DEF ClearRecipient, TypeOK, Row
  <2>1. TypeOK' BY <1>0, <1>5, <2>0 DEF ClearRecipient, TypeOK, NotClearing, ClearRequest
  <2>2. bucket'.head = bucket.head BY <1>0, <1>5 DEF ClearRecipient, TypeOK, Row
  <2>3. RootsKnown' BY <1>0, <1>5, <2>2 DEF ClearRecipient, RootsKnown, Known
  <2>4. QED BY <2>1, <2>3 DEF TypeInv
<1>6. ASSUME NEW root \in RestoreTargets, NEW id \in Recipients \cup {NoRecipient},
             BeginRestore(g, root, id)
      PROVE  TypeInv'
  <2>1. root \in Known BY <1>0, <1>6 DEF RestoreTargets, RootsKnown
  <2>2. docs[root] \in Commit /\ root \in Nat BY <1>0, <2>1 DEF TypeOK, Known
  <2>3. GetCommit(docs[root], id) \in Rows BY <1>6, <2>2, OpenedRows DEF BeginRestore
  <2>4. TypeOK'
    <3>1. restoring' \subseteq RestoreRequest
      BY <1>0, <1>6, <2>2, <2>3 DEF BeginRestore, TypeOK, RestoreRequest
    <3>2. QED BY <1>0, <1>6, <3>1, SpentType DEF BeginRestore, TypeOK
  <2>5. RootsKnown' BY <1>0, <1>6, <2>1 DEF BeginRestore, RootsKnown, Known
  <2>6. QED BY <2>4, <2>5 DEF TypeInv
<1>7. QED BY <1>1, <1>2, <1>3, <1>4, <1>5, <1>6 DEF Handler

\* The steps of a commit.
LEMMA CommitTypeInv ==
  ASSUME TypeInv, NEW g \in Gateways,
         CommitStep(g) \/ Tick(g) \/ \E who \in Labels \cup {Loop} : LockCommit(g, who)
  PROVE  TypeInv'
<1> USE DEF storeVars, swarmVars, loopVars, reqVars
<1>0. TypeOK /\ RootsKnown BY DEF TypeInv
<1>1. CASE ReadBucket(g)
  <2>1. PICK j \in Job : job' = [job EXCEPT ![g] = j] /\ j.pc \in {"idle", "listing"}
    <3>1. [job[g] EXCEPT !.pc = "listing", !.rec = bucket.rec, !.parent = bucket.head,
                         !.seq = bucket.seq + 1] \in Job
      <4>1. job[g] \in Job BY <1>0 DEF TypeOK
      <4>2. /\ bucket.rec \in Recipients \cup {NoRecipient} /\ bucket.head \in Nat
            /\ bucket.seq + 1 \in Nat
        BY <1>0 DEF TypeOK, Row
      <4>3. QED BY <4>1, <4>2 DEF Job
    <3>2. job[g] \in Job BY <1>0 DEF TypeOK
    <3>3. QED BY <1>1, <3>1, <3>2, IdleJobType DEF ReadBucket, Job
  <2>2. TypeOK' BY <1>0, <1>1, <2>1 DEF ReadBucket, TypeOK
  <2>3. RootsKnown' BY <1>0, <1>1, <2>1 DEF ReadBucket, TypeOK, RootsKnown, Known
  <2>4. QED BY <2>2, <2>3 DEF TypeInv
<1>2. CASE ListPage(g)
  <2> DEFINE page == ListObjects(job[g].after)
             got  == [k \in Keys |-> IF k \in page THEN index[k] ELSE job[g].objects[k]]
  <2>1. job[g] \in Job /\ job[g].after \in Nat /\ index \in Rows /\ job[g].objects \in Rows
    BY <1>0 DEF TypeOK, Job
  <2>2. page \subseteq Keys /\ (~(Cardinality(page) < PageSize) => page # {}) BY <2>1, PageFacts
  <2>3. ~(Cardinality(page) < PageSize) => LastOf(page) \in Nat BY <2>2, LastOfPage DEF Keys
  <2>4. got \in Rows BY <2>1 DEF Rows
  <2>5. PICK j \in Job : job' = [job EXCEPT ![g] = j] /\ j.pc \in {"idle", "listing", "building"}
    <3>1. [job[g] EXCEPT !.pc = "building", !.objects = got, !.after = 0] \in Job
      BY <2>1, <2>4 DEF Job
    <3>2. ~(Cardinality(page) < PageSize)
            => [job[g] EXCEPT !.objects = got, !.after = LastOf(page)] \in Job
      BY <2>1, <2>3, <2>4 DEF Job
    <3> HIDE DEF page, got
    <3>3. job' = [job EXCEPT ![g] =
             IF ~bucket.exists THEN IdleJob
             ELSE IF Cardinality(page) < PageSize
                  THEN [job[g] EXCEPT !.pc = "building", !.objects = got, !.after = 0]
                  ELSE [job[g] EXCEPT !.objects = got, !.after = LastOf(page)]]
      BY <1>2 DEF ListPage, page, got
    <3>4. job[g].pc = "listing" BY <1>2 DEF ListPage
    <3>5. QED BY <2>1, <3>1, <3>2, <3>3, <3>4, IdleJobType DEF Job
  <2>6. TypeOK' BY <1>0, <1>2, <2>5 DEF ListPage, TypeOK
  <2>7. RootsKnown' BY <1>0, <1>2, <2>5 DEF ListPage, TypeOK, RootsKnown, Known
  <2>8. QED BY <2>6, <2>7 DEF TypeInv
<1>3. CASE Build(g)
  <2> DEFINE d == [seq |-> job[g].seq, parent |-> job[g].parent, rec |-> job[g].rec,
                   objects |-> seal(job[g].objects)]
  <2>1. job[g] \in Job /\ job[g].objects \in Rows BY <1>0 DEF TypeOK, Job
  <2>2. seal(job[g].objects) \in [Keys -> WireObject] BY <2>1, SealType
  <2>3. d \in Commit BY <2>1, <2>2 DEF Commit, Job
  <2> HIDE DEF d
  <2>4. docs' = Append(docs, d) BY <1>3 DEF Build, d
  <2>5. docs' \in Seq(Commit) /\ Len(docs') = Len(docs) + 1 /\ Len(docs) \in Nat
    BY <1>0, <2>3, <2>4 DEF TypeOK
  <2>6. exposed' \subseteq Refs
    <3>1. \A k \in Present(job[g].objects) : clearOf(job[g].objects[k]) \subseteq Refs
      BY <2>1, ChainAssumption DEF Present, Rows, clearOf
    <3>2. QED BY <1>0, <1>3, <3>1 DEF Build, Shown, TypeOK
  <2>7. job' = [job EXCEPT ![g] = [job[g] EXCEPT !.pc = "advancing", !.root = Len(docs) + 1]]
    BY <1>0, <1>3 DEF Build, TypeOK
  <2>7a. [job[g] EXCEPT !.pc = "advancing", !.root = Len(docs) + 1] \in Job
    <3>1. Len(docs) + 1 \in Nat BY <2>5
    <3>2. QED BY <2>1, <3>1 DEF Job
  <2>8. TypeOK' BY <1>0, <1>3, <2>5, <2>6, <2>7, <2>7a DEF Build, TypeOK
  <2>9. job'[g].root = Len(docs') /\ \A h \in Gateways \ {g} : job'[h] = job[h]
    BY <1>0, <2>1, <2>5, <2>7 DEF TypeOK, Job
  <2>10. RootsKnown'
    <3>1. Known \subseteq Known' /\ Len(docs') \in Known' BY <2>5 DEF Known
    <3>2. UNCHANGED <<bucket, snaps, feed, pending, restoring>> BY <1>3 DEF Build
    <3>3. QED BY <1>0, <2>9, <3>1, <3>2 DEF RootsKnown
  <2>11. QED BY <2>8, <2>10 DEF TypeInv
<1>4. CASE SetBucketHead(g)
  <2>1. job[g] \in Job /\ bucket \in Row /\ job[g].pc = "advancing" /\ job[g].root \in Known
    BY <1>0, <1>4 DEF TypeOK, RootsKnown, SetBucketHead
  <2>2. PICK j \in Job : job' = [job EXCEPT ![g] = j]
                         /\ (j.pc = "publishing" => j.root = job[g].root) /\ j.pc # "advancing"
    <3>1. [job[g] EXCEPT !.pc = "publishing"] \in Job BY <2>1 DEF Job
    <3>2. QED BY <1>0, <1>4, <2>1, <3>1, IdleJobType DEF SetBucketHead, TypeOK, Job
  <2>3. bucket' \in Row /\ bucket'.head \in {bucket.head, job[g].root}
    BY <1>4, <2>1 DEF SetBucketHead, Row, Job
  <2>4. UNCHANGED <<index, snaps, swarmVars, dirty, due, reqVars, spent>> BY <1>4 DEF SetBucketHead
  <2>5. TypeOK' BY <1>0, <2>2, <2>3, <2>4 DEF TypeOK
  <2>6. RootsKnown' BY <1>0, <2>1, <2>2, <2>3, <2>4 DEF TypeOK, RootsKnown, Known
  <2>7. QED BY <2>5, <2>6 DEF TypeInv
<1>5. CASE FinishCommit(g)
  <2>1. job[g] \in Job /\ job[g].root \in Known BY <1>0, <1>5 DEF FinishCommit, TypeOK, RootsKnown
  <2>2. /\ feed' \subseteq feed \cup {[index |-> job[g].seq - 1, root |-> job[g].root]}
        /\ spent' \in Spent
    BY <1>0, <1>5, SpentType DEF FinishCommit, Publish, TypeOK
  <2>3. job' = [job EXCEPT ![g] = IdleJob] /\ UNCHANGED <<storeVars, docs, exposed, dirty, due, writer, restoring, clearing>>
    BY <1>5 DEF FinishCommit
  <2>4. pending' \subseteq pending \cup {[gw |-> g, label |-> job[g].who, root |-> job[g].root]}
        /\ (job[g].who = Loop => pending' = pending)
    BY <1>5 DEF FinishCommit
  <2>5. TypeOK'
    <3>1. pending' \subseteq SnapshotRequest BY <1>0, <2>1, <2>4 DEF TypeOK, Job, SnapshotRequest
    <3>2. [index |-> job[g].seq - 1, root |-> job[g].root] \in Update BY <2>1 DEF Job, Update
    <3>3. QED BY <1>0, <2>2, <2>3, <3>1, <3>2, IdleJobType DEF TypeOK
  <2>6. RootsKnown' BY <1>0, <2>1, <2>2, <2>3, <2>4, IdleJobType DEF TypeOK, RootsKnown, Known
  <2>7. QED BY <2>5, <2>6 DEF TypeInv
<1>6. ASSUME NEW k \in Keys, BuildRefuses(g, k) PROVE TypeInv'
  <2>1. job[g] \in Job /\ job[g].objects \in Rows BY <1>0 DEF TypeOK, Job
  <2>2. \A j \in Present(job[g].objects) : clearOf(job[g].objects[j]) \subseteq Refs
    BY <2>1, ChainAssumption DEF Present, Rows, clearOf
  <2>3. exposed' \subseteq Refs BY <1>0, <1>6, <2>2 DEF BuildRefuses, Shown, TypeOK
  <2>4. TypeOK' BY <1>0, <1>6, <2>3, IdleJobType DEF BuildRefuses, TypeOK
  <2>5. RootsKnown' BY <1>0, <1>6, IdleJobType DEF BuildRefuses, TypeOK, RootsKnown, Known
  <2>6. QED BY <2>4, <2>5 DEF TypeInv
<1>7. CASE Tick(g)
  <2>1. TypeOK' BY <1>0, <1>7 DEF Tick, TypeOK
  <2>2. RootsKnown' BY <1>0, <1>7 DEF Tick, RootsKnown, Known
  <2>3. QED BY <2>1, <2>2 DEF TypeInv
<1>8. ASSUME NEW who \in Labels \cup {Loop}, LockCommit(g, who) PROVE TypeInv'
  <2>1. [IdleJob EXCEPT !.pc = "locked", !.who = who] \in Job BY IdleJobType DEF Job
  <2>2. TypeOK' BY <1>0, <1>8, <2>1 DEF LockCommit, TypeOK
  <2>3. RootsKnown' BY <1>0, <1>8, IdleJobType DEF LockCommit, TypeOK, RootsKnown, Known, Job
  <2>4. QED BY <2>2, <2>3 DEF TypeInv
<1>9. QED BY <1>1, <1>2, <1>3, <1>4, <1>5, <1>6, <1>7, <1>8 DEF CommitStep

\* Failures and restarts.
LEMMA FaultTypeInv ==
  ASSUME TypeInv, NEW g \in Gateways, Fault(g)
  PROVE  TypeInv'
<1> USE DEF storeVars, swarmVars, loopVars, reqVars
<1>0. TypeOK /\ RootsKnown BY DEF TypeInv
<1>1. CASE CommitFails(g)
  <2>1. TypeOK' BY <1>0, <1>1, IdleJobType, SpentType DEF CommitFails, TypeOK
  <2>2. RootsKnown' BY <1>0, <1>1, IdleJobType DEF CommitFails, TypeOK, RootsKnown, Known
  <2>3. QED BY <2>1, <2>2 DEF TypeInv
<1>2. CASE Restart(g)
  <2>1. NotClearing \in ClearRequest BY DEF NotClearing, ClearRequest
  <2>2. TypeOK' BY <1>0, <1>2, <2>1, IdleJobType, SpentType DEF Restart, TypeOK
  <2>3. RootsKnown' BY <1>0, <1>2, IdleJobType DEF Restart, TypeOK, RootsKnown, Known
  <2>4. QED BY <2>2, <2>3 DEF TypeInv
<1>3. ASSUME NEW n \in 0..NKeys, BuildFails(g, n) PROVE TypeInv'
  <2>1. job[g] \in Job /\ job[g].objects \in Rows BY <1>0 DEF TypeOK, Job
  <2>2. \A j \in Present(job[g].objects) : clearOf(job[g].objects[j]) \subseteq Refs
    BY <2>1, ChainAssumption DEF Present, Rows, clearOf
  <2>3. exposed' \subseteq Refs BY <1>0, <1>3, <2>2 DEF BuildFails, Shown, TypeOK
  <2>4. TypeOK' BY <1>0, <1>3, <2>3, IdleJobType, SpentType DEF BuildFails, TypeOK
  <2>5. RootsKnown' BY <1>0, <1>3, IdleJobType DEF BuildFails, TypeOK, RootsKnown, Known
  <2>6. QED BY <2>4, <2>5 DEF TypeInv
<1>4. QED BY <1>1, <1>2, <1>3 DEF Fault

\* Every step.
LEMMA NextTypeInv == TypeInv /\ [Next]_vars => TypeInv'
<1> SUFFICES ASSUME TypeInv, [Next]_vars PROVE TypeInv' OBVIOUS
<1> USE DEF storeVars, swarmVars, loopVars, reqVars
<1>0. TypeOK /\ RootsKnown BY DEF TypeInv
<1>1. ASSUME NEW act \in BOOLEAN, NEW rec \in Recipients \cup {NoRecipient}, CreateBucket(act, rec)
      PROVE  TypeInv'
  <2>1. bucket' \in Row /\ bucket'.head = 0 BY <1>1 DEF CreateBucket, NoBucket, Row
  <2>2. TypeOK' BY <1>0, <1>1, <2>1 DEF CreateBucket, TypeOK
  <2>3. RootsKnown' BY <1>0, <1>1, <2>1 DEF CreateBucket, RootsKnown, Known
  <2>4. QED BY <2>2, <2>3 DEF TypeInv
<1>2. CASE DeleteBucket
  <2>1. bucket' \in Row /\ bucket'.head = 0 BY <1>2 DEF DeleteBucket, NoBucket, Row
  <2>2. snaps' \in [Labels -> Nat] BY <1>0, <1>2 DEF DeleteBucket, TypeOK
  <2>3. TypeOK' BY <1>0, <1>2, <2>1, <2>2, SpentType DEF DeleteBucket, TypeOK
  <2>4. RootsKnown' BY <1>0, <1>2, <2>1 DEF DeleteBucket, RootsKnown, Known
  <2>5. QED BY <2>3, <2>4 DEF TypeInv
<1>3. ASSUME NEW w \in Writers, Notify(w) PROVE TypeInv'
  <2>1. writer[w] \in Gateways BY <1>0, <1>3 DEF Notify, TypeOK
  <2>2. TypeOK' BY <1>0, <1>3, <2>1 DEF Notify, TypeOK
  <2>3. RootsKnown' BY <1>0, <1>3 DEF Notify, RootsKnown, Known
  <2>4. QED BY <2>2, <2>3 DEF TypeInv
<1>4. ASSUME NEW q \in pending, PutSnapshot(q) PROVE TypeInv'
  <2>1. q.label \in Labels /\ q.root \in Nat /\ q.root \in Known
    BY <1>0 DEF TypeOK, RootsKnown, SnapshotRequest
  <2>2. snaps' \in [Labels -> Nat] BY <1>0, <1>4, <2>1 DEF PutSnapshot, TypeOK
  <2>3. TypeOK' BY <1>0, <1>4, <2>2 DEF PutSnapshot, TypeOK
  <2>4. RootsKnown' BY <1>0, <1>4, <2>1 DEF PutSnapshot, TypeOK, RootsKnown, Known
  <2>5. QED BY <2>3, <2>4 DEF TypeInv
<1>5. ASSUME NEW q \in restoring, RestoreBucket(q) PROVE TypeInv'
  <2>1. q.objects \in Rows /\ q.root \in Nat /\ q.root \in Known
    BY <1>0 DEF TypeOK, RootsKnown, RestoreRequest
  <2>2. docs[q.root].seq \in Nat
    <3>1. docs[q.root] \in Commit BY <1>0, <2>1 DEF TypeOK, Known
    <3>2. QED BY <3>1 DEF Commit
  <2>3. index' \in Rows /\ bucket' \in Row /\ bucket'.head \in {bucket.head, q.root}
    BY <1>0, <1>5, <2>1, <2>2 DEF RestoreBucket, TypeOK, Row
  <2>4. restoring' \subseteq restoring
        /\ UNCHANGED <<snaps, swarmVars, loopVars, writer, pending, clearing, spent>>
    BY <1>5 DEF RestoreBucket
  <2>5. TypeOK' BY <1>0, <2>3, <2>4 DEF TypeOK
  <2>6. RootsKnown' BY <1>0, <2>1, <2>3, <2>4 DEF RootsKnown, Known
  <2>7. QED BY <2>5, <2>6 DEF TypeInv
<1>6. CASE UNCHANGED vars
  <2>1. TypeOK' BY <1>0, <1>6 DEF vars, TypeOK
  <2>2. RootsKnown' BY <1>0, <1>6 DEF vars, RootsKnown, Known
  <2>3. QED BY <2>1, <2>2 DEF TypeInv
<1>7. QED
  BY <1>1, <1>2, <1>3, <1>4, <1>5, <1>6, HandlerTypeInv, CommitTypeInv, FaultTypeInv DEF Next

\* The type invariant holds in every behaviour.
LEMMA TypeInvariant == Spec => []TypeInv
<1>1. Init => TypeInv BY InitTypeInv
<1>2. TypeInv /\ [Next]_vars => TypeInv' BY NextTypeInv
<1>3. QED BY <1>1, <1>2, PTL DEF Spec

\* Type correctness of the commit chain, whatever the number of gateways, keys, objects and
\* failures: in particular every row a restore puts back is a whole object (RestoreBucket).
THEOREM TypeCorrect == Spec => []TypeOK
<1>1. TypeInv => TypeOK BY DEF TypeInv
<1>2. QED BY <1>1, TypeInvariant, PTL

(***************************************************************************)
(* Keys stay sealed. Only the build steps upload anything.                 *)
(***************************************************************************)
\* A reference as Build shows it in a document carries no key.
LEMMA ShownHasNoKey ==
  ASSUME NEW g, NEW ks
  PROVE  Shown(g, ks) \cap KeyBearing = {}
BY DEF Shown, clearOf

\* Every step keeps key-bearing references out of the documents.
LEMMA NextKeysAreSealed == TypeInv /\ KeysAreSealed /\ [Next]_vars => KeysAreSealed'
<1> SUFFICES ASSUME TypeInv, KeysAreSealed, [Next]_vars PROVE KeysAreSealed' OBVIOUS
<1> USE DEF storeVars, swarmVars, loopVars, reqVars
<1>1. ASSUME NEW g \in Gateways, Build(g) PROVE KeysAreSealed'
  <2> DEFINE d == [seq |-> job[g].seq, parent |-> job[g].parent, rec |-> job[g].rec,
                   objects |-> seal(job[g].objects)]
  <2>1. job[g].objects \in Rows /\ docs \in Seq(Commit) BY DEF TypeInv, TypeOK, Job
  <2>2. docs' = Append(docs, d) BY <1>1 DEF Build
  <2>3. ASSUME NEW k \in Keys, d.objects[k] # Absent
        PROVE  /\ d.objects[k].clear \cap KeyBearing = {}
               /\ d.objects[k].sealed # {} => d.rec # NoRecipient
    <3>1. /\ job[g].objects[k] # Absent
          /\ d.objects[k] = [clear |-> clearOf(job[g].objects[k]), sealed |-> sealedOf(job[g].objects[k])]
      BY <2>3 DEF seal
    <3>2. d.objects[k].sealed # {} => HasKeyBearingRefs(job[g].objects[k])
      BY <3>1 DEF sealedOf, HasKeyBearingRefs
    <3>3. d.objects[k].sealed # {} => d.rec # NoRecipient BY <1>1, <3>2 DEF Build, Refused
    <3>4. QED BY <3>1, <3>3 DEF clearOf
  <2> HIDE DEF d
  <2>4. \A r \in DOMAIN docs' : (r \in DOMAIN docs /\ docs'[r] = docs[r]) \/ docs'[r] = d
    BY <2>1, <2>2
  <2>5. exposed' \cap KeyBearing = {} BY <1>1, ShownHasNoKey DEF Build, KeysAreSealed
  <2>6. QED BY <2>3, <2>4, <2>5 DEF KeysAreSealed
<1>2. ASSUME NEW g \in Gateways, NEW k \in Keys, BuildRefuses(g, k) PROVE KeysAreSealed'
  BY <1>2, ShownHasNoKey DEF BuildRefuses, KeysAreSealed
<1>3. ASSUME NEW g \in Gateways, NEW n \in 0..NKeys, BuildFails(g, n) PROVE KeysAreSealed'
  BY <1>3, ShownHasNoKey DEF BuildFails, KeysAreSealed
<1>4. ASSUME UNCHANGED <<docs, exposed>> PROVE KeysAreSealed'
  BY <1>4 DEF KeysAreSealed
<1>5. ASSUME NEW g \in Gateways, Handler(g) PROVE UNCHANGED <<docs, exposed>>
  BY <1>5 DEF Handler, WriteObject, SetRecipient, ClearBegin, ClearCheck, ClearRecipient, BeginRestore
<1>6. QED
  BY <1>1, <1>2, <1>3, <1>4, <1>5 DEF Next, vars, CreateBucket, DeleteBucket, Notify, PutSnapshot,
     RestoreBucket, CommitStep, Fault, ReadBucket, ListPage, SetBucketHead, FinishCommit, Tick,
     LockCommit, CommitFails, Restart

\* No key-bearing reference is ever published in the clear or sealed to nobody by Build, for
\* any number of gateways, however writes, recipient changes, failures and restarts interleave.
THEOREM KeysStaySealed == Spec => []KeysAreSealed
<1>1. Init => KeysAreSealed BY DEF Init, KeysAreSealed
<1>2. TypeInv /\ KeysAreSealed /\ [Next]_vars => KeysAreSealed' BY NextKeysAreSealed
<1>3. QED BY <1>1, <1>2, TypeInvariant, PTL DEF Spec

(***************************************************************************)
(* The chain is well formed: what a commit in flight holds is consistent   *)
(* with the documents already on Swarm.                                    *)
(***************************************************************************)
JobSound(j) ==
  /\ j.pc \in {"listing", "building"} => j.parent \in 0..Len(docs) /\ j.seq = SeqOf(j.parent) + 1
  /\ j.pc \in {"advancing", "publishing"} => j.seq = SeqOf(j.root)

ChainInv == ChainWellFormed /\ \A g \in Gateways : JobSound(job[g])

\* The two handlers that change the recipient.
SetRecipientOrClear(g) ==
  \/ \E w \in Writers, rec \in Recipients : SetRecipient(w, g, rec)
  \/ ClearRecipient(g)

\* Steps that add no document, leave the head alone, and only end or start commits.
LEMMA ChainFrame ==
  ASSUME ChainInv, docs' = docs, bucket'.head = bucket.head, bucket'.seq = bucket.seq,
         \A g \in Gateways : job'[g] = job[g] \/ job'[g].pc \in {"idle", "locked"}
  PROVE  ChainInv'
<1>1. ChainWellFormed' BY DEF ChainInv, ChainWellFormed, SeqOf
<1>2. \A g \in Gateways : JobSound(job[g])' BY DEF ChainInv, JobSound, SeqOf
<1>3. QED BY <1>1, <1>2 DEF ChainInv

\* Every step keeps the chain and the commits in flight well formed.
LEMMA NextChainInv == TypeInv /\ ChainInv /\ [Next]_vars => ChainInv'
<1> SUFFICES ASSUME TypeInv, ChainInv, [Next]_vars PROVE ChainInv' OBVIOUS
<1> USE DEF storeVars, swarmVars, loopVars, reqVars
<1>0. TypeOK /\ RootsKnown /\ Len(docs) \in Nat BY DEF TypeInv, TypeOK
<1>1. ASSUME NEW act \in BOOLEAN, NEW rec \in Recipients \cup {NoRecipient}, CreateBucket(act, rec)
      PROVE  ChainInv'
  <2>1. bucket'.head = 0 /\ bucket'.seq = 0 BY <1>1 DEF CreateBucket, NoBucket
  <2>2. ChainWellFormed' BY <1>0, <1>1, <2>1 DEF CreateBucket, ChainInv, ChainWellFormed, SeqOf
  <2>3. \A g \in Gateways : JobSound(job[g])' BY <1>1 DEF CreateBucket, ChainInv, JobSound, SeqOf
  <2>4. QED BY <2>2, <2>3 DEF ChainInv
<1>2. CASE DeleteBucket
  <2>1. bucket'.head = 0 /\ bucket'.seq = 0 BY <1>2 DEF DeleteBucket, NoBucket
  <2>2. ChainWellFormed' BY <1>0, <1>2, <2>1 DEF DeleteBucket, ChainInv, ChainWellFormed, SeqOf
  <2>3. \A g \in Gateways : JobSound(job[g])' BY <1>2 DEF DeleteBucket, ChainInv, JobSound, SeqOf
  <2>4. QED BY <2>2, <2>3 DEF ChainInv
<1>3. ASSUME NEW q \in restoring, RestoreBucket(q) PROVE ChainInv'
  <2>1. q.root \in 1..Len(docs) /\ bucket \in Row BY <1>0 DEF RootsKnown, Known, TypeOK
  <2>2. docs' = docs /\ job' = job BY <1>3 DEF RestoreBucket
  <2>3. \/ bucket'.head = bucket.head /\ bucket'.seq = bucket.seq
        \/ bucket'.head = q.root /\ bucket'.seq = docs[q.root].seq
    BY <1>3, <2>1 DEF RestoreBucket, Row
  <2>4. ChainWellFormed' BY <1>0, <2>1, <2>2, <2>3 DEF ChainInv, ChainWellFormed, SeqOf
  <2>5. \A g \in Gateways : JobSound(job[g])' BY <2>2 DEF ChainInv, JobSound, SeqOf
  <2>6. QED BY <2>4, <2>5 DEF ChainInv
<1>4. ASSUME NEW g \in Gateways, ReadBucket(g) PROVE ChainInv'
  <2>1. docs' = docs /\ bucket' = bucket /\ \A h \in Gateways \ {g} : job'[h] = job[h]
    BY <1>0, <1>4 DEF ReadBucket, TypeOK
  <2>2. \/ job'[g].pc = "idle"
        \/ job'[g].pc = "listing" /\ job'[g].parent = bucket.head /\ job'[g].seq = bucket.seq + 1
    BY <1>0, <1>4, IdleJobType DEF ReadBucket, TypeOK, Job
  <2>3. ChainWellFormed' BY <2>1 DEF ChainInv, ChainWellFormed, SeqOf
  <2>4. JobSound(job[g])' BY <1>0, <2>1, <2>2 DEF ChainInv, ChainWellFormed, JobSound, SeqOf
  <2>5. \A h \in Gateways \ {g} : JobSound(job[h])' BY <2>1 DEF ChainInv, JobSound, SeqOf
  <2>6. QED BY <2>3, <2>4, <2>5 DEF ChainInv
<1>5. ASSUME NEW g \in Gateways, ListPage(g) PROVE ChainInv'
  <2>1. docs' = docs /\ bucket' = bucket /\ \A h \in Gateways \ {g} : job'[h] = job[h]
    BY <1>0, <1>5 DEF ListPage, TypeOK
  <2>2. \/ job'[g].pc = "idle"
        \/ /\ job[g].pc = "listing" /\ job'[g].pc \in {"listing", "building"}
           /\ job'[g].parent = job[g].parent /\ job'[g].seq = job[g].seq
    BY <1>0, <1>5, IdleJobType DEF ListPage, TypeOK, Job
  <2>3. ChainWellFormed' BY <2>1 DEF ChainInv, ChainWellFormed, SeqOf
  <2>4. JobSound(job[g])' BY <2>1, <2>2 DEF ChainInv, JobSound, SeqOf
  <2>5. \A h \in Gateways \ {g} : JobSound(job[h])' BY <2>1 DEF ChainInv, JobSound, SeqOf
  <2>6. QED BY <2>3, <2>4, <2>5 DEF ChainInv
<1>6. ASSUME NEW g \in Gateways, Build(g) PROVE ChainInv'
  <2> DEFINE d == [seq |-> job[g].seq, parent |-> job[g].parent, rec |-> job[g].rec,
                   objects |-> seal(job[g].objects)]
             n == Len(docs)
  <2>1. docs' = Append(docs, d) /\ bucket' = bucket BY <1>6 DEF Build
  <2>2. Len(docs') = n + 1 /\ docs'[n + 1] = d /\ \A r \in 1..n : docs'[r] = docs[r]
    BY <1>0, <2>1 DEF TypeOK
  <2>3. d.seq = job[g].seq /\ d.parent = job[g].parent OBVIOUS
  <2>4. job[g].parent \in 0..n /\ job[g].seq = SeqOf(job[g].parent) + 1
    BY <1>6 DEF Build, ChainInv, JobSound
  <2> HIDE DEF d
  <2> DEFINE seqOf(r) == IF r = 0 THEN 0 ELSE docs'[r].seq
  <2>5. \A r \in 0..n : seqOf(r) = SeqOf(r) BY <1>0, <2>2 DEF SeqOf
  <2>6. ChainWellFormed'
    <3>1. \A r \in 1..n : docs'[r].parent \in 0..(r - 1) /\ docs'[r].seq = seqOf(docs'[r].parent) + 1
      <4> SUFFICES ASSUME NEW r \in 1..n
                   PROVE  docs'[r].parent \in 0..(r - 1) /\ docs'[r].seq = seqOf(docs'[r].parent) + 1
        OBVIOUS
      <4>1. docs[r].parent \in 0..(r - 1) /\ docs[r].seq = SeqOf(docs[r].parent) + 1
        BY <1>0 DEF ChainInv, ChainWellFormed, TypeOK
      <4>2. docs[r].parent \in 0..n BY <1>0, <4>1
      <4>3. seqOf(docs[r].parent) = SeqOf(docs[r].parent) BY <2>5, <4>2
      <4>4. QED BY <2>2, <4>1, <4>3
    <3>2. docs'[n + 1].parent \in 0..n /\ docs'[n + 1].seq = seqOf(docs'[n + 1].parent) + 1
      <4>1. seqOf(job[g].parent) = SeqOf(job[g].parent) BY <2>4, <2>5
      <4>2. QED BY <2>2, <2>3, <2>4, <4>1
    <3>3. bucket'.head \in 0..(n + 1) /\ bucket'.seq = seqOf(bucket'.head)
      <4>1. bucket.head \in 0..n /\ bucket.seq = SeqOf(bucket.head) BY DEF ChainInv, ChainWellFormed
      <4>2. seqOf(bucket.head) = SeqOf(bucket.head) BY <2>5, <4>1
      <4>3. QED BY <1>0, <2>1, <4>1, <4>2
    <3>4. DOMAIN docs' = 1..(n + 1) BY <1>0, <2>1 DEF TypeOK
    <3>5. \A r \in 1..(n + 1) : r \in 1..n \/ r = n + 1 BY <1>0
    <3>6. \A r \in DOMAIN docs' : docs'[r].parent \in 0..(r - 1) /\ docs'[r].seq = seqOf(docs'[r].parent) + 1
      <4> SUFFICES ASSUME NEW r \in 1..(n + 1)
                   PROVE  docs'[r].parent \in 0..(r - 1) /\ docs'[r].seq = seqOf(docs'[r].parent) + 1
        BY <3>4
      <4>1. CASE r \in 1..n BY <3>1, <4>1
      <4>2. CASE r = n + 1
        <5>1. r - 1 = n BY <1>0, <4>2
        <5>2. QED BY <3>2, <4>2, <5>1
      <4>3. QED BY <3>5, <4>1, <4>2
    <3>7. QED BY <2>2, <3>3, <3>6 DEF ChainWellFormed, SeqOf
  <2>7. job'[g].pc = "advancing" /\ job'[g].seq = job[g].seq /\ job'[g].root = n + 1
        /\ \A h \in Gateways \ {g} : job'[h] = job[h]
    <3>1. job' = [job EXCEPT ![g] = [job[g] EXCEPT !.pc = "advancing", !.root = n + 1]]
      BY <1>0, <1>6 DEF Build, TypeOK
    <3>2. job[g] \in Job /\ job \in [Gateways -> Job] BY <1>0 DEF TypeOK
    <3> DEFINE j1 == [job[g] EXCEPT !.pc = "advancing", !.root = n + 1]
    <3>3. j1.pc = "advancing" /\ j1.seq = job[g].seq /\ j1.root = n + 1 BY <3>2 DEF Job
    <3> HIDE DEF j1
    <3>4. job'[g] = j1 /\ \A h \in Gateways \ {g} : job'[h] = job[h] BY <3>1, <3>2 DEF j1
    <3>5. QED BY <3>3, <3>4
  <2>8. JobSound(job[g])' BY <1>0, <2>2, <2>3, <2>7 DEF JobSound, SeqOf
  <2>9. ASSUME NEW h \in Gateways \ {g} PROVE JobSound(job[h])'
    <3>1. JobSound(job[h]) BY DEF ChainInv
    <3>2. job[h].pc \in {"advancing", "publishing"} => job[h].root \in 1..n
      BY <1>0 DEF RootsKnown, Known
    <3>3. QED BY <1>0, <2>2, <2>5, <2>7, <3>1, <3>2 DEF JobSound, SeqOf
  <2>10. QED BY <2>6, <2>8, <2>9 DEF ChainInv
<1>7. ASSUME NEW g \in Gateways, SetBucketHead(g) PROVE ChainInv'
  <2>1. docs' = docs /\ \A h \in Gateways \ {g} : job'[h] = job[h]
    BY <1>0, <1>7 DEF SetBucketHead, TypeOK
  <2>2. /\ job[g].pc = "advancing" /\ job[g] \in Job /\ bucket \in Row
        /\ job[g].root \in 1..Len(docs) /\ job[g].seq = docs[job[g].root].seq
    BY <1>0, <1>7 DEF SetBucketHead, TypeOK, RootsKnown, Known, ChainInv, JobSound, SeqOf
  <2>3. \/ bucket' = bucket /\ job'[g].pc = "idle"
        \/ /\ bucket'.head = job[g].root /\ bucket'.seq = job[g].seq
           /\ job'[g].pc = "publishing" /\ job'[g].root = job[g].root /\ job'[g].seq = job[g].seq
    <3>1. CASE bucket.exists
      <4>1. bucket'.head = job[g].root /\ bucket'.seq = job[g].seq
        BY <1>7, <2>2, <3>1 DEF SetBucketHead, Row
      <4>2. job' = [job EXCEPT ![g] = [job[g] EXCEPT !.pc = "publishing"]]
        BY <1>0, <1>7, <3>1 DEF SetBucketHead, TypeOK
      <4>3. job'[g] = [job[g] EXCEPT !.pc = "publishing"] BY <1>0, <4>2 DEF TypeOK
      <4>4. QED BY <2>2, <4>1, <4>3 DEF Job
    <3>2. CASE ~bucket.exists
      BY <1>0, <1>7, <3>2, IdleJobType DEF SetBucketHead, TypeOK
    <3>3. QED BY <3>1, <3>2
  <2>4. ChainWellFormed' BY <1>0, <2>1, <2>2, <2>3 DEF ChainInv, ChainWellFormed, SeqOf
  <2>5. JobSound(job[g])' BY <2>1, <2>2, <2>3 DEF JobSound, SeqOf
  <2>6. \A h \in Gateways \ {g} : JobSound(job[h])' BY <2>1 DEF ChainInv, JobSound, SeqOf
  <2>7. QED BY <2>4, <2>5, <2>6 DEF ChainInv
<1>8. ASSUME NEW g \in Gateways, SetRecipientOrClear(g) PROVE ChainInv'
  <2>1. bucket'.head = bucket.head /\ bucket'.seq = bucket.seq /\ docs' = docs /\ job' = job
    BY <1>0, <1>8 DEF SetRecipientOrClear, SetRecipient, ClearRecipient, TypeOK, Row
  <2>2. QED BY <2>1, ChainFrame
<1>9. ASSUME UNCHANGED <<docs, bucket>>,
             \A g \in Gateways : job'[g] = job[g] \/ job'[g].pc \in {"idle", "locked"}
      PROVE  ChainInv'
  BY <1>9, ChainFrame
<1>10. ASSUME NEW g \in Gateways, Handler(g) PROVE ChainInv'
  BY <1>8, <1>9, <1>10 DEF Handler, SetRecipientOrClear, WriteObject, ClearBegin, ClearCheck, BeginRestore
<1>11. ASSUME NEW g \in Gateways, Fault(g) PROVE ChainInv'
  BY <1>0, <1>9, <1>11, IdleJobType DEF Fault, CommitFails, Restart, BuildFails, TypeOK
<1>12. ASSUME NEW g \in Gateways, CommitStep(g) PROVE ChainInv'
  <2>1. CASE FinishCommit(g) BY <1>0, <1>9, <2>1, IdleJobType DEF FinishCommit, TypeOK
  <2>2. ASSUME NEW k \in Keys, BuildRefuses(g, k) PROVE ChainInv'
    BY <1>0, <1>9, <2>2, IdleJobType DEF BuildRefuses, TypeOK
  <2>3. QED BY <1>4, <1>5, <1>6, <1>7, <1>12, <2>1, <2>2 DEF CommitStep
<1>13. ASSUME NEW g \in Gateways, NEW who \in Labels \cup {Loop}, LockCommit(g, who) PROVE ChainInv'
  BY <1>0, <1>9, <1>13, IdleJobType DEF LockCommit, TypeOK, Job
<1>14. QED
  BY <1>1, <1>2, <1>3, <1>9, <1>10, <1>11, <1>12, <1>13
  DEF Next, vars, Notify, PutSnapshot, Tick

\* Sequence numbers and parents of every document on Swarm and of the head form one chain, across
\* concurrent gateways, failed commits, restores (SetBucketHead, RestoreBucket) and re-creation.
THEOREM ChainStaysWellFormed == Spec => []ChainWellFormed
<1>1. Init => ChainInv
  BY IdleJobType DEF Init, ChainInv, ChainWellFormed, JobSound, SeqOf, NoBucket
<1>2. TypeInv /\ ChainInv /\ [Next]_vars => ChainInv' BY NextChainInv
<1>3. ChainInv => ChainWellFormed BY DEF ChainInv
<1>4. QED BY <1>1, <1>2, <1>3, TypeInvariant, PTL DEF Spec

(***************************************************************************)
(* A bucket at rest is a committed bucket, with one gateway that neither   *)
(* fails nor restarts and no restores: each of these is needed, as the     *)
(* README's disagreements between code and documentation tell.             *)
(***************************************************************************)
\* The conditions. Buckets may be deleted and created again under a running commit.
Calm ==
  /\ \E g \in Gateways : Gateways = {g}
  /\ MaxFaults = 0 /\ MaxStops = 0 /\ MaxRestores = 0

\* A commit is owed: the bucket is marked or due, or a handler has yet to notify.
Owed(g) == dirty[g] \/ due[g] \/ \E w \in Writers : writer[w] # Idle

NeedsSealing == \E k \in Keys : HasKeyBearingRefs(index[k])

\* Past the cursor nothing has been read; up to it what was read is what is there.
ListingInv(g) ==
  /\ \A k \in Keys : k > job[g].after => job[g].objects[k] = Absent
  /\ Owed(g) \/ \A k \in Keys : k <= job[g].after => job[g].objects[k] = index[k]

\* A commit that will be refused is one that would be refused now.
RecipientInv(g) ==
  job[g].rec = NoRecipient /\ NeedsSealing => bucket.rec = NoRecipient \/ Owed(g)

\* Where each stage of CommitNow stands.
StageInv(g) ==
  /\ job[g].pc = "locked" => job[g].objects = NoObjects /\ job[g].after = 0
  /\ job[g].pc = "listing" => ListingInv(g) /\ RecipientInv(g)
  /\ job[g].pc = "building" => (Owed(g) \/ job[g].objects = index) /\ RecipientInv(g)
  /\ job[g].pc = "advancing" => Owed(g) \/ ContentOf(job[g].root) = index
  /\ job[g].pc \in {"idle", "publishing"} =>
       Owed(g) \/ Committed \/ Frozen \/ bucket.act \/ ~bucket.exists

QuietInv ==
  /\ ~bucket.exists => bucket = NoBucket /\ index = NoObjects
  /\ restoring = {}
  /\ \A g \in Gateways : StageInv(g)

(***************************************************************************)
(* Operators.                                                              *)
(***************************************************************************)
\* What seal splits of a row, its own recipient puts together.
LEMMA SealOpens ==
  ASSUME NEW rows \in Rows, NEW d, d.objects = seal(rows)
  PROVE  GetCommit(d, d.rec) = rows
<1> SUFFICES ASSUME NEW k \in Keys PROVE open(d.objects[k], d.rec, d.rec) = rows[k]
  BY DEF GetCommit, Rows
<1>1. CASE rows[k] = Absent BY <1>1 DEF seal, open
<1>2. CASE rows[k] # Absent
  <2>1. rows[k] \in SUBSET Refs BY <1>2, ChainAssumption DEF Rows
  <2> DEFINE w == [clear |-> clearOf(rows[k]), sealed |-> sealedOf(rows[k])]
  <2>2. d.objects[k] = w BY <1>2 DEF seal
  <2>3. w # Absent
    <3>1. clearOf(rows[k]) \in SUBSET Refs /\ sealedOf(rows[k]) \in SUBSET Refs
      BY <2>1 DEF clearOf, sealedOf
    <3>2. QED BY <3>1, ChainAssumption
  <2>4. w.clear \cup w.sealed = rows[k] BY DEF clearOf, sealedOf
  <2> HIDE DEF w
  <2>5. QED BY <2>2, <2>3, <2>4 DEF open
<1>3. QED BY <1>1, <1>2

\* After a full page every key up to its last one is either on the page, before the cursor, or
\* not present; after a page that is not full there is nothing past the cursor but the page.
LEMMA PageCovers ==
  ASSUME NEW after \in Nat, index \in Rows
  PROVE  LET page == ListObjects(after)
         IN  /\ \A k \in page : k > after
             /\ page \subseteq Keys
             /\ Cardinality(page) < PageSize =>
                  \A k \in Keys : k > after /\ k \notin page => index[k] = Absent
             /\ ~(Cardinality(page) < PageSize) =>
                  /\ LastOf(page) \in Keys /\ LastOf(page) > after
                  /\ \A k \in page : k <= LastOf(page)
                  /\ \A k \in Keys : k > after /\ k <= LastOf(page) /\ k \notin page => index[k] = Absent
<1> DEFINE page == ListObjects(after)
           rest == {k \in Present(index) : k > after}
<1>1. /\ page \subseteq rest /\ page \subseteq Keys
      /\ \A k \in page, j \in rest : j <= k => j \in page
      /\ Cardinality(page) < PageSize => page = rest
      /\ ~(Cardinality(page) < PageSize) => page # {}
  BY PageFacts
<1>2. \A k \in Keys : k > after /\ index[k] # Absent => k \in rest BY DEF Present
<1> HIDE DEF page
<1>3. \A k \in page : k > after BY <1>1
<1>4. Cardinality(page) < PageSize =>
        \A k \in Keys : k > after /\ k \notin page => index[k] = Absent
  BY <1>1, <1>2
<1>5. ASSUME ~(Cardinality(page) < PageSize)
      PROVE  /\ LastOf(page) \in Keys /\ LastOf(page) > after
             /\ \A k \in page : k <= LastOf(page)
             /\ \A k \in Keys : k > after /\ k <= LastOf(page) /\ k \notin page => index[k] = Absent
  <2>1. LastOf(page) \in page /\ \A k \in page : k <= LastOf(page) BY <1>1, <1>5, LastOfPage
  <2>2. QED BY <1>1, <1>2, <1>3, <2>1
<1>6. QED BY <1>1, <1>3, <1>4, <1>5 DEF page

(***************************************************************************)
(* Steps that leave the commit alone.                                      *)
(***************************************************************************)
\* Once a commit is owed, nothing a handler changed can be missed.
LEMMA OwedFrame ==
  ASSUME NEW g \in Gateways, StageInv(g), Owed(g)', job'[g] = job[g]
  PROVE  StageInv(g)'
BY DEF StageInv, ListingInv, RecipientInv, NoObjects

\* Steps that change nothing StageInv speaks of.
LEMMA IdleFrame ==
  ASSUME NEW g \in Gateways, StageInv(g), job'[g] = job[g], docs' = docs, index' = index,
         bucket' = bucket, dirty' = dirty, due' = due, writer' = writer
  PROVE  StageInv(g)'
<1>1. Owed(g)' = Owed(g) BY DEF Owed
<1>2. Committed' = Committed /\ Frozen' = Frozen /\ NeedsSealing' = NeedsSealing
  BY DEF Committed, Frozen, NeedsSealing, ContentOf
<1>3. ContentOf(job[g].root)' = ContentOf(job[g].root) BY DEF ContentOf
<1>4. QED BY <1>1, <1>2, <1>3 DEF StageInv, ListingInv, RecipientInv, NoObjects

(***************************************************************************)
(* The steps of a commit.                                                  *)
(***************************************************************************)
\* Reading the bucket row keeps the quiet invariant.
LEMMA ReadBucketQuiet ==
  ASSUME TypeInv, QuietInv, NEW g \in Gateways, ReadBucket(g)
  PROVE  StageInv(g)'
<1> USE DEF storeVars, swarmVars, loopVars, reqVars
<1>0. job \in [Gateways -> Job] /\ job[g] \in Job /\ StageInv(g) BY DEF TypeInv, TypeOK, QuietInv
<1>1. UNCHANGED <<bucket, index, docs, dirty, due, writer>> BY DEF ReadBucket
<1>2. CASE ~bucket.exists \/ bucket.act
  <2>1. job'[g].pc = "idle" BY <1>0, <1>2, IdleJobType DEF ReadBucket
  <2>2. QED BY <1>1, <1>2, <2>1 DEF StageInv
<1>3. CASE ~(~bucket.exists \/ bucket.act)
  <2> DEFINE j == [job[g] EXCEPT !.pc = "listing", !.rec = bucket.rec,
                                 !.parent = bucket.head, !.seq = bucket.seq + 1]
  <2>1. job'[g] = j BY <1>0, <1>3 DEF ReadBucket
  <2>2. j.pc = "listing" /\ j.rec = bucket.rec /\ j.after = job[g].after /\ j.objects = job[g].objects
    BY <1>0 DEF Job
  <2> HIDE DEF j
  <2>3. job'[g].objects = NoObjects /\ job'[g].after = 0
    BY <1>0, <2>1, <2>2 DEF ReadBucket, StageInv
  <2>4. ListingInv(g)'
    <3>1. \A k \in Keys : ~(k <= 0) BY DEF Keys
    <3>2. QED BY <2>3, <3>1 DEF ListingInv, NoObjects
  <2>5. RecipientInv(g)' BY <1>1, <2>1, <2>2 DEF RecipientInv
  <2>6. QED BY <2>1, <2>2, <2>4, <2>5 DEF StageInv
<1>4. QED BY <1>2, <1>3

\* Reading a page of keys keeps the quiet invariant.
LEMMA ListPageQuiet ==
  ASSUME TypeInv, QuietInv, NEW g \in Gateways, ListPage(g)
  PROVE  StageInv(g)'
<1> USE DEF storeVars, swarmVars, loopVars, reqVars
<1> DEFINE after == job[g].after
           page == ListObjects(after)
           got  == [k \in Keys |-> IF k \in page THEN index[k] ELSE job[g].objects[k]]
<1>0. /\ job \in [Gateways -> Job] /\ job[g] \in Job /\ after \in Nat
      /\ index \in Rows /\ job[g].objects \in Rows
  BY DEF TypeInv, TypeOK, Job
<1>1. UNCHANGED <<bucket, index, docs, dirty, due, writer>> /\ job[g].pc = "listing"
  BY DEF ListPage
<1>2. ListingInv(g) /\ RecipientInv(g) BY <1>1 DEF QuietInv, StageInv
<1>3. Owed(g)' = Owed(g) BY <1>1 DEF Owed
<1>4. /\ \A k \in page : k > after
      /\ page \subseteq Keys
      /\ Cardinality(page) < PageSize =>
           \A k \in Keys : k > after /\ k \notin page => index[k] = Absent
      /\ ~(Cardinality(page) < PageSize) =>
           /\ LastOf(page) \in Keys /\ LastOf(page) > after
           /\ \A k \in page : k <= LastOf(page)
           /\ \A k \in Keys : k > after /\ k <= LastOf(page) /\ k \notin page => index[k] = Absent
  BY <1>0, PageCovers
<1> HIDE DEF page
<1>5. CASE ~bucket.exists
  <2>1. job'[g].pc = "idle" BY <1>0, <1>5, IdleJobType DEF ListPage
  <2>2. QED BY <1>1, <1>5, <2>1 DEF StageInv
<1>6. CASE bucket.exists /\ Cardinality(page) < PageSize
  <2>1. job'[g] = [job[g] EXCEPT !.pc = "building", !.objects = got, !.after = 0]
    BY <1>0, <1>6 DEF ListPage, page
  <2>2. job'[g].pc = "building" /\ job'[g].objects = got /\ job'[g].rec = job[g].rec
    BY <1>0, <2>1 DEF Job
  <2>3. Owed(g) \/ got = index
    <3> SUFFICES ASSUME ~Owed(g), NEW k \in Keys PROVE got[k] = index[k] BY <1>0 DEF Rows
    <3>1. CASE k \in page BY <3>1
    <3>2. CASE k \notin page /\ k > after BY <1>2, <1>4, <1>6, <3>2 DEF ListingInv
    <3>3. CASE k \notin page /\ ~(k > after)
      <4>1. k <= after BY <1>0, <3>3 DEF Keys
      <4>2. QED BY <1>2, <3>3, <4>1 DEF ListingInv
    <3>4. QED BY <3>1, <3>2, <3>3
  <2>4. RecipientInv(g)' BY <1>1, <1>2, <1>3, <2>2 DEF RecipientInv, NeedsSealing
  <2>5. QED BY <1>1, <1>3, <2>2, <2>3, <2>4 DEF StageInv
<1>7. CASE bucket.exists /\ ~(Cardinality(page) < PageSize)
  <2>1. job'[g] = [job[g] EXCEPT !.objects = got, !.after = LastOf(page)]
    BY <1>0, <1>7 DEF ListPage, page
  <2>2. /\ job'[g].pc = "listing" /\ job'[g].objects = got /\ job'[g].rec = job[g].rec
        /\ job'[g].after = LastOf(page)
    BY <1>0, <1>1, <2>1 DEF Job
  <2>3. ASSUME NEW k \in Keys, k > LastOf(page) PROVE got[k] = Absent
    <3>1. k > after /\ k \notin page BY <1>0, <1>4, <1>7, <2>3 DEF Keys
    <3>2. QED BY <1>2, <3>1 DEF ListingInv
  <2>4. ASSUME ~Owed(g), NEW k \in Keys, k <= LastOf(page) PROVE got[k] = index[k]
    <3>1. CASE k \in page BY <3>1
    <3>2. CASE k \notin page /\ k > after BY <1>2, <1>4, <1>7, <2>4, <3>2 DEF ListingInv
    <3>3. CASE k \notin page /\ ~(k > after)
      <4>1. k <= after BY <1>0, <3>3 DEF Keys
      <4>2. QED BY <1>2, <2>4, <3>3, <4>1 DEF ListingInv
    <3>4. QED BY <3>1, <3>2, <3>3
  <2> HIDE DEF got
  <2>5. ListingInv(g)' BY <1>1, <1>3, <2>2, <2>3, <2>4 DEF ListingInv
  <2>6. RecipientInv(g)' BY <1>1, <1>2, <1>3, <2>2 DEF RecipientInv, NeedsSealing
  <2>7. QED BY <2>2, <2>5, <2>6 DEF StageInv
<1>8. QED BY <1>5, <1>6, <1>7

\* Uploading the document keeps the quiet invariant.
LEMMA BuildQuiet ==
  ASSUME TypeInv, QuietInv, NEW g \in Gateways, Build(g)
  PROVE  StageInv(g)'
<1> USE DEF storeVars, swarmVars, loopVars, reqVars
<1> DEFINE n == Len(docs)
           d == [seq |-> job[g].seq, parent |-> job[g].parent, rec |-> job[g].rec,
                 objects |-> seal(job[g].objects)]
<1>0. /\ job \in [Gateways -> Job] /\ job[g] \in Job /\ job[g].objects \in Rows
      /\ docs \in Seq(Commit) /\ n \in Nat
  BY DEF TypeInv, TypeOK, Job
<1>1. UNCHANGED <<bucket, index, dirty, due, writer>> /\ job[g].pc = "building" BY DEF Build
<1>2. d \in Commit
  <2>1. seal(job[g].objects) \in [Keys -> WireObject] BY <1>0, SealType
  <2>2. QED BY <1>0, <2>1 DEF Commit, Job
<1>3. GetCommit(d, d.rec) = job[g].objects BY <1>0, <1>2, SealOpens
<1>4. docs' = Append(docs, d) BY DEF Build
<1> HIDE DEF d
<1>5. docs'[n + 1] = d BY <1>0, <1>2, <1>4
<1>6. job'[g] = [job[g] EXCEPT !.pc = "advancing", !.root = n + 1] BY <1>0 DEF Build
<1>7. job'[g].pc = "advancing" /\ job'[g].root = n + 1 BY <1>0, <1>6 DEF Job
<1>8. Owed(g) \/ ContentOf(job[g].root)' = index
  <2>1. n + 1 # 0 BY <1>0
  <2>2. ContentOf(job[g].root)' = GetCommit(d, d.rec) BY <1>5, <1>7, <2>1 DEF ContentOf, GetCommit
  <2>3. Owed(g) \/ job[g].objects = index BY <1>1 DEF QuietInv, StageInv
  <2>4. QED BY <1>3, <2>2, <2>3
<1>9. Owed(g)' = Owed(g) BY <1>1 DEF Owed
<1>10. QED BY <1>1, <1>7, <1>8, <1>9 DEF StageInv

\* The commit that is refused leaves a frozen bucket, not a forgotten one.
LEMMA RefusesQuiet ==
  ASSUME TypeInv, QuietInv, NEW g \in Gateways, NEW k \in Keys, BuildRefuses(g, k)
  PROVE  StageInv(g)'
<1> USE DEF storeVars, swarmVars, loopVars, reqVars
<1>1. UNCHANGED <<bucket, index, docs, dirty, due, writer>> /\ job[g].pc = "building"
  BY DEF BuildRefuses
<1>2. job'[g].pc = "idle" BY IdleJobType DEF BuildRefuses, TypeInv, TypeOK
<1>3. Owed(g) \/ Frozen
  <2> SUFFICES ASSUME ~Owed(g) PROVE Frozen OBVIOUS
  <2>1. job[g].objects = index /\ RecipientInv(g) BY <1>1 DEF QuietInv, StageInv
  <2>2. NeedsSealing /\ job[g].rec = NoRecipient BY <2>1 DEF BuildRefuses, NeedsSealing
  <2>3. QED BY <2>1, <2>2 DEF RecipientInv, Frozen, NeedsSealing
<1>4. Owed(g)' = Owed(g) /\ Frozen' = Frozen BY <1>1 DEF Owed, Frozen
<1>5. QED BY <1>2, <1>3, <1>4 DEF StageInv

\* Moving the head keeps the quiet invariant.
LEMMA SetBucketHeadQuiet ==
  ASSUME TypeInv, QuietInv, NEW g \in Gateways, SetBucketHead(g)
  PROVE  StageInv(g)'
<1> USE DEF storeVars, swarmVars, loopVars, reqVars
<1>0. job \in [Gateways -> Job] /\ job[g] \in Job /\ bucket \in Row BY DEF TypeInv, TypeOK
<1>1. UNCHANGED <<index, docs, dirty, due, writer>> /\ job[g].pc = "advancing" BY DEF SetBucketHead
<1>2. CASE ~bucket.exists
  <2>1. job'[g].pc = "idle" /\ bucket' = bucket BY <1>0, <1>2, IdleJobType DEF SetBucketHead
  <2>2. QED BY <1>2, <2>1 DEF StageInv
<1>3. CASE bucket.exists
  <2>1. bucket'.head = job[g].root BY <1>0, <1>3 DEF SetBucketHead, Row
  <2>2. job'[g] = [job[g] EXCEPT !.pc = "publishing"] BY <1>0, <1>3 DEF SetBucketHead
  <2>3. job'[g].pc = "publishing" BY <1>0, <2>2 DEF Job
  <2>4. Owed(g) \/ ContentOf(job[g].root) = index BY <1>1 DEF QuietInv, StageInv
  <2>5. Owed(g) \/ Committed' BY <1>1, <2>1, <2>4 DEF Committed, ContentOf
  <2>6. Owed(g)' = Owed(g) BY <1>1 DEF Owed
  <2>7. QED BY <2>3, <2>5, <2>6 DEF StageInv
<1>4. QED BY <1>2, <1>3

\* The end of a commit keeps the quiet invariant.
LEMMA FinishQuiet ==
  ASSUME TypeInv, QuietInv, NEW g \in Gateways, FinishCommit(g)
  PROVE  StageInv(g)'
<1> USE DEF storeVars, swarmVars, loopVars, reqVars
<1>1. UNCHANGED <<bucket, index, docs, dirty, due, writer>> /\ job[g].pc = "publishing"
  BY DEF FinishCommit
<1>2. job'[g].pc = "idle" BY IdleJobType DEF FinishCommit, TypeInv, TypeOK
<1>3. Owed(g) \/ Committed \/ Frozen \/ bucket.act \/ ~bucket.exists BY <1>1 DEF QuietInv, StageInv
<1>4. Owed(g)' = Owed(g) /\ Committed' = Committed /\ Frozen' = Frozen
  BY <1>1 DEF Owed, Committed, ContentOf, Frozen
<1>5. QED BY <1>1, <1>2, <1>3, <1>4 DEF StageInv

(***************************************************************************)
(* Every step, and the theorem.                                            *)
(***************************************************************************)
\* Every step of a calm gateway keeps the quiet invariant.
LEMMA NextQuietInv == Calm /\ TypeInv /\ QuietInv /\ [Next]_vars => QuietInv'
<1> SUFFICES ASSUME Calm, TypeInv, QuietInv, [Next]_vars PROVE QuietInv' OBVIOUS
<1> USE DEF storeVars, swarmVars, loopVars, reqVars
<1>0. PICK g \in Gateways : Gateways = {g} BY DEF Calm
<1>1. StageInv(g) /\ restoring = {} /\ TypeOK /\ spent \in Spent BY DEF QuietInv, TypeInv, TypeOK
<1>2. ASSUME StageInv(g)', restoring' = {}, bucket'.exists = bucket.exists,
             ~bucket.exists => bucket' = bucket /\ index' = index
      PROVE  QuietInv'
  BY <1>0, <1>2 DEF QuietInv, NoObjects, NoBucket
<1>3. ASSUME NEW act \in BOOLEAN, NEW rec \in Recipients \cup {NoRecipient}, CreateBucket(act, rec)
      PROVE  QuietInv'
  <2>1. /\ UNCHANGED <<index, docs, job, dirty, due, writer, restoring>>
        /\ index = NoObjects /\ bucket'.exists /\ bucket'.head = 0
    BY <1>3 DEF CreateBucket, QuietInv, NoBucket
  <2>2. Committed' BY <2>1 DEF Committed, ContentOf, NoObjects
  <2>3. ~NeedsSealing' BY <2>1 DEF NeedsSealing, HasKeyBearingRefs, NoObjects
  <2>4. Owed(g)' = Owed(g) /\ ContentOf(job[g].root)' = ContentOf(job[g].root)
    BY <2>1 DEF Owed, ContentOf
  <2>5. StageInv(g)'
    BY <1>1, <2>1, <2>2, <2>3, <2>4 DEF StageInv, ListingInv, RecipientInv, NoObjects
  <2>6. QED BY <1>0, <1>1, <2>1, <2>5 DEF QuietInv
<1>4. CASE DeleteBucket
  <2>1. /\ UNCHANGED <<index, docs, job, dirty, due, writer, restoring>>
        /\ Present(index) = {} /\ bucket' = NoBucket
    BY <1>4 DEF DeleteBucket
  <2>2. index = NoObjects
    <3>1. \A k \in Keys : index[k] = Absent BY <2>1 DEF Present
    <3>2. index \in Rows BY <1>1 DEF TypeOK
    <3>3. QED BY <3>1, <3>2 DEF Rows, NoObjects
  <2>3. ~bucket'.exists /\ bucket'.rec = NoRecipient BY <2>1 DEF NoBucket
  <2>4. Owed(g)' = Owed(g) /\ ContentOf(job[g].root)' = ContentOf(job[g].root)
    BY <2>1 DEF Owed, ContentOf
  <2>5. StageInv(g)'
    BY <1>1, <2>1, <2>3, <2>4 DEF StageInv, ListingInv, RecipientInv, NoObjects
  <2>6. QED BY <1>0, <1>1, <2>1, <2>2, <2>5 DEF QuietInv, NoBucket, NoObjects
<1>5. ASSUME NEW w \in Writers, Notify(w) PROVE QuietInv'
  <2>1. writer[w] = g BY <1>0, <1>1, <1>5 DEF Notify, TypeOK
  <2>2. Owed(g)' BY <1>1, <1>5, <2>1 DEF Notify, Owed, TypeOK
  <2>3. UNCHANGED <<bucket, index, job, restoring>> BY <1>5 DEF Notify
  <2>4. QED BY <1>1, <1>2, <2>2, <2>3, OwedFrame
<1>6. ASSUME NEW w \in Writers, NEW k \in Keys, NEW o \in Objects \cup {Absent}, WriteObject(w, g, k, o)
      PROVE  QuietInv'
  <2>1. Owed(g)' BY <1>1, <1>6, ChainAssumption DEF WriteObject, Owed, TypeOK
  <2>2. UNCHANGED <<bucket, job, restoring>> /\ bucket.exists BY <1>6 DEF WriteObject
  <2>3. QED BY <1>1, <1>2, <2>1, <2>2, OwedFrame
<1>7. ASSUME NEW w \in Writers, NEW rec \in Recipients, SetRecipient(w, g, rec) PROVE QuietInv'
  <2>1. Owed(g)' BY <1>1, <1>7, ChainAssumption DEF SetRecipient, Owed, TypeOK
  <2>2. UNCHANGED <<index, job, restoring>> /\ bucket.exists BY <1>7 DEF SetRecipient
  <2>3. bucket'.exists = bucket.exists BY <1>1, <1>7 DEF SetRecipient, TypeOK, Row
  <2>4. QED BY <1>1, <1>2, <2>1, <2>2, <2>3, OwedFrame
<1>8. CASE ClearRecipient(g)
  <2>1. UNCHANGED <<index, docs, job, dirty, due, writer, restoring>> BY <1>8 DEF ClearRecipient
  <2>2. /\ bucket'.exists = bucket.exists /\ bucket'.act = bucket.act /\ bucket'.head = bucket.head
        /\ bucket'.rec \in {bucket.rec, NoRecipient} /\ (~bucket.exists => bucket' = bucket)
    BY <1>1, <1>8 DEF ClearRecipient, TypeOK, Row
  <2>3. Owed(g)' = Owed(g) /\ ContentOf(job[g].root)' = ContentOf(job[g].root)
        /\ Committed' = Committed /\ NeedsSealing' = NeedsSealing /\ (Frozen => Frozen')
    BY <2>1, <2>2 DEF Owed, ContentOf, Committed, NeedsSealing, Frozen
  <2>4. StageInv(g)'
    BY <1>1, <2>1, <2>2, <2>3 DEF StageInv, ListingInv, RecipientInv, NoObjects
  <2>5. QED BY <1>1, <1>2, <2>1, <2>2, <2>4
<1>9. ASSUME UNCHANGED <<bucket, index, docs, job, dirty, due, writer, restoring>> PROVE QuietInv'
  <2>1. StageInv(g)' BY <1>1, <1>9, IdleFrame
  <2>2. QED BY <1>1, <1>2, <1>9, <2>1
<1>10. ASSUME NEW root, NEW id, BeginRestore(g, root, id) PROVE FALSE
  BY <1>1, <1>10 DEF BeginRestore, Calm, Spent
<1>11. CASE Handler(g)
  BY <1>6, <1>7, <1>8, <1>9, <1>10, <1>11 DEF Handler, ClearBegin, ClearCheck
<1>12. CASE Tick(g)
  <2>1. Owed(g)' BY <1>1, <1>12 DEF Tick, Owed, TypeOK
  <2>2. UNCHANGED <<bucket, index, job, restoring>> BY <1>12 DEF Tick
  <2>3. QED BY <1>1, <1>2, <2>1, <2>2, OwedFrame
<1>13. ASSUME NEW who \in Labels \cup {Loop}, LockCommit(g, who) PROVE QuietInv'
  <2>1. UNCHANGED <<bucket, index, restoring>> BY <1>13 DEF LockCommit
  <2>2. job'[g].pc = "locked" /\ job'[g].objects = NoObjects /\ job'[g].after = 0
    BY <1>1, <1>13 DEF LockCommit, TypeOK, IdleJob
  <2>3. StageInv(g)' BY <2>2 DEF StageInv, NoObjects
  <2>4. QED BY <1>1, <1>2, <2>1, <2>3
<1>14. CASE CommitStep(g)
  <2>1. StageInv(g)'
    BY <1>14, ReadBucketQuiet, ListPageQuiet, BuildQuiet, RefusesQuiet, SetBucketHeadQuiet, FinishQuiet
    DEF CommitStep
  <2>2. restoring' = restoring /\ index' = index
    BY <1>14 DEF CommitStep, ReadBucket, ListPage, Build, BuildRefuses, SetBucketHead, FinishCommit
  <2>3. bucket'.exists = bucket.exists /\ (~bucket.exists => bucket' = bucket)
    BY <1>1, <1>14 DEF CommitStep, ReadBucket, ListPage, Build, BuildRefuses, SetBucketHead,
                       FinishCommit, TypeOK, Row
  <2>4. QED BY <1>1, <1>2, <2>1, <2>2, <2>3
<1>15. CASE Fault(g)
  BY <1>1, <1>15 DEF Fault, CommitFails, Restart, BuildFails, Calm, Spent
<1>16. QED
  BY <1>0, <1>1, <1>3, <1>4, <1>5, <1>9, <1>11, <1>12, <1>13, <1>14, <1>15
  DEF Next, vars, PutSnapshot, RestoreBucket

\* The quiet invariant holds initially.
LEMMA InitQuietInv == Init => QuietInv
BY IdleJobType DEF Init, QuietInv, StageInv, NoBucket

\* With one gateway, no failures, no restarts and no restores, a bucket with nothing left to do is
\* committed or frozen, whatever the number of keys, pages, concurrent handlers and snapshots: the
\* order in which CommitNow drops the dirty mark, reads and advances loses no write.
THEOREM QuietIsCommitted == Calm /\ Spec => []QuietMeansCommitted
<1>1. Calm /\ QuietInv => QuietMeansCommitted
  <2> SUFFICES ASSUME Calm, QuietInv, bucket.exists, ~bucket.act, Quiet PROVE Committed \/ Frozen
    BY DEF QuietMeansCommitted
  <2>1. PICK g \in Gateways : Gateways = {g} BY DEF Calm
  <2>2. ~Owed(g) /\ job[g].pc = "idle" BY DEF Quiet, Owed
  <2>3. StageInv(g) BY DEF QuietInv
  <2>4. QED BY <2>2, <2>3 DEF StageInv
<1>2. Calm => Calm' BY DEF Calm
<1>3. Calm /\ TypeInv /\ QuietInv /\ [Next]_vars => QuietInv' BY NextQuietInv
<1>4. Init => QuietInv BY InitQuietInv
<1>5. QED BY <1>1, <1>2, <1>3, <1>4, TypeInvariant, PTL DEF Spec

(***************************************************************************)
(* What commits record: the hypotheses.                                    *)
(***************************************************************************)
\* One page of ListObjects holds the bucket: what a commit lists is one moment.
OnePage == NKeys <= PageSize

\* No commit reads the bucket's row while another is between that read and its end. One process
\* owning the index (SQLite, the in-memory store) makes it so: its commit mutex spans a commit.
Serial == \A g, h \in Gateways :
            g = h \/ job[g].pc \in {"idle", "locked"} \/ job[h].pc \in {"idle", "locked"}

(***************************************************************************)
(* What a restore opens and what a commit lists.                           *)
(***************************************************************************)

\* A request that is not refused sees the objects its recipient would see.
LEMMA OpenedAsSealed ==
  ASSUME NEW d \in Commit, NEW id,
         \A k \in Keys : opensWith(d.objects[k], d.rec, id), SealedCount(d, id) = 0
  PROVE  GetCommit(d, id) = GetCommit(d, d.rec)
<1> DEFINE left == {k \in Keys : d.objects[k] # Absent /\ d.objects[k].sealed # {}}
<1>1. IsFiniteSet(left)
  <2>1. IsFiniteSet(Keys) BY ChainAssumption, FS_Interval DEF Keys
  <2>2. QED BY <2>1, FS_Subset
<1>2. id = NoRecipient => left = {} BY <1>1, FS_EmptySet DEF SealedCount
<1> SUFFICES ASSUME NEW k \in Keys
    PROVE  open(d.objects[k], d.rec, id) = open(d.objects[k], d.rec, d.rec)
  BY DEF GetCommit
<1>3. CASE d.objects[k] = Absent BY <1>3 DEF open
<1>4. CASE d.objects[k] # Absent
  <2>1. id # d.rec => d.objects[k].sealed = {} BY <1>2, <1>4 DEF opensWith
  <2>2. QED BY <1>4, <2>1 DEF open
<1>5. QED BY <1>3, <1>4

\* With one page, what a listing has read so far is nothing or everything.
LEMMA WholePage ==
  ASSUME OnePage, index \in Rows
  PROVE  LET page == ListObjects(0)
         IN  /\ [k \in Keys |-> IF k \in page THEN index[k] ELSE NoObjects[k]] = index
             /\ ~(Cardinality(page) < PageSize) => \A k \in Keys : k <= LastOf(page)
<1> DEFINE page == ListObjects(0)
           rest == {k \in Present(index) : k > 0}
<1>0. NKeys \in Nat /\ PageSize \in Nat /\ PageSize > 0 BY ChainAssumption
<1>1. /\ page \subseteq Keys /\ IsFiniteSet(page)
      /\ Cardinality(page) < PageSize => page = rest
      /\ ~(Cardinality(page) < PageSize) => page # {}
  BY PageFacts
<1>2. rest = Present(index) BY DEF Present, Keys
<1>3. IsFiniteSet(Keys) /\ Cardinality(Keys) = NKeys BY <1>0, FS_Interval DEF Keys
<1>4. Cardinality(page) \in Nat /\ Cardinality(page) <= NKeys BY <1>1, <1>3, FS_Subset, FS_CardinalityType
<1>5. ~(Cardinality(page) < PageSize) => page = Keys
  <2> SUFFICES ASSUME ~(Cardinality(page) < PageSize) PROVE page = Keys OBVIOUS
  <2>1. Cardinality(page) = Cardinality(Keys) BY <1>0, <1>3, <1>4 DEF OnePage
  <2>2. QED BY <1>1, <1>3, <2>1, FS_Subset
<1>6. Present(index) \subseteq page BY <1>1, <1>2, <1>5 DEF Present
<1>7. [k \in Keys |-> IF k \in page THEN index[k] ELSE NoObjects[k]] = index
  <2> SUFFICES ASSUME NEW k \in Keys PROVE (IF k \in page THEN index[k] ELSE NoObjects[k]) = index[k]
    BY DEF Rows
  <2>1. k \notin page => index[k] = Absent BY <1>6 DEF Present
  <2>2. QED BY <2>1 DEF NoObjects
<1>8. ~(Cardinality(page) < PageSize) => \A k \in Keys : k <= LastOf(page)
  <2> SUFFICES ASSUME ~(Cardinality(page) < PageSize) PROVE \A k \in Keys : k <= LastOf(page) OBVIOUS
  <2>1. page = Keys /\ page # {} BY <1>1, <1>5
  <2>2. QED BY <2>1, LastOfPage
<1>9. QED BY <1>7, <1>8

\* Past the last key there is nothing to list.
LEMMA NothingPast ==
  ASSUME NEW after \in Nat, \A k \in Keys : k <= after
  PROVE  ListObjects(after) = {}
<1>1. \A k \in Present(index) : ~(k > after) BY DEF Present, Keys
<1>2. QED BY <1>1 DEF ListObjects

(***************************************************************************)
(* The contents a bucket has had are those in its index, in what a commit  *)
(* is listing or building, in the documents, and in what a restore holds.  *)
(***************************************************************************)
ListedOnce(j) ==
  /\ j.pc = "locked" => j.objects = NoObjects /\ j.after = 0
  /\ j.pc = "listing" => \/ j.objects = NoObjects /\ j.after = 0
                         \/ j.objects \in written /\ \A k \in Keys : k <= j.after
  /\ j.pc = "building" => j.objects \in written

HistoryInv ==
  /\ NoObjects \in written /\ index \in written
  /\ PointInTime
  /\ \A q \in restoring : q.objects \in written
  /\ \A g \in Gateways : ListedOnce(job[g])

\* Steps that add no document, begin no restore, and only begin, end or advance commits.
LEMMA HistoryFrame ==
  ASSUME HistoryInv, written \subseteq written', index' \in written',
         docs' = docs, restoring' \subseteq restoring,
         \A g \in Gateways : \/ job'[g] = job[g]
                             \/ job'[g].pc \notin {"locked", "listing", "building"}
                             \/ ListedOnce(job[g])'
  PROVE  HistoryInv'
<1>1. PointInTime' BY DEF HistoryInv, PointInTime, ContentOf, GetCommit, open
<1>2. \A g \in Gateways : ListedOnce(job[g])'
  <2> SUFFICES ASSUME NEW g \in Gateways PROVE ListedOnce(job[g])' OBVIOUS
  <2>1. CASE job'[g] = job[g] BY <2>1 DEF HistoryInv, ListedOnce
  <2>2. CASE job'[g].pc \notin {"locked", "listing", "building"} BY <2>2 DEF ListedOnce
  <2>3. QED BY <2>1, <2>2
<1>3. QED BY <1>1, <1>2 DEF HistoryInv

\* What a step that is not a restore leaves in the index has been written; a restore's is
\* already there.
LEMMA HistoryGrows ==
  ASSUME HistoryInv, written' = IF restoring' = restoring THEN written \cup {index'} ELSE written,
         index' \in written \/ restoring' = restoring
  PROVE  written \subseteq written' /\ index' \in written'
OBVIOUS

\* Every step records what it writes.
LEMMA NextHistoryInv ==
  ASSUME OnePage, TypeInv, HistoryInv, [HistoryNext]_historyVars
  PROVE  HistoryInv'
<1> USE DEF storeVars, swarmVars, loopVars, reqVars
<1>0. /\ TypeOK /\ RootsKnown /\ Len(docs) \in Nat /\ job \in [Gateways -> Job]
      /\ index \in written
  BY DEF TypeInv, TypeOK, HistoryInv
<1>1. CASE UNCHANGED historyVars
  <2>1. HistoryInv' BY <1>0, <1>1, HistoryFrame DEF historyVars, vars
  <2>2. QED BY <2>1
<1>2. CASE HistoryNext
  <2> DEFINE Frame == /\ index' \in written \/ restoring' = restoring
                      /\ docs' = docs /\ restoring' \subseteq restoring
                      /\ \A g \in Gateways : \/ job'[g] = job[g]
                                             \/ job'[g].pc \notin {"locked", "listing", "building"}
  <2>0. written' = IF restoring' = restoring THEN written \cup {index'} ELSE written
    BY <1>2 DEF HistoryNext
  <2>1. Frame => HistoryInv'
    <3> SUFFICES ASSUME Frame PROVE HistoryInv' OBVIOUS
    <3>1. written \subseteq written' /\ index' \in written' BY <2>0, HistoryGrows
    <3>2. QED BY <3>1, HistoryFrame
  <2>2. ASSUME NEW g \in Gateways, NEW root \in RestoreTargets, NEW id \in Recipients \cup {NoRecipient},
               BeginRestore(g, root, id)
        PROVE  HistoryInv'
    <3>1. root \in 1..Len(docs) BY <1>0 DEF RestoreTargets, RootsKnown, Known
    <3>2. docs[root] \in Commit /\ root # 0 BY <1>0, <3>1 DEF TypeOK
    <3>3. GetCommit(docs[root], id) = GetCommit(docs[root], docs[root].rec)
      BY <2>2, <3>2, OpenedAsSealed DEF BeginRestore
    <3>4. GetCommit(docs[root], id) \in written
      BY <1>0, <3>1, <3>2, <3>3 DEF HistoryInv, PointInTime, ContentOf, TypeOK
    <3>5. index' = index /\ docs' = docs /\ job' = job BY <2>2 DEF BeginRestore
    <3>6. written \subseteq written' /\ index' \in written' BY <1>0, <2>0, <3>5
    <3>7. \A q \in restoring' : q.objects \in written'
      BY <2>2, <3>4, <3>6 DEF BeginRestore, HistoryInv
    <3>8. PointInTime' BY <3>5, <3>6 DEF HistoryInv, PointInTime, ContentOf, GetCommit, open
    <3>9. \A h \in Gateways : ListedOnce(job[h])' BY <3>5, <3>6 DEF HistoryInv, ListedOnce
    <3>10. QED BY <3>6, <3>7, <3>8, <3>9 DEF HistoryInv
  <2> DEFINE Job1(g) == /\ index' = index /\ restoring' = restoring
                        /\ \A h \in Gateways \ {g} : job'[h] = job[h]
  <2>3. ASSUME NEW g \in Gateways, Job1(g), docs' = docs,
               written \subseteq written' => ListedOnce(job[g])'
        PROVE  HistoryInv'
    <3>1. written \subseteq written' /\ index' \in written' BY <1>0, <2>0, <2>3
    <3>2. QED BY <2>3, <3>1, HistoryFrame
  <2>4. ASSUME NEW g \in Gateways, ReadBucket(g) PROVE HistoryInv'
    <3>1. Job1(g) /\ docs' = docs BY <1>0, <2>4 DEF ReadBucket
    <3>2. job[g].pc = "locked" /\ job[g].objects = NoObjects /\ job[g].after = 0 /\ job[g] \in Job
      BY <1>0, <2>4 DEF ReadBucket, HistoryInv, ListedOnce
    <3>3. \/ job'[g] = IdleJob
          \/ job'[g].pc = "listing" /\ job'[g].objects = NoObjects /\ job'[g].after = 0
      BY <1>0, <2>4, <3>2 DEF ReadBucket, Job
    <3>4. ListedOnce(job[g])' BY <3>3, IdleJobType DEF ListedOnce
    <3>5. QED BY <2>3, <3>1, <3>4
  <2>5. ASSUME NEW g \in Gateways, ListPage(g) PROVE HistoryInv'
    <3> DEFINE page == ListObjects(job[g].after)
               got  == [k \in Keys |-> IF k \in page THEN index[k] ELSE job[g].objects[k]]
    <3>1. Job1(g) /\ docs' = docs BY <1>0, <2>5 DEF ListPage
    <3>2. /\ job[g].pc = "listing" /\ job[g] \in Job /\ job[g].after \in Nat
          /\ job[g].objects \in Rows /\ index \in Rows
      BY <1>0, <2>5 DEF ListPage, TypeOK, Job
    <3>3. \/ job[g].objects = NoObjects /\ job[g].after = 0
          \/ job[g].objects \in written /\ \A k \in Keys : k <= job[g].after
      BY <3>2 DEF HistoryInv, ListedOnce
    <3>4. /\ got \in written
          /\ ~(Cardinality(page) < PageSize) => \A k \in Keys : k <= LastOf(page)
      <4>1. CASE job[g].objects = NoObjects /\ job[g].after = 0
        BY <1>0, <3>2, <4>1, WholePage
      <4>2. CASE job[g].objects \in written /\ \A k \in Keys : k <= job[g].after
        <5>1. page = {} BY <3>2, <4>2, NothingPast
        <5>2. got = job[g].objects BY <3>2, <5>1 DEF Rows
        <5>3. Cardinality(page) < PageSize BY <5>1, FS_EmptySet, ChainAssumption
        <5>4. QED BY <4>2, <5>2, <5>3
      <4>3. QED BY <3>3, <4>1, <4>2
    <3> HIDE DEF page, got
    <3>5. job' = [job EXCEPT ![g] =
             IF ~bucket.exists THEN IdleJob
             ELSE IF Cardinality(page) < PageSize
                  THEN [job[g] EXCEPT !.pc = "building", !.objects = got, !.after = 0]
                  ELSE [job[g] EXCEPT !.objects = got, !.after = LastOf(page)]]
      BY <2>5 DEF ListPage, page, got
    <3>6. \/ job'[g] = IdleJob
          \/ job'[g].pc = "building" /\ job'[g].objects = got
          \/ /\ job'[g].pc = "listing" /\ job'[g].objects = got /\ job'[g].after = LastOf(page)
             /\ ~(Cardinality(page) < PageSize)
      BY <1>0, <3>2, <3>5 DEF Job
    <3>7. written \subseteq written' => ListedOnce(job[g])' BY <3>4, <3>6, IdleJobType DEF ListedOnce
    <3>8. QED BY <2>3, <3>1, <3>7
  <2>6. ASSUME NEW g \in Gateways, NEW who \in Labels \cup {Loop}, LockCommit(g, who)
        PROVE  HistoryInv'
    <3>1. Job1(g) /\ docs' = docs BY <1>0, <2>6 DEF LockCommit
    <3>2. job'[g] = [IdleJob EXCEPT !.pc = "locked", !.who = who] BY <1>0, <2>6 DEF LockCommit
    <3>3. job'[g].objects = NoObjects /\ job'[g].after = 0 /\ job'[g].pc = "locked"
      BY <3>2 DEF IdleJob
    <3>4. ListedOnce(job[g])' BY <3>3 DEF ListedOnce
    <3>5. QED BY <2>3, <3>1, <3>4
  <2>7. ASSUME NEW g \in Gateways, Build(g) PROVE HistoryInv'
    <3> DEFINE d == [seq |-> job[g].seq, parent |-> job[g].parent, rec |-> job[g].rec,
                     objects |-> seal(job[g].objects)]
               n == Len(docs)
    <3>1. /\ Job1(g) /\ job'[g].pc = "advancing"
          /\ job[g].pc = "building" /\ job[g] \in Job /\ job[g].objects \in Rows
      <4>1. job[g].pc = "building" /\ job[g] \in Job /\ job[g].objects \in Rows
        BY <1>0, <2>7 DEF Build, Job
      <4>2. job' = [job EXCEPT ![g] = [job[g] EXCEPT !.pc = "advancing", !.root = n + 1]]
        BY <1>0, <2>7 DEF Build
      <4>3. job'[g] = [job[g] EXCEPT !.pc = "advancing", !.root = n + 1] BY <1>0, <4>2
      <4>4. job'[g].pc = "advancing" BY <4>1, <4>3 DEF Job
      <4>5. \A h \in Gateways \ {g} : job'[h] = job[h] BY <1>0, <4>2
      <4>6. index' = index /\ restoring' = restoring BY <2>7 DEF Build
      <4>7. QED BY <4>1, <4>4, <4>5, <4>6
    <3>2. job[g].objects \in written BY <3>1 DEF HistoryInv, ListedOnce
    <3>3. GetCommit(d, d.rec) = job[g].objects BY <3>1, SealOpens
    <3> HIDE DEF d
    <3>4. docs' = Append(docs, d) BY <2>7 DEF Build, d
    <3>5. Len(docs') = n + 1 /\ docs'[n + 1] = d /\ \A r \in 1..n : docs'[r] = docs[r]
      BY <1>0, <3>4 DEF TypeOK
    <3>6. written \subseteq written' /\ index' \in written' BY <1>0, <2>0, <3>1
    <3>7. PointInTime'
      <4>1. ASSUME NEW r \in 1..n PROVE GetCommit(docs'[r], docs'[r].rec) \in written'
        <5>1. r # 0 /\ r \in DOMAIN docs BY <1>0 DEF TypeOK
        <5>2. GetCommit(docs[r], docs[r].rec) \in written
          BY <5>1 DEF HistoryInv, PointInTime, ContentOf
        <5>3. QED BY <3>5, <3>6, <5>2
      <4>2. GetCommit(docs'[n + 1], docs'[n + 1].rec) \in written' BY <3>2, <3>3, <3>5, <3>6
      <4>3. DOMAIN docs' = 1..(n + 1) BY <1>0, <3>4 DEF TypeOK
      <4>4. \A r \in 1..(n + 1) : r \in 1..n \/ r = n + 1 BY <1>0
      <4>5. \A r \in DOMAIN docs' : GetCommit(docs'[r], docs'[r].rec) \in written'
        BY <4>1, <4>2, <4>3, <4>4
      <4>6. NoObjects \in written' BY <3>6 DEF HistoryInv
      <4>7. ASSUME NEW r \in DOMAIN docs' PROVE ContentOf(r)' \in written'
        <5>1. ContentOf(r)' = IF r = 0 THEN NoObjects ELSE GetCommit(docs'[r], docs'[r].rec)
          BY DEF ContentOf, GetCommit, open
        <5>2. QED BY <4>5, <4>6, <5>1
      <4>8. QED BY <4>7 DEF PointInTime
    <3>8. \A h \in Gateways : ListedOnce(job[h])' BY <3>1, <3>6 DEF HistoryInv, ListedOnce
    <3>9. QED BY <3>1, <3>6, <3>7, <3>8 DEF HistoryInv
  <2>8. ASSUME NEW g \in Gateways, SetBucketHead(g) PROVE HistoryInv'
    <3>1. Job1(g) /\ docs' = docs BY <1>0, <2>8 DEF SetBucketHead
    <3>2. job[g].pc = "advancing" /\ job[g] \in Job BY <1>0, <2>8 DEF SetBucketHead
    <3>3. job'[g].pc \in {"publishing", "idle"}
      BY <1>0, <2>8, <3>2, IdleJobType DEF SetBucketHead, Job
    <3>4. ListedOnce(job[g])' BY <3>3 DEF ListedOnce
    <3>5. QED BY <2>3, <3>1, <3>4
  <2>9. ASSUME NEW q \in restoring, RestoreBucket(q) PROVE HistoryInv'
    <3>1. q.objects \in written BY DEF HistoryInv
    <3>2. Frame BY <1>0, <2>9, <3>1 DEF RestoreBucket
    <3>3. QED BY <2>1, <3>2
  <2>10. ASSUME NEW g \in Gateways, Fault(g) PROVE HistoryInv'
    <3>1. Frame BY <1>0, <2>10, IdleJobType DEF Fault, CommitFails, Restart, BuildFails
    <3>2. QED BY <2>1, <3>1
  <2>11. ASSUME NEW g \in Gateways, FinishCommit(g) \/ \E k \in Keys : BuildRefuses(g, k)
         PROVE  HistoryInv'
    <3>1. Frame BY <1>0, <2>11, IdleJobType DEF FinishCommit, BuildRefuses
    <3>2. QED BY <2>1, <3>1
  <2>12. ASSUME NEW g \in Gateways, Handler(g) PROVE HistoryInv'
    <3>1. \/ \E root \in RestoreTargets, id \in Recipients \cup {NoRecipient} : BeginRestore(g, root, id)
          \/ Frame
      BY <1>0, <2>12 DEF Handler, WriteObject, SetRecipient, ClearBegin, ClearCheck, ClearRecipient
    <3>2. QED BY <2>1, <2>2, <3>1
  <2>13. CASE \/ \E act \in BOOLEAN, rec \in Recipients \cup {NoRecipient} : CreateBucket(act, rec)
              \/ DeleteBucket
              \/ \E w \in Writers : Notify(w)
              \/ \E q \in pending : PutSnapshot(q)
              \/ \E g \in Gateways : Tick(g)
    <3>1. Frame BY <1>0, <2>13 DEF CreateBucket, DeleteBucket, Notify, PutSnapshot, Tick
    <3>2. QED BY <2>1, <3>1
  <2>14. Next BY <1>2 DEF HistoryNext
  <2> HIDE DEF Frame, Job1
  <2>15. ASSUME NEW g \in Gateways, CommitStep(g) PROVE HistoryInv'
    BY <2>4, <2>5, <2>7, <2>8, <2>11, <2>15 DEF CommitStep
  <2>16. QED BY <2>6, <2>9, <2>10, <2>12, <2>13, <2>14, <2>15 DEF Next
<1>3. QED BY <1>1, <1>2

\* HistorySpec adds a record to the steps of Spec and changes none of them.
LEMMA HistoryTyped == HistorySpec => []TypeInv
<1>1. HistoryInit => TypeInv BY InitTypeInv DEF HistoryInit
<1>2. TypeInv /\ [HistoryNext]_historyVars => TypeInv'
  BY NextTypeInv DEF HistoryNext, historyVars
<1>3. QED BY <1>1, <1>2, PTL DEF HistorySpec

\* The invariant holds in every behaviour.
LEMMA HistoryInvariant == ASSUME OnePage PROVE HistorySpec => []HistoryInv
<1>1. HistoryInit => HistoryInv
  BY IdleJobType DEF HistoryInit, Init, HistoryInv, PointInTime, ListedOnce
<1>2. TypeInv /\ HistoryInv /\ [HistoryNext]_historyVars => HistoryInv' BY NextHistoryInv
<1>3. QED BY <1>1, <1>2, HistoryTyped, PTL DEF HistorySpec

\* For buckets of at most one page, every commit document opens to a content the bucket had,
\* whatever writes fall between the steps of its commit, on any number of gateways.
THEOREM CommitsArePointsInTime == ASSUME OnePage PROVE HistorySpec => []PointInTime
<1>1. HistoryInv => PointInTime BY DEF HistoryInv
<1>2. QED BY <1>1, HistoryInvariant, PTL

\* For buckets of at most one page, the index always holds a content clients wrote: a rollback
\* (BeginRestore, RestoreBucket) with whatever identity leaves no row half opened.
THEOREM RollbacksAreReal == ASSUME OnePage PROVE HistorySpec => []RollbackIsReal
<1>1. HistoryInv => RollbackIsReal BY DEF HistoryInv, RollbackIsReal
<1>2. QED BY <1>1, HistoryInvariant, PTL

(***************************************************************************)
(* The line of commits that do not overlap, until a restore or a deletion  *)
(* moves the sequence number back: the commit in flight continues the      *)
(* head, and the feed holds no update at or past the one it will publish.  *)
(***************************************************************************)
OnLine(j) ==
  /\ j.pc \notin {"idle", "locked"} => bucket.exists
  /\ j.pc \in {"listing", "building", "advancing"} => j.parent = bucket.head /\ j.seq = bucket.seq + 1
  /\ j.pc = "advancing" => docs[j.root].parent = j.parent
  /\ j.pc = "publishing" => j.seq = bucket.seq /\ \A u \in feed : u.index < j.seq - 1

Line ==
  /\ restoring = {}
  /\ \A u \in feed : u.index < bucket.seq
  /\ \A g \in Gateways : OnLine(job[g])

LineInv == (~bucket.exists => bucket = NoBucket) /\ (Undisturbed => Line)

\* Steps that leave the head, the documents and the feed, and only begin or end commits.
LEMMA LineFrame ==
  ASSUME LineInv, Undisturbed' => Undisturbed, UNCHANGED <<docs, feed>>,
         bucket' = bucket \/ (bucket.exists /\ bucket'.exists),
         bucket'.head = bucket.head, bucket'.seq = bucket.seq,
         Undisturbed' => restoring' \subseteq restoring,
         \A g \in Gateways : job'[g] = job[g] \/ job'[g].pc \in {"idle", "locked"}
  PROVE  LineInv'
<1>1. ~bucket'.exists => bucket' = NoBucket BY DEF LineInv
<1>2. ASSUME Undisturbed' PROVE Line'
  <2>1. Line BY <1>2 DEF LineInv
  <2>2. \A g \in Gateways : OnLine(job[g])' BY <2>1 DEF Line, OnLine
  <2>3. restoring' = {} BY <1>2, <2>1 DEF Line
  <2>4. QED BY <2>1, <2>2, <2>3 DEF Line
<1>3. QED BY <1>1, <1>2 DEF LineInv, NoBucket

\* No bound is ever given back.
LEMMA UndisturbedBefore == TypeInv /\ [Next]_vars /\ Undisturbed' => Undisturbed
<1> SUFFICES ASSUME TypeInv, [Next]_vars, Undisturbed' PROVE Undisturbed OBVIOUS
<1> USE DEF storeVars, swarmVars, loopVars, reqVars
<1>0. spent \in Spent BY DEF TypeInv, TypeOK
<1> DEFINE Charged == \/ spent' = spent
                      \/ spent' = [spent EXCEPT !.writes = @ + 1]
                      \/ spent' = [spent EXCEPT !.faults = @ + 1]
                      \/ spent' = [spent EXCEPT !.stops = @ + 1]
                      \/ spent' = [spent EXCEPT !.deletes = @ + 1]
                      \/ spent' = [spent EXCEPT !.restores = @ + 1]
<1>1. Charged
  <2>1. ASSUME NEW g \in Gateways, Handler(g) PROVE Charged
    BY <2>1 DEF Handler, WriteObject, SetRecipient, ClearBegin, ClearCheck, ClearRecipient, BeginRestore
  <2>2. ASSUME NEW g \in Gateways, CommitStep(g) PROVE Charged
    BY <2>2 DEF CommitStep, ReadBucket, ListPage, Build, SetBucketHead, FinishCommit, BuildRefuses
  <2>3. ASSUME NEW g \in Gateways, Fault(g) PROVE Charged
    BY <2>3 DEF Fault, CommitFails, Restart, BuildFails
  <2>4. QED
    BY <2>1, <2>2, <2>3 DEF Next, vars, CreateBucket, DeleteBucket, Notify, PutSnapshot, RestoreBucket,
       Tick, LockCommit
<1>2. QED BY <1>0, <1>1 DEF Spent, Undisturbed

\* Every step keeps the commits on the line.
LEMMA NextLineInv ==
  ASSUME Serial, TypeInv, LineInv, [Next]_vars
  PROVE  LineInv'
<1> USE DEF storeVars, swarmVars, loopVars, reqVars
<1>0. /\ TypeOK /\ RootsKnown /\ Len(docs) \in Nat /\ job \in [Gateways -> Job]
      /\ bucket \in Row /\ feed \subseteq Update /\ spent \in Spent
      /\ Undisturbed' => Undisturbed
  BY UndisturbedBefore DEF TypeInv, TypeOK
<1> DEFINE Frame == /\ docs' = docs /\ feed' = feed
                    /\ bucket' = bucket \/ (bucket.exists /\ bucket'.exists)
                    /\ bucket'.head = bucket.head /\ bucket'.seq = bucket.seq
                    /\ Undisturbed' => restoring' \subseteq restoring
                    /\ \A g \in Gateways : job'[g] = job[g] \/ job'[g].pc \in {"idle", "locked"}
<1>1. Frame => LineInv' BY <1>0, LineFrame
<1>2. ASSUME NEW act \in BOOLEAN, NEW rec \in Recipients \cup {NoRecipient}, CreateBucket(act, rec)
      PROVE  LineInv'
  <2>1. bucket = NoBucket /\ ~bucket.exists BY <1>2 DEF CreateBucket, LineInv
  <2>2. bucket'.exists /\ bucket'.head = bucket.head /\ bucket'.seq = bucket.seq
    BY <1>2, <2>1 DEF CreateBucket, NoBucket
  <2>3. UNCHANGED <<docs, feed, job, restoring, spent>> BY <1>2 DEF CreateBucket
  <2>4. Undisturbed' => Line'
    <3> SUFFICES ASSUME Undisturbed' PROVE Line' OBVIOUS
    <3>1. Line BY <1>0 DEF LineInv
    <3>2. QED BY <2>2, <2>3, <3>1 DEF Line, OnLine
  <2>5. QED BY <2>2, <2>4 DEF LineInv
<1>3. CASE DeleteBucket
  <2>1. bucket' = NoBucket BY <1>3 DEF DeleteBucket
  <2>2. spent'.deletes = spent.deletes + 1 /\ spent.deletes \in Nat BY <1>0, <1>3 DEF DeleteBucket, Spent
  <2>3. ~Undisturbed' BY <2>2 DEF Undisturbed
  <2>4. QED BY <2>1, <2>3 DEF LineInv
<1>4. ASSUME NEW g \in Gateways, NEW root \in RestoreTargets, NEW id \in Recipients \cup {NoRecipient},
             BeginRestore(g, root, id)
      PROVE  LineInv'
  <2>1. bucket' = bucket BY <1>4 DEF BeginRestore
  <2>2. spent'.restores = spent.restores + 1 /\ spent.restores \in Nat
    BY <1>0, <1>4 DEF BeginRestore, Spent
  <2>3. ~Undisturbed' BY <2>2 DEF Undisturbed
  <2>4. QED BY <2>1, <2>3 DEF LineInv
<1>5. ASSUME NEW q \in restoring, RestoreBucket(q) PROVE LineInv'
  <2>1. ~Undisturbed' BY <1>0 DEF LineInv, Line
  <2>2. bucket' = bucket \/ bucket'.exists BY <1>0, <1>5 DEF RestoreBucket, Row
  <2>3. QED BY <2>1, <2>2 DEF LineInv
<1> DEFINE Only(g) == /\ UNCHANGED <<restoring, feed>> /\ bucket' = bucket
                      /\ \A h \in Gateways : h # g => job'[h] = job[h]
                      /\ \/ docs' = docs
                         \/ \A h \in Gateways : h # g => job[h].pc \in {"idle", "locked"}
<1>6. ASSUME NEW g \in Gateways, Only(g), Line => OnLine(job[g])' PROVE LineInv'
  <2>1. Line => \A h \in Gateways : OnLine(job[h])' BY <1>6 DEF Line, OnLine
  <2>2. Undisturbed' => Line' BY <1>0, <1>6, <2>1 DEF LineInv, Line
  <2>3. QED BY <1>6, <2>2 DEF LineInv
<1>7. ASSUME NEW g \in Gateways, ReadBucket(g) PROVE LineInv'
  <2>1. Only(g) /\ docs' = docs BY <1>0, <1>7 DEF ReadBucket
  <2>2. job[g] \in Job /\ bucket.head \in Nat /\ bucket.seq \in Nat BY <1>0 DEF Row
  <2>3. \/ job'[g].pc = "idle"
        \/ /\ bucket.exists /\ job'[g].pc = "listing"
           /\ job'[g].parent = bucket.head /\ job'[g].seq = bucket.seq + 1
    BY <1>0, <1>7, <2>2, IdleJobType DEF ReadBucket, Job
  <2>4. OnLine(job[g])' BY <2>1, <2>3 DEF OnLine
  <2>5. QED BY <1>6, <2>1, <2>4
<1>8. ASSUME NEW g \in Gateways, ListPage(g) PROVE LineInv'
  <2>1. Only(g) /\ docs' = docs BY <1>0, <1>8 DEF ListPage
  <2>2. job[g] \in Job /\ job[g].pc = "listing" BY <1>0, <1>8 DEF ListPage
  <2>3. \/ job'[g].pc = "idle"
        \/ /\ job'[g].pc \in {"listing", "building"}
           /\ job'[g].parent = job[g].parent /\ job'[g].seq = job[g].seq
    BY <1>0, <1>8, <2>2, IdleJobType DEF ListPage, Job
  <2>4. Line => OnLine(job[g])' BY <2>1, <2>2, <2>3 DEF Line, OnLine
  <2>5. QED BY <1>6, <2>1, <2>4
<1>9. ASSUME NEW g \in Gateways, Build(g) PROVE LineInv'
  <2> DEFINE d == [seq |-> job[g].seq, parent |-> job[g].parent, rec |-> job[g].rec,
                   objects |-> seal(job[g].objects)]
             n == Len(docs)
  <2>1. Only(g) BY <1>0, <1>9 DEF Build, Serial
  <2>2. job[g] \in Job /\ job[g].pc = "building" BY <1>0, <1>9 DEF Build
  <2>3. d.parent = job[g].parent OBVIOUS
  <2> HIDE DEF d
  <2>4. docs' = Append(docs, d) BY <1>9 DEF Build, d
  <2>5. docs'[n + 1] = d BY <1>0, <2>4 DEF TypeOK
  <2>6. job'[g] = [job[g] EXCEPT !.pc = "advancing", !.root = n + 1]
    <3>1. job' = [job EXCEPT ![g] = [job[g] EXCEPT !.pc = "advancing", !.root = n + 1]]
      BY <1>0, <1>9 DEF Build
    <3>2. QED BY <1>0, <3>1
  <2>7. /\ job'[g].pc = "advancing" /\ job'[g].root = n + 1
        /\ job'[g].parent = job[g].parent /\ job'[g].seq = job[g].seq
    BY <2>2, <2>6 DEF Job
  <2>8. Line => OnLine(job[g])' BY <2>1, <2>2, <2>3, <2>5, <2>7 DEF Line, OnLine
  <2>9. QED BY <1>6, <2>1, <2>8
<1>10. ASSUME NEW g \in Gateways, SetBucketHead(g) PROVE LineInv'
  <2>1. /\ job[g].pc = "advancing" /\ job[g] \in Job
        /\ \A h \in Gateways : h = g \/ (job'[h] = job[h] /\ job[h].pc \in {"idle", "locked"})
    BY <1>0, <1>10 DEF SetBucketHead, Serial
  <2>2. CASE ~bucket.exists
    <3>1. Frame BY <1>0, <1>10, <2>2, IdleJobType DEF SetBucketHead
    <3>2. QED BY <1>1, <3>1
  <2>3. CASE bucket.exists
    <3>1. UNCHANGED <<docs, feed, restoring>> BY <1>10 DEF SetBucketHead
    <3>2. bucket'.exists /\ bucket'.seq = job[g].seq BY <1>0, <1>10, <2>3 DEF SetBucketHead, Row
    <3>3. job'[g].pc = "publishing" /\ job'[g].seq = job[g].seq
      BY <1>0, <1>10, <2>1, <2>3 DEF SetBucketHead, Job
    <3>4. ASSUME Undisturbed' PROVE Line'
      <4>1. Line /\ job[g].seq = bucket.seq + 1 BY <1>0, <2>1, <3>4 DEF LineInv, Line, OnLine
      <4>2. bucket.seq \in Nat /\ \A u \in feed : u.index \in Int BY <1>0 DEF Row, Update
      <4>3. \A u \in feed' : u.index < bucket'.seq /\ u.index < bucket'.seq - 1
        BY <3>1, <3>2, <4>1, <4>2 DEF Line
      <4>4. OnLine(job[g])' BY <3>2, <3>3, <4>3 DEF OnLine
      <4>5. \A h \in Gateways : OnLine(job[h])' BY <2>1, <4>4 DEF OnLine
      <4>6. QED BY <3>1, <4>1, <4>3, <4>5 DEF Line
    <3>5. QED BY <3>2, <3>4 DEF LineInv
  <2>4. QED BY <2>2, <2>3
<1>11. ASSUME NEW g \in Gateways, FinishCommit(g) PROVE LineInv'
  <2>1. /\ job[g].pc = "publishing" /\ job[g] \in Job /\ job'[g].pc = "idle"
        /\ \A h \in Gateways : h = g \/ (job'[h] = job[h] /\ job[h].pc \in {"idle", "locked"})
    BY <1>0, <1>11, IdleJobType DEF FinishCommit, Serial
  <2>2. UNCHANGED <<bucket, restoring>> BY <1>11 DEF FinishCommit
  <2>3. feed' \subseteq feed \cup {[index |-> job[g].seq - 1, root |-> job[g].root]}
    BY <1>11 DEF FinishCommit, Publish
  <2>4. ASSUME Undisturbed' PROVE Line'
    <3>1. Line /\ job[g].seq = bucket.seq BY <1>0, <2>1, <2>4 DEF LineInv, Line, OnLine
    <3>2. bucket.seq \in Nat BY <1>0 DEF Row
    <3>3. \A u \in feed' : u.index < bucket'.seq BY <2>2, <2>3, <3>1, <3>2 DEF Line
    <3>4. \A h \in Gateways : OnLine(job[h])' BY <2>1 DEF OnLine
    <3>5. QED BY <2>2, <3>1, <3>3, <3>4 DEF Line
  <2>5. QED BY <2>2, <2>4 DEF LineInv
<1>12. ASSUME NEW g \in Gateways, Fault(g) PROVE LineInv'
  <2>1. Frame BY <1>0, <1>12, IdleJobType DEF Fault, CommitFails, Restart, BuildFails
  <2>2. QED BY <1>1, <2>1
<1>13. ASSUME NEW g \in Gateways, NEW k \in Keys, BuildRefuses(g, k) PROVE LineInv'
  <2>1. Frame BY <1>0, <1>13, IdleJobType DEF BuildRefuses
  <2>2. QED BY <1>1, <2>1
<1>14. ASSUME NEW g \in Gateways, NEW who \in Labels \cup {Loop}, LockCommit(g, who) PROVE LineInv'
  <2>1. job'[g] = [IdleJob EXCEPT !.pc = "locked", !.who = who] BY <1>0, <1>14 DEF LockCommit
  <2>2. job'[g].pc = "locked" BY <2>1 DEF IdleJob
  <2>3. Frame BY <1>0, <1>14, <2>2 DEF LockCommit
  <2>4. QED BY <1>1, <2>3
<1>15. ASSUME NEW g \in Gateways, Handler(g) PROVE LineInv'
  <2>1. ASSUME NEW w \in Writers, NEW rec \in Recipients, SetRecipient(w, g, rec) PROVE Frame
    BY <1>0, <2>1 DEF SetRecipient, Row
  <2>2. ASSUME ClearRecipient(g) PROVE Frame
    BY <1>0, <2>2 DEF ClearRecipient, Row
  <2>3. ASSUME \/ \E w \in Writers, k \in Keys, o \in Objects \cup {Absent} : WriteObject(w, g, k, o)
               \/ ClearBegin(g) \/ ClearCheck(g)
        PROVE  Frame
    BY <2>3 DEF WriteObject, ClearBegin, ClearCheck
  <2> HIDE DEF Frame
  <2>4. QED BY <1>1, <1>4, <1>15, <2>1, <2>2, <2>3 DEF Handler
<1>16. ASSUME \/ UNCHANGED vars
              \/ \E w \in Writers : Notify(w)
              \/ \E q \in pending : PutSnapshot(q)
              \/ \E g \in Gateways : Tick(g)
       PROVE  LineInv'
  <2>1. Frame BY <1>16 DEF vars, Notify, PutSnapshot, Tick
  <2>2. QED BY <1>1, <2>1
<1> HIDE DEF Frame, Only
<1>17. ASSUME NEW g \in Gateways, CommitStep(g) PROVE LineInv'
  BY <1>7, <1>8, <1>9, <1>10, <1>11, <1>13, <1>17 DEF CommitStep
<1>18. QED BY <1>2, <1>3, <1>5, <1>12, <1>14, <1>15, <1>16, <1>17 DEF Next

\* The line holds in every behaviour whose commits do not overlap.
LEMMA LineInvariant == Spec /\ []Serial => []LineInv
<1>1. Init => LineInv
  BY IdleJobType DEF Init, LineInv, Line, OnLine
<1>2. Serial /\ TypeInv /\ LineInv /\ [Next]_vars => LineInv' BY NextLineInv
<1>3. QED BY <1>1, <1>2, TypeInvariant, PTL DEF Spec

\* One gateway never has two commits in flight.
LEMMA OneGatewayIsSerial == ASSUME \A g, h \in Gateways : g = h PROVE Spec => []Serial
<1>1. Serial BY DEF Serial
<1>2. QED BY <1>1, PTL

\* Only SetBucketHead and RestoreBucket give the bucket another head.
LEMMA WhoMovesTheHead ==
  ASSUME TypeInv, [Next]_vars, bucket'.head # bucket.head, bucket'.head # 0
  PROVE  \/ \E g \in Gateways : SetBucketHead(g)
         \/ restoring # {}
<1> USE DEF storeVars, swarmVars, loopVars, reqVars
<1>0. bucket \in Row BY DEF TypeInv, TypeOK
<1>1. ASSUME NEW g \in Gateways, Handler(g) PROVE FALSE
  BY <1>0, <1>1 DEF Handler, WriteObject, SetRecipient, ClearBegin, ClearCheck, ClearRecipient,
     BeginRestore, Row
<1>2. ASSUME NEW g \in Gateways, CommitStep(g) PROVE SetBucketHead(g)
  BY <1>2 DEF CommitStep, ReadBucket, ListPage, Build, FinishCommit, BuildRefuses
<1>3. ASSUME NEW g \in Gateways, Fault(g) PROVE FALSE
  BY <1>3 DEF Fault, CommitFails, Restart, BuildFails
<1>4. ~(\E act \in BOOLEAN, rec \in Recipients \cup {NoRecipient} : CreateBucket(act, rec)) /\ ~DeleteBucket
  <2>1. NoBucket.head = 0 BY DEF NoBucket
  <2>2. \A act, rec : [NoBucket EXCEPT !.exists = TRUE, !.act = act, !.rec = rec].head = 0
    BY DEF NoBucket
  <2>3. QED BY <2>1, <2>2 DEF CreateBucket, DeleteBucket
<1>5. QED
  BY <1>1, <1>2, <1>3, <1>4 DEF Next, vars, Notify, PutSnapshot, Tick, LockCommit

\* As long as commits do not overlap (on one gateway they cannot, see OneGatewayIsSerial) and
\* there was neither a restore nor a deletion, a commit becomes the head only on top of the head
\* before it: no commit drops out of the chain, whatever fails half-way.
THEOREM HeadsFollowOneAnother == Spec /\ []Serial => HeadAdvancesByOne
<1>1. ASSUME TypeInv, LineInv, [Next]_vars,
             bucket'.head # bucket.head, bucket'.head # 0, Undisturbed'
      PROVE  docs'[bucket'.head].parent = bucket.head
  <2>1. Line BY <1>1, UndisturbedBefore DEF LineInv
  <2>2. PICK g \in Gateways : SetBucketHead(g) BY <1>1, <2>1, WhoMovesTheHead DEF Line
  <2>3. job[g].pc = "advancing" /\ docs' = docs BY <2>2 DEF SetBucketHead, swarmVars
  <2>4. docs[job[g].root].parent = bucket.head BY <2>1, <2>3 DEF Line, OnLine
  <2>5. bucket \in Row BY <1>1 DEF TypeInv, TypeOK
  <2>6. bucket'.head = job[g].root BY <1>1, <2>2, <2>5 DEF SetBucketHead, Row
  <2>7. QED BY <2>3, <2>4, <2>6
<1>2. TypeInv /\ LineInv /\ [Next]_vars
        => [(bucket'.head # bucket.head /\ bucket'.head # 0 /\ Undisturbed')
              => docs'[bucket'.head].parent = bucket.head]_vars
  BY <1>1
<1>3. QED BY <1>2, TypeInvariant, LineInvariant, PTL DEF Spec, HeadAdvancesByOne

\* Only a commit that publishes changes the feed.
LEMMA WhoMovesTheFeed ==
  ASSUME TypeInv, [Next]_vars, feed' # feed
  PROVE  \E g \in Gateways : FinishCommit(g)
<1> USE DEF storeVars, swarmVars, loopVars, reqVars
<1>1. ASSUME NEW g \in Gateways, Handler(g) PROVE FALSE
  BY <1>1 DEF Handler, WriteObject, SetRecipient, ClearBegin, ClearCheck, ClearRecipient, BeginRestore
<1>2. ASSUME NEW g \in Gateways, CommitStep(g) PROVE FinishCommit(g)
  BY <1>2 DEF CommitStep, ReadBucket, ListPage, Build, SetBucketHead, BuildRefuses
<1>3. ASSUME NEW g \in Gateways, Fault(g) PROVE FALSE
  BY <1>3 DEF Fault, CommitFails, Restart, BuildFails
<1>4. QED
  BY <1>1, <1>2, <1>3 DEF Next, vars, CreateBucket, DeleteBucket, Notify, PutSnapshot, RestoreBucket,
     Tick, LockCommit

\* As long as commits do not overlap and there was neither a restore nor a deletion, the update a
\* commit publishes is what a lookup of the feed resolves to, also when earlier publications
\* failed (publishFeed).
THEOREM FeedFollowsHead == Spec /\ []Serial => FeedCatchesUp
<1>1. ASSUME Serial, TypeInv, LineInv, [Next]_vars, NEW g \in Gateways,
             job[g].pc = "publishing", feed' # feed, Undisturbed
      PROVE  FeedHead' = job[g].root
  <2> DEFINE u0 == [index |-> job[g].seq - 1, root |-> job[g].root]
  <2>1. FinishCommit(g)
    <3>1. PICK h \in Gateways : FinishCommit(h) BY <1>1, WhoMovesTheFeed
    <3>2. job[h].pc = "publishing" BY <3>1 DEF FinishCommit
    <3>3. h = g BY <1>1, <3>2 DEF Serial
    <3>4. QED BY <3>1, <3>3
  <2>2. \A u \in feed : u.index < job[g].seq - 1 BY <1>1 DEF LineInv, Line, OnLine
  <2>3. job[g] \in Job /\ feed \subseteq Update BY <1>1 DEF TypeInv, TypeOK
  <2>4. job[g].seq - 1 \in Int /\ \A u \in feed : u.index \in Int BY <2>3 DEF Job, Update
  <2>5. feed' = feed \cup {u0}
    <3>1. \E new \in BOOLEAN : Publish(g, new) BY <1>1, <2>1 DEF FinishCommit
    <3>2. {u \in feed : u.index = job[g].seq - 1} = {} BY <2>2, <2>4
    <3>3. QED BY <3>1, <3>2 DEF Publish
  <2>6. u0.index = job[g].seq - 1 /\ u0.root = job[g].root OBVIOUS
  <2> HIDE DEF u0
  <2>7. u0 \in feed' /\ \A v \in feed' : v.index <= u0.index BY <2>2, <2>4, <2>5, <2>6
  <2>8. \A v \in feed' : (\A u \in feed' : u.index <= v.index) => v = u0
    BY <2>2, <2>4, <2>5, <2>6, <2>7
  <2>9. (CHOOSE u \in feed' : \A v \in feed' : v.index <= u.index) = u0 BY <2>7, <2>8
  <2>10. QED BY <2>6, <2>9 DEF FeedHead
<1>2. Serial /\ TypeInv /\ LineInv /\ [Next]_vars
        => [\A g \in Gateways :
              job[g].pc = "publishing" /\ feed' # feed /\ Undisturbed => FeedHead' = job[g].root]_vars
  BY <1>1
<1>3. QED BY <1>2, TypeInvariant, LineInvariant, PTL DEF Spec, FeedCatchesUp
=============================================================================

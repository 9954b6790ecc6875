----------------------------- MODULE CommitChain -----------------------------
(***************************************************************************)
(* The commit chain of one bucket: the index rows a bucket shows (latest   *)
(* versions that are not delete markers), the handlers that change them,   *)
(* the committer that turns them into public, immutable commit documents   *)
(* on Swarm, the feed that anchors the head, snapshots and restore.        *)
(*                                                                         *)
(* Every store call is one atomic step (one mutex or one transaction in    *)
(* the store); a handler is cut exactly at its store, Swarm and Notify     *)
(* calls, so every interleaving of handlers, committer and restarts of     *)
(* every gateway sharing the index is explored.                            *)
(***************************************************************************)
EXTENDS Integers, Sequences, FiniteSets

CONSTANTS
  Gateways,     \* gateway processes sharing one index (several with Postgres)
  Writers,      \* threads of handlers that write the store and then Notify
  Labels,       \* snapshot labels
  NKeys,        \* keys are 1..NKeys, in the order ListObjects returns them
  PageSize,     \* ListObjects limit of a commit (1000 in the code)
  Plain,        \* references without a key (64 hex digits)
  KeyBearing,   \* references that embed their decryption key (128 hex digits)
  Objects,      \* objects clients write: each the set of references it holds
  Recipients,   \* age recipients, each standing for its identity as well
  NoRecipient,  \* the empty recovery_recipient column; also "no identity"
  Absent,       \* a key ListObjects does not return
  Loop,         \* the Run goroutine, as opposed to a snapshot request
  Idle,         \* a handler thread with nothing to notify
  SnapshotsSurviveDelete  \* TRUE: SQL stores, FALSE: the in-memory store

CONSTANTS       \* bounds of the explored behaviours
  MaxWrites, MaxCommits, MaxFaults, MaxStops, MaxDeletes, MaxRestores

Keys == 1..NKeys
Refs == Plain \cup KeyBearing

ASSUME ChainAssumption ==
  /\ NKeys \in Nat \ {0} /\ PageSize \in Nat \ {0}
  /\ Plain \cap KeyBearing = {}
  /\ Objects \subseteq SUBSET Refs
  /\ \A o, c \in SUBSET Refs : o # Absent /\ [clear |-> o, sealed |-> c] # Absent
  /\ NoRecipient \notin Recipients
  /\ Loop \notin Labels /\ Idle \notin Gateways
  /\ SnapshotsSurviveDelete \in BOOLEAN
  /\ {MaxWrites, MaxCommits, MaxFaults, MaxStops, MaxDeletes, MaxRestores} \subseteq Nat

VARIABLES
  bucket,     \* the buckets row: exists, act, rec, head, seq
  index,      \* what ListObjects shows of every key
  snaps,      \* the snapshots table: label -> root, 0 for none
  docs,       \* commit documents on Swarm; root r is docs[r]
  exposed,    \* references that chunks uploaded by Build show in the clear
  feed,       \* sequence-feed updates [index, root] on Swarm
  dirty,      \* per gateway: the bucket is in Committer.dirty
  due,        \* per gateway: Run has put the bucket on its due list
  job,        \* per gateway: the CommitNow holding Committer.commit
  writer,     \* per thread: Idle, or the gateway it has yet to Notify
  pending,    \* snapshot requests between CommitNow and PutSnapshot
  restoring,  \* restore requests between GetCommit and RestoreBucket
  clearing,   \* per gateway: a request clearing the recipient
  spent       \* how much of each bound has been used

storeVars == <<bucket, index, snaps>>
swarmVars == <<docs, exposed, feed>>
loopVars  == <<dirty, due, job>>
reqVars   == <<writer, pending, restoring, clearing>>
vars == <<storeVars, swarmVars, loopVars, reqVars, spent>>

(***************************************************************************)
(* References, pages and documents.                                        *)
(***************************************************************************)
HasKeyBearingRefs(o) == o # Absent /\ o \cap KeyBearing # {}

NoObjects == [k \in Keys |-> Absent]

Present(rows) == {k \in Keys : rows[k] # Absent}

\* ListObjects(bucket, "", after, PageSize): the first PageSize keys past the cursor.
ListObjects(after) ==
  LET rest == {k \in Present(index) : k > after}
  IN  {k \in rest : Cardinality({j \in rest : j < k}) < PageSize}

LastOf(page) == CHOOSE k \in page : \A j \in page : j <= k

\* Mutant: an object with a key-bearing part loses its plaintext parts.
clearOfWholeObject(o) == IF o \cap KeyBearing = {} THEN o ELSE {}

\* What seal leaves readable of an object and what it encrypts to the recipient: decided
\* reference by reference, not by the object's Encrypted flag.
clearOf(o) == o \ KeyBearing
sealedOf(o) == o \cap KeyBearing

seal(rows) == [k \in Keys |-> IF rows[k] = Absent THEN Absent
                 ELSE [clear |-> clearOf(rows[k]), sealed |-> sealedOf(rows[k])]]

\* GetCommit with an identity: sealed references open with the identity of
\* their recipient, and with no identity the object keeps only what is clear.
opensWith(w, rec, id) == IF w = Absent THEN TRUE ELSE w.sealed # {} /\ id # NoRecipient => id = rec

open(w, rec, id) == IF w = Absent THEN Absent
                    ELSE IF id = rec THEN w.clear \cup w.sealed ELSE w.clear

\* Mutant: a restore without an identity is not refused.
SealedCountIgnored(d, id) == 0

SealedCount(d, id) == IF id # NoRecipient THEN 0
  ELSE Cardinality({k \in Keys : d.objects[k] # Absent /\ d.objects[k].sealed # {}})

GetCommit(d, id) == [k \in Keys |-> open(d.objects[k], d.rec, id)]

WireObject == {w \in [clear : SUBSET Refs, sealed : SUBSET Refs] : w.clear \cup w.sealed \in Objects}
              \cup {Absent}
Commit == [seq : Nat, parent : Nat, rec : Recipients \cup {NoRecipient},
           objects : [Keys -> WireObject]]

\* The objects a root stands for; the empty root stands for an empty bucket.
ContentOf(root) == IF root = 0 THEN NoObjects ELSE GetCommit(docs[root], docs[root].rec)

(***************************************************************************)
(* State and initial state.                                                *)
(***************************************************************************)
NoBucket == [exists |-> FALSE, act |-> FALSE, rec |-> NoRecipient, head |-> 0, seq |-> 0]
IdleJob == [pc |-> "idle", who |-> Loop, rec |-> NoRecipient, parent |-> 0, seq |-> 0,
            after |-> 0, objects |-> NoObjects, root |-> 0]
NotClearing == [pc |-> "idle", after |-> 0]

Rows == [Keys -> Objects \cup {Absent}]

Init ==
  /\ bucket = NoBucket
  /\ index = NoObjects
  /\ snaps = [l \in Labels |-> 0]
  /\ docs = <<>> /\ exposed = {} /\ feed = {}
  /\ dirty = [g \in Gateways |-> FALSE]
  /\ due = [g \in Gateways |-> FALSE]
  /\ job = [g \in Gateways |-> IdleJob]
  /\ writer = [w \in Writers |-> Idle]
  /\ pending = {} /\ restoring = {}
  /\ clearing = [g \in Gateways |-> NotClearing]
  /\ spent = [writes |-> 0, faults |-> 0, stops |-> 0, deletes |-> 0, restores |-> 0]

(***************************************************************************)
(* Bucket handlers.                                                        *)
(***************************************************************************)
CreateBucket(act, rec) ==
  /\ ~bucket.exists
  /\ bucket' = [NoBucket EXCEPT !.exists = TRUE, !.act = act, !.rec = rec]
  /\ UNCHANGED <<index, snaps, swarmVars, loopVars, reqVars, spent>>

DeleteBucket ==
  /\ bucket.exists /\ Present(index) = {}
  /\ spent.deletes < MaxDeletes
  /\ spent' = [spent EXCEPT !.deletes = @ + 1]
  /\ bucket' = NoBucket
  /\ snaps' = IF SnapshotsSurviveDelete THEN snaps ELSE [l \in Labels |-> 0]
  /\ UNCHANGED <<index, swarmVars, loopVars, reqVars>>

\* The store step of every object mutation: PUT, copy, multipart completion, tags
\* (a new row), DELETE (a row removed, hidden by a marker, or replaced by the
\* version behind it). The handler notifies afterwards, also when nothing changed.
WriteObject(w, g, k, o) ==
  /\ writer[w] = Idle
  /\ bucket.exists
  /\ spent.writes < MaxWrites
  /\ spent' = [spent EXCEPT !.writes = @ + 1]
  /\ index' = [index EXCEPT ![k] = o]
  /\ writer' = [writer EXCEPT ![w] = g]
  /\ UNCHANGED <<bucket, snaps, swarmVars, loopVars, pending, restoring, clearing>>

Notify(w) ==
  /\ writer[w] # Idle
  /\ dirty' = [dirty EXCEPT ![writer[w]] = TRUE]
  /\ writer' = [writer EXCEPT ![w] = Idle]
  /\ UNCHANGED <<storeVars, swarmVars, due, job, pending, restoring, clearing, spent>>

\* Mutant: the handler changes the recipient and does not notify the committer.
SetRecipientSilently(w, g, rec) ==
  /\ bucket.exists /\ writer[w] = Idle
  /\ spent.writes < MaxWrites
  /\ spent' = [spent EXCEPT !.writes = @ + 1]
  /\ bucket' = [bucket EXCEPT !.rec = rec]
  /\ UNCHANGED <<index, snaps, swarmVars, loopVars, reqVars>>

SetRecipient(w, g, rec) ==
  /\ writer[w] = Idle
  /\ bucket.exists
  /\ spent.writes < MaxWrites
  /\ spent' = [spent EXCEPT !.writes = @ + 1]
  /\ bucket' = [bucket EXCEPT !.rec = rec]
  /\ writer' = [writer EXCEPT ![w] = g]
  /\ UNCHANGED <<index, snaps, swarmVars, loopVars, pending, restoring, clearing>>

ClearBegin(g) ==
  /\ clearing[g].pc = "idle"
  /\ bucket.exists
  /\ spent.writes < MaxWrites
  /\ spent' = [spent EXCEPT !.writes = @ + 1]
  /\ clearing' = [clearing EXCEPT ![g].pc = "checking"]
  /\ UNCHANGED <<storeVars, swarmVars, loopVars, writer, pending, restoring>>

\* One page of bucketHasKeyBearingRefs: refuse, go on, or find the bucket clean.
ClearCheck(g) ==
  LET page == ListObjects(clearing[g].after)
      refuse == ~bucket.exists \/ \E k \in page : HasKeyBearingRefs(index[k])
  IN  /\ clearing[g].pc = "checking"
      /\ clearing' = [clearing EXCEPT ![g] =
           IF refuse THEN NotClearing
           ELSE IF Cardinality(page) < PageSize THEN [pc |-> "checked", after |-> 0]
           ELSE [pc |-> "checking", after |-> LastOf(page)]]
      /\ UNCHANGED <<storeVars, swarmVars, loopVars, writer, pending, restoring, spent>>

ClearRecipient(g) ==
  /\ clearing[g].pc = "checked"
  /\ bucket' = [bucket EXCEPT !.rec = IF bucket.exists THEN NoRecipient ELSE @]
  /\ clearing' = [clearing EXCEPT ![g] = NotClearing]
  /\ UNCHANGED <<index, snaps, swarmVars, loopVars, writer, pending, restoring, spent>>

(***************************************************************************)
(* The committer.                                                          *)
(***************************************************************************)
\* Mutant: the loop takes up a bucket only before its first commit.
TickOnce(g) ==
  /\ dirty[g] /\ bucket.head = 0
  /\ job[g].pc = "idle" \/ job[g].who # Loop
  /\ due' = [due EXCEPT ![g] = TRUE]
  /\ UNCHANGED <<storeVars, swarmVars, dirty, job, reqVars, spent>>

\* Run's tick: a bucket past its debounce window is put on the due list. Run is one
\* goroutine, so it does not tick while it is inside its own CommitNow.
Tick(g) ==
  /\ dirty[g]
  /\ job[g].pc = "idle" \/ job[g].who # Loop
  /\ due' = [due EXCEPT ![g] = TRUE]
  /\ UNCHANGED <<storeVars, swarmVars, dirty, job, reqVars, spent>>

\* CommitNow takes the commit mutex and drops the dirty mark before it reads anything.
LockCommit(g, who) ==
  /\ job[g].pc = "idle"
  /\ who = Loop => due[g]
  /\ Len(docs) + Cardinality({h \in Gateways : job[h].pc # "idle"}) < MaxCommits
  /\ job' = [job EXCEPT ![g] = [IdleJob EXCEPT !.pc = "locked", !.who = who]]
  /\ due' = [due EXCEPT ![g] = IF who = Loop THEN FALSE ELSE @]
  /\ dirty' = [dirty EXCEPT ![g] = FALSE]
  /\ UNCHANGED <<storeVars, swarmVars, reqVars, spent>>

\* Mutant: the parent is the last document built, whether or not it became the head.
ReadBucketLastBuilt(g) ==
  /\ job[g].pc = "locked"
  /\ job' = [job EXCEPT ![g] =
       IF ~bucket.exists \/ bucket.act THEN IdleJob
       ELSE [@ EXCEPT !.pc = "listing", !.rec = bucket.rec,
                      !.parent = Len(docs), !.seq = bucket.seq + 1]]
  /\ UNCHANGED <<storeVars, swarmVars, dirty, due, reqVars, spent>>

\* GetBucket: no bucket and an ACT bucket end the commit.
ReadBucket(g) ==
  /\ job[g].pc = "locked"
  /\ job' = [job EXCEPT ![g] =
       IF ~bucket.exists \/ bucket.act THEN IdleJob
       ELSE [@ EXCEPT !.pc = "listing", !.rec = bucket.rec,
                      !.parent = bucket.head, !.seq = bucket.seq + 1]]
  /\ UNCHANGED <<storeVars, swarmVars, dirty, due, reqVars, spent>>

ListPage(g) ==
  LET page == ListObjects(job[g].after)
      got  == [k \in Keys |-> IF k \in page THEN index[k] ELSE job[g].objects[k]]
  IN  /\ job[g].pc = "listing"
      /\ job' = [job EXCEPT ![g] =
           IF ~bucket.exists THEN IdleJob
           ELSE IF Cardinality(page) < PageSize
                THEN [@ EXCEPT !.pc = "building", !.objects = got, !.after = 0]
                ELSE [@ EXCEPT !.objects = got, !.after = LastOf(page)]]
      /\ UNCHANGED <<storeVars, swarmVars, dirty, due, reqVars, spent>>

\* Mutant: the recipient is read again when the build starts.
RefusedByCurrentRow(g) ==
  bucket.rec = NoRecipient /\ \E k \in Keys : HasKeyBearingRefs(job[g].objects[k])

Refused(g) == job[g].rec = NoRecipient /\ \E k \in Keys : HasKeyBearingRefs(job[g].objects[k])

\* References the chunks of the objects in ks show in the clear.
Shown(g, ks) == UNION {clearOf(job[g].objects[k]) : k \in ks \cap Present(job[g].objects)}

Build(g) ==
  /\ job[g].pc = "building"
  /\ ~Refused(g)
  /\ docs' = Append(docs, [seq |-> job[g].seq, parent |-> job[g].parent,
                           rec |-> job[g].rec, objects |-> seal(job[g].objects)])
  /\ exposed' = exposed \cup Shown(g, Keys)
  /\ job' = [job EXCEPT ![g].pc = "advancing", ![g].root = Len(docs) + 1]
  /\ UNCHANGED <<storeVars, feed, dirty, due, reqVars, spent>>

\* Build refuses the first object that needs a sealer there is not; the chunks of the
\* objects before it are already on Swarm.
BuildRefuses(g, k) ==
  /\ job[g].pc = "building" /\ job[g].rec = NoRecipient
  /\ HasKeyBearingRefs(job[g].objects[k])
  /\ \A j \in 1..(k - 1) : ~HasKeyBearingRefs(job[g].objects[j])
  /\ exposed' = exposed \cup Shown(g, 1..(k - 1))
  /\ job' = [job EXCEPT ![g] = IdleJob]
  /\ UNCHANGED <<storeVars, docs, feed, dirty, due, reqVars, spent>>

\* An upload to Bee fails after the chunks of the first n keys.
BuildFails(g, n) ==
  /\ job[g].pc = "building" /\ ~Refused(g)
  /\ spent.faults < MaxFaults
  /\ spent' = [spent EXCEPT !.faults = @ + 1]
  /\ exposed' = exposed \cup Shown(g, 1..n)
  /\ job' = [job EXCEPT ![g] = IdleJob]
  /\ UNCHANGED <<storeVars, docs, feed, dirty, due, reqVars>>

\* Mutant: the store counts the commits itself.
SetBucketHeadCounts(g) ==
  /\ job[g].pc = "advancing"
  /\ IF bucket.exists
     THEN /\ bucket' = [bucket EXCEPT !.head = job[g].root, !.seq = @ + 1]
          /\ job' = [job EXCEPT ![g].pc = "publishing"]
     ELSE /\ job' = [job EXCEPT ![g] = IdleJob]
          /\ UNCHANGED bucket
  /\ UNCHANGED <<index, snaps, swarmVars, dirty, due, reqVars, spent>>

SetBucketHead(g) ==
  /\ job[g].pc = "advancing"
  /\ IF bucket.exists
     THEN /\ bucket' = [bucket EXCEPT !.head = job[g].root, !.seq = job[g].seq]
          /\ job' = [job EXCEPT ![g].pc = "publishing"]
     ELSE /\ job' = [job EXCEPT ![g] = IdleJob]
          /\ UNCHANGED bucket
  /\ UNCHANGED <<index, snaps, swarmVars, dirty, due, reqVars, spent>>

\* Mutant: the update anchors the parent.
PublishParent(g, new) ==
  LET slot == job[g].seq - 1
      old  == {u \in feed : u.index = slot}
  IN  feed' = IF new \/ old = {} THEN (feed \ old) \cup {[index |-> slot, root |-> job[g].parent]}
              ELSE feed

\* The single-owner chunk for update seq-1. Bee may keep the chunk that is already at
\* that address or take the new one; nothing in the gateway decides which.
Publish(g, new) ==
  LET slot == job[g].seq - 1
      old  == {u \in feed : u.index = slot}
  IN  feed' = IF new \/ old = {} THEN (feed \ old) \cup {[index |-> slot, root |-> job[g].root]}
              ELSE feed

\* Mutant: the dirty mark is dropped when the commit is done.
FinishForgetsDirty(g) ==
  /\ job[g].pc = "publishing"
  /\ \E new \in BOOLEAN : Publish(g, new)
  /\ pending' = IF job[g].who = Loop THEN pending
                ELSE pending \cup {[gw |-> g, label |-> job[g].who, root |-> job[g].root]}
  /\ job' = [job EXCEPT ![g] = IdleJob]
  /\ dirty' = [dirty EXCEPT ![g] = FALSE]
  /\ UNCHANGED <<storeVars, docs, exposed, due, writer, restoring, clearing, spent>>

\* CommitNow returns, releasing the mutex; a snapshot request goes on to PutSnapshot.
FinishCommit(g) ==
  /\ job[g].pc = "publishing"
  /\ \/ \E new \in BOOLEAN : Publish(g, new) /\ UNCHANGED spent
     \/ /\ spent.faults < MaxFaults
        /\ spent' = [spent EXCEPT !.faults = @ + 1]
        /\ UNCHANGED feed
  /\ pending' = IF job[g].who = Loop THEN pending
                ELSE pending \cup {[gw |-> g, label |-> job[g].who, root |-> job[g].root]}
  /\ job' = [job EXCEPT ![g] = IdleJob]
  /\ UNCHANGED <<storeVars, docs, exposed, dirty, due, writer, restoring, clearing>>

\* A store error, or the request's context cancelled, inside CommitNow.
CommitFails(g) ==
  /\ job[g].pc \in {"locked", "listing", "advancing"}
  /\ spent.faults < MaxFaults
  /\ spent' = [spent EXCEPT !.faults = @ + 1]
  /\ job' = [job EXCEPT ![g] = IdleJob]
  /\ UNCHANGED <<storeVars, swarmVars, dirty, due, reqVars>>

(***************************************************************************)
(* Snapshots and restore.                                                  *)
(***************************************************************************)
PutSnapshot(p) ==
  /\ pending' = pending \ {p}
  /\ snaps' = IF bucket.exists THEN [snaps EXCEPT ![p.label] = p.root] ELSE snaps
  /\ UNCHANGED <<bucket, index, swarmVars, loopVars, writer, restoring, clearing, spent>>

\* Roots a restore request can name: a snapshot's, or one HeadBucket or the feed gave.
RestoreTargets ==
  ({snaps[l] : l \in Labels} \cup {bucket.head} \cup {u.root : u \in feed}) \ {0}

\* handleRestoreBucket up to the point where it holds the decoded commit. A wrong
\* identity is an error, a missing one a refusal; neither changes anything.
BeginRestore(g, root, id) ==
  /\ bucket.exists
  /\ spent.restores < MaxRestores
  /\ \A k \in Keys : opensWith(docs[root].objects[k], docs[root].rec, id)
  /\ SealedCount(docs[root], id) = 0
  /\ spent' = [spent EXCEPT !.restores = @ + 1]
  /\ restoring' = restoring \cup {[gw |-> g, root |-> root, objects |-> GetCommit(docs[root], id)]}
  /\ UNCHANGED <<storeVars, swarmVars, loopVars, writer, pending, clearing>>

\* Mutant: the rollback moves the head and not the sequence number.
RestoreKeepsSeq(p) ==
  /\ restoring' = restoring \ {p}
  /\ IF bucket.exists
     THEN index' = p.objects /\ bucket' = [bucket EXCEPT !.head = p.root]
     ELSE UNCHANGED <<index, bucket>>
  /\ UNCHANGED <<snaps, swarmVars, loopVars, writer, pending, clearing, spent>>

RestoreBucket(p) ==
  /\ restoring' = restoring \ {p}
  /\ IF bucket.exists
     THEN /\ index' = p.objects
          /\ bucket' = [bucket EXCEPT !.head = p.root, !.seq = docs[p.root].seq]
     ELSE UNCHANGED <<index, bucket>>
  /\ UNCHANGED <<snaps, swarmVars, loopVars, writer, pending, clearing, spent>>

(***************************************************************************)
(* A gateway stops and starts again: everything it held in memory is gone. *)
(***************************************************************************)
Restart(g) ==
  /\ spent.stops < MaxStops
  /\ spent' = [spent EXCEPT !.stops = @ + 1]
  /\ dirty' = [dirty EXCEPT ![g] = FALSE]
  /\ due' = [due EXCEPT ![g] = FALSE]
  /\ job' = [job EXCEPT ![g] = IdleJob]
  /\ writer' = [w \in Writers |-> IF writer[w] = g THEN Idle ELSE writer[w]]
  /\ pending' = {p \in pending : p.gw # g}
  /\ restoring' = {p \in restoring : p.gw # g}
  /\ clearing' = [clearing EXCEPT ![g] = NotClearing]
  /\ UNCHANGED <<storeVars, swarmVars>>

(***************************************************************************)
(* The specification.                                                      *)
(***************************************************************************)
CommitStep(g) ==
  \/ ReadBucket(g) \/ ListPage(g) \/ Build(g) \/ SetBucketHead(g) \/ FinishCommit(g)
  \/ \E k \in Keys : BuildRefuses(g, k)

Fault(g) ==
  \/ CommitFails(g) \/ Restart(g)
  \/ \E n \in 0..NKeys : BuildFails(g, n)

Handler(g) ==
  \/ \E w \in Writers, k \in Keys, o \in Objects \cup {Absent} : WriteObject(w, g, k, o)
  \/ \E w \in Writers, rec \in Recipients : SetRecipient(w, g, rec)
  \/ ClearBegin(g) \/ ClearCheck(g) \/ ClearRecipient(g)
  \/ \E root \in RestoreTargets, id \in Recipients \cup {NoRecipient} : BeginRestore(g, root, id)

Next ==
  \/ \E act \in BOOLEAN, rec \in Recipients \cup {NoRecipient} : CreateBucket(act, rec)
  \/ DeleteBucket
  \/ \E w \in Writers : Notify(w)
  \/ \E p \in pending : PutSnapshot(p)
  \/ \E p \in restoring : RestoreBucket(p)
  \/ \E g \in Gateways :
       \/ Handler(g) \/ CommitStep(g) \/ Fault(g)
       \/ Tick(g) \/ \E who \in Labels \cup {Loop} : LockCommit(g, who)

Spec == Init /\ [][Next]_vars

\* The Run goroutine and the CommitNow it is in keep going, and a handler that wrote the
\* store reaches its Notify. Clients are free to stop.
Fairness ==
  /\ \A g \in Gateways : WF_vars(CommitStep(g)) /\ WF_vars(Tick(g)) /\ WF_vars(LockCommit(g, Loop))
  /\ \A w \in Writers : WF_vars(Notify(w))

FairSpec == Spec /\ Fairness

(***************************************************************************)
(* Properties.                                                             *)
(***************************************************************************)
Row == [exists : BOOLEAN, act : BOOLEAN, rec : Recipients \cup {NoRecipient}, head : Nat, seq : Nat]
Job == [pc : {"idle", "locked", "listing", "building", "advancing", "publishing"},
        who : Labels \cup {Loop}, rec : Recipients \cup {NoRecipient},
        parent : Nat, seq : Nat, after : Nat, objects : Rows, root : Nat]
Update == [index : Int, root : Nat]
SnapshotRequest == [gw : Gateways, label : Labels, root : Nat]
RestoreRequest == [gw : Gateways, root : Nat, objects : Rows]
ClearRequest == [pc : {"idle", "checking", "checked"}, after : Nat]
Spent == [writes : Nat, faults : Nat, stops : Nat, deletes : Nat, restores : Nat]

\* Type correctness of every variable. Rows and WireObject hold only objects that clients
\* wrote, whole: no commit document drops a reference of an object, and no restore leaves
\* a row whose sealed references were not opened.
TypeOK ==
  /\ bucket \in Row /\ index \in Rows /\ snaps \in [Labels -> Nat]
  /\ docs \in Seq(Commit) /\ exposed \subseteq Refs /\ feed \subseteq Update
  /\ dirty \in [Gateways -> BOOLEAN] /\ due \in [Gateways -> BOOLEAN]
  /\ job \in [Gateways -> Job]
  /\ writer \in [Writers -> Gateways \cup {Idle}]
  /\ pending \subseteq SnapshotRequest /\ restoring \subseteq RestoreRequest
  /\ clearing \in [Gateways -> ClearRequest]
  /\ spent \in Spent

\* A reference that embeds a decryption key is never readable in a chunk Build uploads,
\* and never sealed to nobody: a document that seals one names the recipient whose identity
\* opens it, whatever happens to the bucket's recipient and objects while the commit is
\* built and wherever the build stops (keyBearing: "must never be published in the clear").
KeysAreSealed ==
  /\ exposed \cap KeyBearing = {}
  /\ \A r \in DOMAIN docs, k \in Keys :
       docs[r].objects[k] # Absent =>
         /\ docs[r].objects[k].clear \cap KeyBearing = {}
         /\ docs[r].objects[k].sealed # {} => docs[r].rec # NoRecipient

SeqOf(root) == IF root = 0 THEN 0 ELSE docs[root].seq

\* Following parents from any commit on Swarm, and from the head, reaches the empty root
\* in exactly as many steps as the sequence number says: parents are older commits and
\* sequence numbers are contiguous, across restores, failures, restarts and re-creation.
ChainWellFormed ==
  /\ \A r \in DOMAIN docs : docs[r].parent \in 0..(r - 1) /\ docs[r].seq = SeqOf(docs[r].parent) + 1
  /\ bucket.head \in 0..Len(docs) /\ bucket.seq = SeqOf(bucket.head)

Committed == ContentOf(bucket.head) = index
Frozen == bucket.rec = NoRecipient /\ \E k \in Keys : HasKeyBearingRefs(index[k])
Quiet ==
  /\ \A g \in Gateways : ~dirty[g] /\ ~due[g] /\ job[g].pc = "idle"
  /\ \A w \in Writers : writer[w] = Idle
  /\ restoring = {}

\* Nothing is left to do only when the head holds exactly the bucket's objects, or when
\* the commit was refused for want of a recipient and still would be: no write slips in
\* between clearing the dirty mark, the pages of the listing and advancing the head.
QuietMeansCommitted == bucket.exists /\ ~bucket.act /\ Quiet => Committed \/ Frozen

\* The bucket was neither restored nor deleted so far: its commits form one line.
Undisturbed == spent.restores = 0 /\ spent.deletes = 0

\* Until then the head moves only to a commit whose parent it was: no commit that has
\* been the head drops out of the chain, whatever fails half-way.
HeadAdvancesByOne ==
  [][(bucket'.head # bucket.head /\ bucket'.head # 0 /\ Undisturbed')
       => docs'[bucket'.head].parent = bucket.head]_vars

\* The update a lookup of the feed resolves to.
FeedHead == (CHOOSE u \in feed : \A v \in feed : v.index <= u.index).root

\* A commit whose publication succeeds is what the feed resolves to afterwards, also when
\* the publication before it failed ("the feed catches up on the next commit"), as long as
\* no restore or deletion has moved the sequence numbers back.
FeedCatchesUp ==
  [][\A g \in Gateways :
       job[g].pc = "publishing" /\ feed' # feed /\ Undisturbed => FeedHead' = job[g].root]_vars

\* A bucket marked dirty is eventually committed ("a commit follows after the debounce
\* window"), unless the commit is refused, the bucket is ACT-protected or it is gone.
DirtyIsCommitted ==
  \A g \in Gateways : dirty[g] ~> (Committed \/ Frozen \/ bucket.act \/ ~bucket.exists)

\* Setting a recipient on a bucket whose chain was frozen makes the chain resume.
RecipientResumesChain ==
  (bucket.rec # NoRecipient) ~> (Committed \/ bucket.rec = NoRecipient \/ bucket.act)
=============================================================================

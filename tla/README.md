# s3warm in TLA+

s3warm is an S3 gateway in front of Swarm. Clients speak S3; object bytes go to
a Bee node, everything else (buckets, object rows, versions, multipart
bookkeeping, snapshots) goes to an *index* kept in memory, in SQLite or in
Postgres. A background *committer* turns the index of a bucket into a chain of
public, immutable commit documents on Swarm, and a *feed* anchors the head of
the chain, so that the index can be rebuilt without the gateway.

This directory holds TLA+ models of that program, TLC configurations that check
them on small instances and TLAPS proofs of the central results. Paths below are
relative to the repository root.

## Inventory

| Component | State | Operations | Meets others through | What makes it correct |
|---|---|---|---|---|
| Committer (`internal/manifest/committer.go`) | dirty set, commit mutex, per process | `Notify`, `Run`, `CommitNow` | handlers notify; reads bucket and rows page by page, uploads, moves the head, publishes | nothing written is left uncommitted; the chain is contiguous |
| Manifest (`manifest.go`, `recovery.go`) | documents on Swarm | `Build`, `seal`, `GetCommit`, `open` | called by committer and restore | a reference that embeds its key is never readable and always opens for its recipient; a document is the bucket at one moment |
| Feed (`feed.go`) | updates on Swarm, one per sequence number | `Publish` | last step of a commit | resolves to the newest published commit |
| Snapshots and restore (`api/snapshot.go`) | snapshots table | create, list, restore | commit on demand; swaps rows and head | a rollback puts back a content that was there, whole |
| Object index (`internal/store`, `api/object.go`, `api/versioning.go`) | rows of a key: version id, stamp, latest flag, marker | PUT, copy, DELETE, delete a version, tags, versioning status | every handler; three stores | one latest row, versions kept, conditions atomic with the write |
| Multipart (`api/multipart.go`) | uploads and parts | create, upload or copy a part, complete, abort | writes a row at the end | the object is what the client named; retries are harmless; nothing lost |
| ACT grants (`api/grants.go`) | grantee list and history of a bucket; the history each piece was written under | create, grant, revoke; every upload, copy and read | Bee re-keys the history; writes encrypt under it and may start another | no acknowledged grant lost, no revoke undone, every piece readable under its own history |
| Stamps and funds (`internal/stamp`) | cache of batches, wallet, chequebook | check, sweep, top up, dilute, deposit | Bee's wallet, shared | a batch in use stays alive and is not paid for twice; the reserve kept |
| Listings (`api/list.go`) | none | `scanObjects`, roll-up, continuation | pages of the index | every key, version and prefix once, while the bucket changes |
| Upload bodies (`api/object.go`, `auth/chunked.go`) | chunk reader, hashes | `uploadBody`, `Read`, `advance`, `finishChunk` | the HTTP transport pulls, Bee answers when it likes | what is accepted is what the client sent |
| Reads (`api/object.go`, `api/multipart.go`) | none | conditions, ranges, parts, composite reads, listings of parts | Bee | exactly the bytes asked for; every part listed once |
| Authentication (`internal/auth`) | none | SigV4, credentials | before every handler | computations on strings; not modelled |
| Routing, tenancy (`api/server.go`) | none | dispatch, `authorizeBucket` | all handlers | no request acts on another tenant's bucket |
| CORS, bucket tagging, encryption default | one column each | get, put, delete | – | written whole |
| Configuration, metrics, XML types | – | – | – | not modelled |

What is hard here: handlers, the committer, restores and several gateways
interleave at every store and Swarm call; nothing but the index is durable on
the gateway's side, and what reached Swarm cannot be taken back; requests act on
a bucket row they read long before; clients retry and hang up; sequence numbers
go backwards on restore. `PROJECT.json` lists the hazards line by line.

## Modules

`CommitChain` — one bucket, `Gateways` processes. `bucket`, `index` and `snaps`
are the store; `docs`, `exposed` and `feed` are Swarm; `dirty`, `due` and `job`
are a committer's memory; `writer`, `pending`, `restoring` and `clearing` are
handlers between two calls. Each action is what the code does between two calls
that others can observe:

* `WriteObject`/`Notify` stand for every object mutation: the store call, then
  `commits.Notify`. Which row a mutation leaves visible is `ObjectIndex`'s
  subject; here any visible content may result.
* `SetRecipient`, `ClearBegin`/`ClearCheck`/`ClearRecipient`: the recovery
  recipient, the check going page by page over the rows.
* `Tick`, `LockCommit`, `ReadBucket`, `ListPage`, `Build` (or `BuildRefuses`,
  `BuildFails`), `SetBucketHead`, `FinishCommit`: the Run goroutine and
  `CommitNow`, also when a snapshot calls it. The dirty mark goes in `LockCommit`,
  before anything is read, as in the code.
* `PutSnapshot`, `BeginRestore`, `RestoreBucket`; `CommitFails`; `Restart`.

An object is the set of references it holds; a reference is plain or embeds its
key. The content of a commit document is per key what `seal` leaves readable and
what it encrypts. Delete markers and old versions are invisible to
`ListObjects` and left out; `DeleteBucket` is therefore enabled also for a bucket
of markers only, which the code refuses: the model has more behaviours. A debounce
window is the freedom to take `Tick` at any time. Bee may keep either of two
single-owner chunks written to one address.

`CommitHistory` adds the history variable `written`, every content a client gave
the bucket. `MCCommitChain` gives objects.

`ObjectIndex` — the rows of one key. A request reads the versioning status
(`Begin...`), takes its stamp (`stampVersion`), and calls the store later. `store`
is the deployment's store: the in-memory map and SQLite have one critical
section (`PutObject`); a Postgres transaction takes the key's advisory lock,
checks (`CheckCondition`) and writes (`PutLocked`), with `DeleteObject` outside the
lock. `sortVersions` and `promote` are the two ways the latest flag is kept.

`KeyRegister` — the abstract specification: a register with conditional
writes whose value carries tags. `ObjectIndex` in a bucket that was never versioned
implements it, with `cur` the entity tag and the tags of the latest row and a pending
operation for each request between its first read and its store call. A change of
tags applies to whatever object is there when it takes effect, as a whole, and fails
only if there is none. Requests that name a version write to that row or to none.

`Multipart` — the uploads of one key. `rows` is the sequence of objects the key
has held (their order is `ObjectIndex`'s subject); a body is its own MD5, so an
entity tag is a body and a multipart tag a sequence of bodies. `Complete`,
`ListParts`, `PutComposite` and `FinishComplete` are the store calls of one handler;
`CompleteAgain` answers a retry from the object. `MCMultipart` adds symmetry of the
request threads.

`Listing` — one client that follows a listing of objects or of versions from
response to response. `rows` is the index, `req` the response being assembled: its
marker (`after`), the `cursor` of its next query, the rows of the last query not yet
looked at, the items so far. `FindMarker`, `Query`, `Scan` and `EndOfPage` are the
two queries of `ListVersions` (the second alone for `ListObjects`), one turn of the
inner loop, and its end; a truncated response is followed by the request that
continues it. A name is a number, its place in byte order, and a prefix and
delimiter are what they make of the keys: those that match and the common prefix
each rolls up to. Writers insert rows with stamps in any order, replace null
versions and delete. `held` and `ever` are histories: what was there all the time
and what was there at some time. The latest row is the one with the greatest
stamp, as in the in-memory store; what becomes of the flag in SQL is
`ObjectIndex`'s subject.

`StampFunds` — one batch on the chain (`batch`), the manager's `cache` of it, the
`call` of each upload, of the sweep and of the autopilot, the chequebook `keeper`,
and the node's `funds`. A `Get` is answered from the cache or by `Answer` and
`Receive`; `Evaluate`, `DiluteBatch`, `CheckWallet` and `TopupBatch` are the
autopilot's pass, `ChequebookBalance`, `WalletBalance` and `ChequebookDeposit` the
keeper's check. Time is in blocks, a price one per block and chunk. Bee's side
(`Accepts`, `Issue`, `Mature`, what a transaction does) is external. A unit of time
is long against a fetch or a pass (minutes against seconds in the code), so
`Elapse` waits for those; uploads and deposits take any time. `MCStampFunds` and
`MCListing` give batches, views and contents.

`BodyUpload` — one PUT. `wire` is what arrives of the client's framing: whole, torn
inside a frame or a line, with a chunk lost, repeated, exchanged with its neighbour,
cut off or altered, a trailer lost or changed. `reader` is the `ChunkedReader`, `Read`
one call of it for one byte. Three parties run concurrently: the HTTP transport
(`TransportCopies`, `TransportDrains`) pulls bytes through the reader and the hashes
and hands them to Bee; Bee (`BeeStores`, `BeeRefuses`) answers as soon as it has the
announced bytes; `uploadBody` waits for the first of Bee's answer and a failed write
(`UploadBytes`) and then compares digests (`Compare`). A signature is the chain of
all it signs and a digest the bytes themselves, that is, neither can be forged. Bee
and Go's `net/http` are external.

`BucketAccess` — one bucket name, tenants and root. Every request is let in by one
read of the bucket row (`Dispatch`, `authorizeBucket`) and works from a later one
(`GetBucket`); `First` and the `pc` of a request are the order of its calls.
`hists[h]` is who can read what is written under history `h`, `lists` Bee's grantee lists,
which are only ever followed by new ones. A `Piece` is one reference: what Bee
encrypted it `under` and what its row has `recorded`. `UploadBytes` extends the history
or meets a fresh one, which `Track` writes back; `BeeGrants` and `RecordGrants` are a
grant mutation. Copies carry pieces over, by reference or by uploading them again.
Any request may die between any two calls (`Fails`). `life` numbers the buckets that
have had the name; a piece whose copy began in one life and ended in another has
life 0. `granted` is what the acknowledged mutations amount to.

`ObjectReads` — one GET, HEAD or listing of parts. A byte is its part and its place
in it, so that a byte from the wrong place shows. `parseRangeSpec` and
`preparePartRequest` are the code's arithmetic; `Selected` is the set of places a range
means, the reference they are compared with. `ServePart` is one turn of
`serveComposite`'s loop, in which Bee or the client may stop after any byte.
`ListAttributes`, `ListParts` and `PutPart` are pages of part listings while parts are
uploaded. `MCBodyUpload`, `MCBucketAccess` and `MCObjectReads` give the requests, part
lists and symmetry.

Each component's proofs are in a module of their own that extends it:
`CommitChainProofs` (also for `CommitHistory`), `MultipartProofs`,
`ObjectIndexProofs`, `BucketAccessProofs`, `ListingProofs`, `StampFundsProofs`,
`BodyUploadProofs` and `ObjectReadsProofs`.

Definitions commented "Mutant" are not part of any specification: each is a
plausible slip in the code, and the run named in `PROJECT.json` must notice it
when it takes the place of the definition that follows it.

## Runs

| Run | Instance | Checks |
|---|---|---|
| `chain_safety` | 1 gateway, 1 key with a page of 1, an object with a plain and a key-bearing reference, 1 recipient, 2 writes, 2 commits, a fault, a restart, a deletion, a restore | `TypeOK`, `KeysAreSealed`, `ChainWellFormed` |
| `chain_live` | 2 writers, 2 keys in pages of 1, 3 writes, 4 commits, a deletion, fairness | `QuietMeansCommitted`, `DirtyIsCommitted`, `RecipientResumesChain` |
| `chain_history` | 1 gateway, 1 key, a plain and a mixed object, 2 writes, 2 commits, a fault, a restart, a deletion, a restore | `PointInTime`, `RollbackIsReal`, `FeedCatchesUp`, `HeadAdvancesByOne` |
| `index_register` | never versioned, memory and SQLite, 2 threads, 2 values, all 16 pairs of headers, tagged or not, 3 requests | `IsRegister` (refinement of `KeyRegister`) |
| `index_versions` | the three stores, versioned at the start and switched at will, 2 threads, 4 requests | `TypeOK`, `NewestIsLatest`, `VersionsKept`, `ConditionHolds` |
| `multipart` | 1 upload of 2 parts, a large and a small body, 2 threads, 4 requests, 1 failure | `TypeOK`, `FlagMatchesReferences`, `AcksAreTrue`, `CompletedAsAsked`, `UploadsAreNotLost` |
| `listing` | 4 keys of which 3 share a prefix, one version each or a key with three; no delimiter, a delimiter, a prefix; start at the beginning or inside the prefix; max-keys 0–2, queries of 2 rows, 2 writes, a failing query, fairness | `TypeOK`, `NothingMissed`, `OnceInOrder`, `NothingInvented`, `ListingEnds` |
| `funds` | a batch half full or full with a life of 6, mutable or not, own or not, autopilot on or off; sweep every 1, pass every 2, thresholds 8 and 10; 2 uploads, 6 units of time, a lost answer | `TypeOK`, `EstimateHolds`, `KeptAlive`, `DilutedWhenFull`, `ToppedUpOnce`, `ReserveWithoutPilot` |
| `body` | bodies of up to 3 chunks of 1 or 2 bytes, plain or in each framing, length announced rightly, one byte off or not at all, with and without digest, checksum in a header or trailer, every kind of damage | `TypeOK`, `Intact`, `AllButTheLast` |
| `access` | 1 tenant and root, 2 grantee keys, 1 object key, 2 threads, 5 requests, 3 histories, the bucket created twice | `TypeOK`, `OwnerReads`, `GrantsInEffect`, `OwnBucketOnly` |
| `reads` | up to 3 parts of 0, 1 or 2 bytes, whole objects of up to 3; every range with ends up to 7, part numbers to 4, every combination of conditions; pages of 1 or 2 parts | `ServedAsAsked`, `PartsListedOnce` |
| `find_two_latest` | Postgres, versioned, 2 threads, 3 requests | `OneLatest`, violated |

Bounds. The interesting cases need one page boundary (two keys, pages of one),
one write between any two steps of a commit (two or three writes), a second
commit on top of a first (2–4 commits), one failure, one restart. A listing of
more pages repeats `ListPage`, and more gateways than the one in the passing runs
are covered by the theorems for `TypeOK`, `KeysAreSealed`, `ChainWellFormed`,
`PointInTime` and `RollbackIsReal`.
`chain_live` grants one more commit than there are writes so that the bound never
is what stops a commit, and has no snapshot requests, which would use commits up.
The theorems cover every bound, with the hypotheses given under "Proofs". In `listing` the queries' pages and the client's are of different sizes, so that
each ends inside the other and inside the prefix; two writes are one to remove or
replace what a marker names and one more. In `funds` the time is the first
life of the batch, three cycles: a dilution in one pass, the top-up in the next,
and one more to repeat either. The wallet pays for one top-up and has one unit
above the reserve. In `body` three chunks give a first, a middle and a last one, and
two bytes an end inside a chunk; damage is done one kind at a time, or to a chunk and the trailer. In
`access` two requests overlap and three more, in any order, prepare what they meet: a
bucket, an object, an upload, a grant; a second life of the bucket is one that
requests of the first may still hit. `reads` goes one past the longest object in
every direction, and parts without bytes stand at every place.
Deadlock checking is off: clients may stop, and the bounds run out.

Fairness. `FairSpec` assumes weak fairness of `Tick`, of `LockCommit` for the Run
goroutine, of the steps of a running `CommitNow`, and of a handler's `Notify` after its
store call. Go runs every ready goroutine, the ticker fires for ever, and no step
waits for another process; clients, faults and restarts get no fairness. In
`Listing` the handler's steps, and the client's to follow a marker, are weakly
fair; writers and failures are not, and are finitely many. `BodyUpload`, `BucketAccess`
and `ObjectReads` state safety only.

## Proofs

Every invariant and action property of the passing runs is a theorem, for every value of the constants the assumptions allow. A theorem has a
hypothesis only where the property is false without it; each of those corresponds to
an entry under "Disagreements". The properties are seldom inductive; what follows
names the invariant that carries each and what it adds. Every one of them was checked
by TLC on the component's run before it was proved.

**Commit chain** (`CommitChainProofs`), any number of gateways, writers and keys, any
page size, objects and recipients:

* `TypeCorrect` (`TypeOK`). `TypeInv` adds `RootsKnown`: every root held in a row,
  snapshot, feed update, job or request is that of a document which exists, without
  which a restore could read past the end of `docs`.
* `KeysStaySealed` (`KeysAreSealed`): `Build` decides with the recipient of its own
  job, which no handler can change, and what it shows of an object, complete or cut
  off at any key, is `clearOf`.
* `ChainStaysWellFormed` (`ChainWellFormed`). `JobSound` adds that a job's parent is a
  document whose number is one below the job's, and that a built root carries the
  job's number; both survive restores and re-creation because they speak of
  documents only.
* `QuietIsCommitted` (`QuietMeansCommitted`), under `Calm`: one gateway, no faults,
  restarts or restores. `QuietInv` says for every key what is owed: a mark, a due
  entry, a handler about to notify, or a job that has yet to read that key is still to
  come, or the job's copy, the document or the head agrees with the index.

**History** (`CommitChainProofs`, second half, about `CommitHistory`):

* `CommitsArePointsInTime` (`PointInTime`) and `RollbacksAreReal` (`RollbackIsReal`),
  for any number of gateways, if a bucket fits in one page (`OnePage`; a larger one
  tears). `HistoryInv`: the index, every document, every restore in hand and every
  listing and build is a content that was once written.
* `HeadsFollowOneAnother` (`HeadAdvancesByOne`) and `FeedFollowsHead`
  (`FeedCatchesUp`), for any number of gateways whose commits do not overlap (`Serial`: no
  commit reads the bucket's row between another's read of it and its end), with faults and
  restarts. One gateway satisfies `Serial` in every state (`OneGatewayIsSerial`), because its
  mutex spans a commit. `LineInv`: a commit in flight continues the head it will replace, and
  the feed holds nothing at or past the number about to be published. Without `Serial` two
  gateways fork the chain.

**Object index** (`ObjectIndexProofs`), any number of requests and values:

* `RowsTyped` (`TypeOK`) and `NewestStaysLatest` (`NewestIsLatest`), from `IndexInv`.
* `NoVersionLost` (`VersionsKept`) for a bucket versioned from the start
  (`InitMode # ""`). `VersionedInv` adds that no request in flight read the bucket as
  never versioned.
* `ConditionsAtomic` (`ConditionHolds`) for the in-memory store and SQLite in any
  mode, for Postgres if the bucket was versioned from the start, which leaves out its
  `DeleteObject` outside the advisory lock.
* `KeyIsRegister`: `ObjectIndex` implements `KeyRegister` (`IsRegister`) in a never
  versioned bucket, step by step under the mapping `regCur`, `regOp`. `Plain` is the invariant: at
  most one row, the null version, not a marker, and requests that know no versions.

**Multipart** (`MultipartProofs`), any number of uploads, parts, threads and failures:
`TypesKept`, `FlagsMatch` (`FlagMatchesReferences`), `AcksStayTrue` (`AcksAreTrue`),
`CompletionsAsAsked` (`CompletedAsAsked`) and `UploadsKept` (`UploadsAreNotLost`), from
`MultipartInv`. It follows the flag through the stages: parts of an open upload carry
the upload's flag, a part in flight that of its upload if that is still open, a
completion the flag it read. `Checked` is what a completion that passed its check
holds in its own copy of the parts, which later part uploads cannot touch. `Monotone`
states what no step undoes and carries the facts about the requests a step does not
concern.

**Access** (`BucketAccessProofs`), any tenants, grantees, keys, requests, lives and
histories: `RowsProtected` (`TypeOK`), `OwnerAlwaysReads` (`OwnerReads`),
`GrantsStayInEffect` (`GrantsInEffect`) and `OwnersOnly` (`OwnBucketOnly`). `AccessInv`
says of every row, upload and request in flight that its pieces decrypt under what
they record, that a history met or extended by a request is one the bucket's owner
reads, and that what a request holds of the bucket is of the life it saw or an earlier
one. The attempt to prove `OwnerReads` found a case TLC's five requests do not reach, a
copy that spans two lives of the bucket; it is listed below and the property now
excludes it by the life of the piece.

**Listings** (`ListingProofs`), any contents, views, page sizes and writers:
`PagesBounded` (`TypeOK`), `ListedOnceInOrder` (`OnceInOrder`), `ListedWasThere`
(`NothingInvented`) and `ListedComplete` (`NothingMissed`). `ListingInv` has the rows in
hand between the cursor and the end of the query, all items at or before the last
position passed, and, unless a marker was removed or replaced, everything held at or
before that position listed or rolled up.

**Stamps and funds** (`StampFundsProofs`), any prices, batches, number of uploads and
failures: `NeverOverdrawn` (`TypeOK`), `NeverOverstated` (`EstimateHolds`),
`DilutionJustified` (`DilutedWhenFull`), `NeverToppedUpTwice` (`ToppedUpOnce`),
`ReserveKept` (`ReserveWithoutPilot`) from `FundsInv`, which bounds the age of every
cache entry and answer on its way by the time since the last change of the batch; and
`NeverExpires` (`KeptAlive`) from `AliveInv`, under `Patience`: the threshold is three
cycles and the batch starts with two (30 days against an hour in the code).

**Upload bodies** (`BodyUploadProofs`), any set of requests, of any number of chunks and
bytes, under all the damage of `Arrivals`: `HashedBeforeGiven` (`TypeOK`),
`AcceptedIsIntact` (`Intact`) and `OnlyTheLastUnchecked` (`AllButTheLast`). `ReaderIn` is
what holds of the reader: without an error the bytes hashed are those of the frames
before it and the beginning of the one it is in, and in a signed body its signature is
that of the client's chunks so far; so a chunk of size zero can only verify as the
client's last. `BodyInv` adds that Bee is given what was hashed, up to the announced
length, and that a body written to the end was read to the end. `FlattenSeq` is
defined by recursion; that it is what it should be is proved by a least
counterexample (`LeastNat`) in place of an induction.

**Reads** (`ObjectReadsProofs`), objects of any number of parts of any sizes, any request:
`ServesAsAsked` (`ServedAsAsked`) and `ListsPartsOnce` (`PartsListedOnce`), from `ReadsInv`.

* `Sum` and the join of the parts are defined by recursion. `RunsExists` shows that such a
  function exists, a least place where two would differ that there is one only, both by
  `ByOnes`, an induction over a set. `JoinedIs` then says which byte stands where: byte `k` of
  part `i` is at `Before(parts, i - 1) + k`, `Before` being what the code adds up in `start`.
* `ParseIs` compares `parseRangeSpec` with `Selected`, case by case: a range that counts is
  the interval from its least to its greatest place. `ReadsRequested` adds part numbers
  (`Resolved`: a part has become the range it takes).
* `Sending` and `Streaming` are the loop's invariant: what was sent is the content from the
  first byte of the range on; `left` is what is missing; and the loop stands at the beginning
  of a part, which is where the next byte is unless the range has not begun. That `offset`
  may be short of the range only while nothing was sent is what `lo` and `hi` need.
* `ListInv` has the marker as bound: all that was listed is at or before it, and of what was
  there from the beginning all at or before it was listed. A part put in the meantime
  keeps the order (`PutIs`) and takes no number away.

Assumed: the assumptions on the constants of each module (`ChainAssumption`,
`MultipartAssumption`, `IndexAssumption`, `AccessAssumption`, `ListingAssumption`,
`FundsAssumption`, `BodyAssumption`, `ReadsAssumption`), which TLC evaluates on every run, and the
hypotheses given above. `FundsAssumption` has `Interval <= Cycle`: the cache is swept
every 5 minutes (`internal/stamp/manager.go:23`), the autopilot passes every hour
(`autopilot.go:16`).

Model-checked only: liveness (`DirtyIsCommitted`, `RecipientResumesChain`,
`ListingEnds`), which is out of the prover's reach.

## Disagreements between code and documentation

One has a run of its own (`find_two_latest`); `PROJECT.json` quotes the sentence. The
following were met while modelling and reproduced with TLC, by the change of constants
or the formula given; they are not kept as runs. Those without either were read from
the code.

* *A restore that a commit overwrites.* `QuietMeansCommitted` under `Spec` with one plain
  object and key, `Labels = {l1}`, 3 writes, 3 commits, 1 restore: a commit that listed
  before the restore sets its own head after it, and the restore does not notify
  (`internal/api/snapshot.go:149`, "the index swap is atomic, and the head points at the
  restored root").
* *A lost dirty mark.* `DirtyIsCommitted` under `FairSpec` with `MaxFaults = 1`, one plain
  object and key, 2 writes, 3 commits: `CommitNow` drops the mark before anything can fail
  (`internal/manifest/committer.go:136`), no error path puts it back and `Run` only logs, so
  that no commit follows until another write (`committer.go:77`, "marks a bucket dirty; a
  commit follows after the debounce window").
* *Completing twice.* `\A u \in Uploads : written[u] <= 1` in `multipart`: the
  bookkeeping goes only after the object is written, so that a retry which meets it
  writes again, a second version or over what another client has put since
  (`internal/api/multipart.go:272`, "Complete must be retry-idempotent").
* *Two gateways on one index.* `QuietMeansCommitted` with `Gateways = {g1, g2}`: the
  commit mutex is per process, the slower commit puts an older listing at the head
  and nothing is dirty (`docs/DESIGN.md:276`).
* *Torn commits.* `PointInTime` with `NKeys = 2`, `PageSize = 1`: pages of a listing are
  separate transactions (`internal/manifest/manifest.go:4`).
* *The feed after a rollback.* `FeedCatchesUp` without `Undisturbed`: sequence numbers,
  and with them feed indexes, go back, and a lookup keeps finding the update from
  before the rollback (`internal/manifest/committer.go:199`).
* *Clearing a recipient.* An encrypted object may be written between the check and
  the store call, which freezes the chain the check protects
  (`internal/api/bucket.go:264`): `[][bucket.rec # NoRecipient /\ bucket'.rec = NoRecipient
  /\ bucket'.exists => \A k \in Keys : ~HasKeyBearingRefs(index[k])]_vars`.
* *Clean shutdown.* `Run` returns when its context ends; nothing commits what is
  dirty (`docs/DESIGN.md:166`).
* *Last commit wins.* In a versioned bucket the later stamp wins, not the later
  transaction (`docs/DESIGN.md:274`).
* *A DELETE that read the bucket before versioning was enabled* removes every
  version: `VersionsKept` with `InitMode = ""` (`docs/DESIGN.md:284`).
* *A DELETE inside a Postgres PUT.* `DeleteObject` does not take the key's advisory
  lock, so that the row an If-Match was checked against may be gone when the insert
  runs (`internal/store/postgres.go:436`): `ConditionHolds` with `InitMode = ""`,
  `Stores = {"postgres"}`.
* *Markers of version listings.* A version that is deleted after it became the
  marker makes the next page skip the other versions of its key, and a null
  version that is rewritten makes it list them again
  (`internal/store/store.go:229`, "starting strictly after the (keyMarker, versionMarker)
  position"): `NothingMissed` and `OnceInOrder` without `strayed`.
* *Buying on old state.* When fetches fail between two passes `Get` hands out the
  entry from before the top-up and the autopilot buys again
  (`docs/REFERENCE.md:384`, "decisions always from observed (mined) state"):
  `ToppedUpOnce` without `spent.faults = 0`, `MaxFaults = 3`.
* *The reserve.* A top-up between the keeper's reading of the wallet and its
  deposit lets the deposit take of the reserve (`docs/REFERENCE.md:396`):
  `ReserveWithoutPilot` without `~traits.autopilot`.
* *Capacity first.* A batch that is full again at each cycle is diluted each time and
  never topped up, while its life halves (`internal/stamp/autopilot.go:22`):
  `KeptAlive` without the bound on the depth. It takes uploads that double in volume
  every hour.
* *An old entry refuses uploads.* When Bee cannot be asked, an entry that says
  "not usable (yet)" refuses an upload that Bee would take
  (`internal/stamp/manager.go:107`, "lets the upload attempt decide").

* *Bee's answer overtakes the reader.* `Intact` without `~overtaken`: when the length is
  announced Bee may answer after the last byte and before the reader has checked the last
  chunk's signature, the framing's end or the trailer
  (`internal/api/object.go:180`, "decoding and verifying aws-chunked framing").
* *A trailer lost at a line boundary.* Read as a shorter trailer; an unsigned one then
  skips its checksum (`internal/auth/chunked.go:179`): `Intact` with
  `req.sum = "trailer"` in place of the last case of `Covered`.
* *A length announced as zero.* The body that comes nevertheless is drained, hashed and
  recorded with size and ETag, and no reference (`internal/api/object.go:278`).
  `BodyAssumption` leaves it out.
* *Uploads outlive their bucket.* Parts uploaded to a plain bucket can be completed in an
  ACT bucket created under its name, and the reverse, which nobody can read
  (`internal/store/store.go:82`, "every object is uploaded with swarm-act"): `OwnerReads`
  without `p.life = bucket.life`. A request that loaded the earlier bucket can make the
  later one ACT: `OwnerReads` without `~crossed`.
* *Copies across lives.* A part copied from a plain bucket that is deleted and created
  again as ACT between the read of the source's bucket row and that of its object is
  recorded without a history; the next grant starts another and nobody can
  read the part (`internal/api/multipart.go:193`): `OwnerReads` if `GetSourceObject`
  leaves `life` alone, in an instance
  with more requests than the `access` run has.
* *Overlapping grant mutations.* Each writes what Bee made of the row it had read; the later
  one loses the earlier one's grants or undoes its revokes, and so does a PUT that
  met a fresh history (`internal/api/object.go:273`): `GrantsInEffect` with
  `granted' = grants` in `SetBucketACT`.
* *Check and use.* A bucket deleted and created by another tenant after the check is
  acted on, and an error of the store passes the check
  (`internal/api/grants.go:30`, "a tenant key may only touch buckets its tenant owns"):
  `OwnBucketOnly` without `req[t].seen # bucket.life`.
* *Re-creating an own plain bucket with `x-swarm-act`* answers 200 and leaves it plain
  (`docs/REFERENCE.md:202`).
* *Tags on a delete marker.* In a versioned bucket a DELETE between the check and the write
  of a tagging request makes the tags those of the marker
  (`internal/api/tagging.go:160`): `\A r \in rows : r.marker => ~r.tagged`.
* *Parts by number.* `partNumber` counts places, listings show the numbers of upload; a
  part without bytes is answered with the whole object
  (`internal/api/object.go:973`; `ServedAsAsked` without `~EmptyPart`); HEAD with `partNumber`
  answers the full size (`object.go:531`).
* *Inverted ranges.* A range that ends before it starts is ignored, but is 416 when it also
  starts past the end, and objects in one piece leave it to Bee
  (`internal/api/object.go:978`, "ignore the header").
* *Pages of no parts.* `x-amz-max-parts: 0` makes `GetObjectAttributes` read the element before
  the first (`internal/api/object.go:873`); `ListParts` with `max-parts=0` answers truncated
  with marker 0 for ever. `ReadsAssumption` leaves both out.

## Not modelled

Crypto (age, SigV4, keccak, postage signatures): computations on strings, of which the
models keep what they bind. Routing from method and query to a handler, XML and URL
encoding, configuration, metrics: tables and conversions without state. The HTTP
transport to Bee beyond what an upload depends on; calls to Bee carry no timeout, so
a call that never returns is a request that takes no further step. Listings of
uploads, which read one table in one query. Schema creation and migration. Bucket
tagging, CORS and the encryption default, one column each, written whole. Of the fake
Bee only its ACT emulation is used. Deployments without a feed key are `CommitChain`
without the feed update; deployments without a committer have no chain.

## Plan

1. Done: the eight models, their runs, and a theorem for every safety property of the
   passing runs.
2. Sharper hypotheses: `PointInTime` for buckets of several pages as a statement about each
   page.

---------------------------- MODULE ListingProofs ----------------------------
(***************************************************************************)
(* Proofs about Listing, for every bucket, view, page size and max-keys,   *)
(* and any number of writes and failures: a response and a query are no    *)
(* longer than asked for, nothing is invented, and, as long as no marker   *)
(* strays, nothing is listed twice or out of order and nothing is missed.  *)
(***************************************************************************)
EXTENDS Listing, FiniteSetTheorems, SequenceTheorems, WellFoundedInduction, TLAPS

(***************************************************************************)
(* The inductive invariant.                                                *)
(***************************************************************************)
\* Keys and versions, and those a view is about.
KeyEntry == [key : Keys, vid : Stamps \cup {Null, None}, vseq : Stamps \cup {0}]
Under(view) == {e \in KeyEntry : e.key \in view.under}
Has(s, x) == \E i \in DOMAIN s : s[i] = x
Prefix(n) == [key |-> n, vid |-> None, vseq |-> 0]

\* EntryOf, of a listing of this kind.
Shown(kind, r) ==
  [key |-> r.key, vid |-> IF kind = "objects" THEN None ELSE r.vid,
   vseq |-> IF kind = "objects" THEN 0 ELSE r.vseq]

\* A key has no two rows with the same stamp, and none with a stamp to come.
RowsIn(rs, fr) ==
  /\ rs \subseteq Row /\ IsFiniteSet(rs) /\ fr \subseteq Stamps
  /\ \A r, q \in rs : r.key = q.key /\ r.vseq = q.vseq => r = q
  /\ \A r \in rs : r.vseq \notin fr

Job == [kind : {"objects", "versions"}, view : Views, start : Starts, max : MaxKeys]
Req == [pc : {"marker", "query", "scan", "done"}, after : Entry, cursor : Entry, vseq : Nat,
        page : SUBSET Row, short : BOOLEAN, items : Seq(Entry), prefix : Nat, last : Entry]
Spent == [writes : 0 .. MaxWrites, faults : 0 .. MaxFaults, strayed : BOOLEAN]

\* Of a row without a version id no stamp is remembered.
Unstamped(kind, x) == (kind = "objects" => x.vid = None) /\ (x.vid = None => x.vseq = 0)

\* The rows of a page can be told apart by what is shown of them.
PageIn(kind, view, page, all) ==
  /\ IsFiniteSet(page) /\ Cardinality(page) <= ScanPage
  /\ \A r \in page : r.key \in view.under /\ Shown(kind, r) \in all
  /\ \A r, q \in page : r # q =>
       Before(Shown(kind, r), Shown(kind, q)) \/ Before(Shown(kind, q), Shown(kind, r))

\* The markers of a request are what was listed last.
Marked(j, q, s) ==
  /\ s = <<>> => q.after = Prefix(j.start)
  /\ s # <<>> => q.after = s[Len(s)]
  /\ q.items # <<>> => q.last = q.items[Len(q.items)]
  /\ q.prefix # 0 => Has(q.items, Prefix(q.prefix))
  /\ Unstamped(j.kind, q.after) /\ Unstamped(j.kind, q.cursor) /\ Unstamped(j.kind, q.last)

ReqIn(j, q, s) ==
  /\ q \in Req /\ Len(q.items) <= j.max
  /\ q.pc # "scan" => q.page = {}
  /\ q.pc # "done" => j.max # 0 /\ Marked(j, q, s)

\* What is listed is an entry, or the prefix of one.
From(view, all, s) ==
  \A i \in DOMAIN s : \E e \in all : e.key \in view.under /\ s[i] = Item(view, e)

Ordered(s) == \A i, j \in DOMAIN s : i < j => Before(s[i], s[j])

\* RolledUp, for the common prefix of an entry.
Covered(view, q, e) ==
  LET cp == view.roll[e.key] IN cp # 0 /\ (cp <= q.after.key \/ q.prefix = cp)

\* All that is listed comes before all that the scan has still to list.
Ahead(view, q, s) ==
  \A e \in Under(view) : Before(q.cursor, e) /\ ~Covered(view, q, e) =>
    \A i \in DOMAIN s : Before(s[i], Item(view, e))

\* A listing whose markers name what they were given for.
Tidy(j, q, s) ==
  /\ \A r \in q.page : Before(q.cursor, Shown(j.kind, r))
  /\ q.pc = "query" /\ j.kind = "versions" => q.vseq = q.cursor.vseq
  /\ q.prefix <= q.cursor.key
  /\ q.items # <<>> => \A e \in Under(j.view) :
       Before(q.cursor, e) => Before(q.last, e) \/ Item(j.view, e) = q.last
  /\ Ordered(s \o q.items)
  /\ Ahead(j.view, q, s \o q.items)

\* e is still to be scanned: on the page, or beyond it.
ToCome(j, q, e) ==
  /\ q.pc # "done" /\ Before(q.cursor, e)
  /\ q.pc = "scan" => \/ \E r \in q.page : Shown(j.kind, r) = e
                      \/ ~q.short /\ \A r \in q.page : Before(Shown(j.kind, r), e)

\* An entry was given, or comes after the marker; it is listed, or still to be scanned.
Accounted(j, q, s, e) ==
  e.key \in j.view.under /\ Item(j.view, e).key > j.start =>
    /\ Has(s, Item(j.view, e)) \/ (q.pc # "done" /\ Before(q.after, e))
    /\ Has(s \o q.items, Item(j.view, e)) \/ ToCome(j, q, e)

\* The walk through the bucket, whatever the markers name.
Walk(j, q, s, all) ==
  /\ j \in Job /\ s \in Seq(Entry)
  /\ all \subseteq KeyEntry /\ \A e \in all : Unstamped(j.kind, e)
  /\ ReqIn(j, q, s)
  /\ PageIn(j.kind, j.view, q.page, all)
  /\ From(j.view, all, s \o q.items)

\* A walk that loses and repeats nothing.
Straight(j, q, s, kept) ==
  /\ Tidy(j, q, s)
  /\ j.max # 0 => \A e \in kept : Accounted(j, q, s, e)

Store ==
  /\ RowsIn(rows, fresh) /\ spent \in Spent
  /\ held \subseteq Entries(job.kind, rows) /\ Entries(job.kind, rows) \subseteq ever

ListingInv ==
  /\ Store
  /\ Walk(job, req, got, ever)
  /\ ~spent.strayed => Straight(job, req, got, held)

(***************************************************************************)
(* The order of rows and entries, and the first of a set.                  *)
(***************************************************************************)
\* What the order compares.
Placed(x) == x.key \in Nat /\ x.vseq \in Nat

\* A set of numbers has a least one.
LEMMA Least ==
  ASSUME NEW T \in SUBSET Nat, T # {}
  PROVE  \E n \in T : \A m \in T : n <= m
<1> DEFINE R == {ss \in Nat \X Nat : ss[1] < ss[2]}
<1>1. IsWellFoundedOn(R, Nat)
  BY NatLessThanWellFounded, Zenon DEF OpToRel
<1>2. \E n \in T : \A m \in T : ~(<<m, n>> \in R)
  <2>. HIDE DEF R
  <2>. QED BY <1>1, WFMin
<1>3. PICK n \in T : \A m \in T : ~(<<m, n>> \in R)
  BY <1>2
<1>4. ASSUME NEW m \in T PROVE n <= m
  <2>1. ~(<<m, n>> \in R)
    BY <1>3
  <2>. QED BY <2>1
<1>. QED BY <1>3, <1>4

\* The order of a listing is transitive, and nothing comes before itself.
LEMMA BeforeOrder ==
  /\ \A x, y, z : /\ Placed(x) /\ Placed(y) /\ Placed(z) /\ Before(x, y) /\ Before(y, z)
                  => Before(x, z)
  /\ \A x, y : Placed(x) /\ Placed(y) /\ Before(x, y) => ~Before(y, x)
BY DEF Before, Placed

\* What comes before and after a row.
Earlier(U, r) == {u \in U : Before(u, r)}
Later(U, r) == {u \in U : Before(r, u)}

\* They are finitely many.
LEMMA Around ==
  ASSUME NEW U, IsFiniteSet(U), NEW r
  PROVE  /\ IsFiniteSet(Earlier(U, r)) /\ Cardinality(Earlier(U, r)) \in Nat
         /\ IsFiniteSet(Later(U, r)) /\ Cardinality(Later(U, r)) \in Nat
<1>1. Earlier(U, r) \in SUBSET U /\ Later(U, r) \in SUBSET U
  BY DEF Earlier, Later
<1>. QED BY <1>1, FS_Subset, FS_CardinalityType

\* Of some rows, one has fewest elements of U before it.
LEMMA FewestBefore ==
  ASSUME NEW S, NEW U, IsFiniteSet(U), S # {}
  PROVE  \E r \in S : \A q \in S : Cardinality(Earlier(U, r)) <= Cardinality(Earlier(U, q))
<1> DEFINE T == {Cardinality(Earlier(U, r)) : r \in S}
<1>1. T \in SUBSET Nat /\ T # {}
  BY Around
<1>2. \E n \in T : \A m \in T : n <= m
  <2>. HIDE DEF T
  <2>. QED BY <1>1, Least
<1>. QED BY <1>2

\* Of some rows, one has fewest elements of U after it.
LEMMA FewestAfter ==
  ASSUME NEW S, NEW U, IsFiniteSet(U), S # {}
  PROVE  \E r \in S : \A q \in S : Cardinality(Later(U, r)) <= Cardinality(Later(U, q))
<1> DEFINE T == {Cardinality(Later(U, r)) : r \in S}
<1>1. T \in SUBSET Nat /\ T # {}
  BY Around
<1>2. \E n \in T : \A m \in T : n <= m
  <2>. HIDE DEF T
  <2>. QED BY <1>1, Least
<1>. QED BY <1>2

\* Whoever comes before one of the first is one of the first.
LEMMA FirstDown ==
  ASSUME NEW S, IsFiniteSet(S), \A x \in S : Placed(x), NEW n \in Nat,
         NEW q \in S, NEW r \in First(S, n), Before(q, r)
  PROVE  q \in First(S, n)
<1>1. r \in S /\ Cardinality(Earlier(S, r)) < n
  BY DEF First, Earlier
<1>2. Earlier(S, q) \in SUBSET Earlier(S, r)
  BY <1>1, BeforeOrder DEF Earlier
<1>3. Cardinality(Earlier(S, q)) < n
  BY <1>1, <1>2, Around, FS_Subset
<1>. QED BY <1>3 DEF First, Earlier

\* The first one has none before it.
LEMMA FirstOne ==
  ASSUME NEW S, IsFiniteSet(S), NEW r \in First(S, 1)
  PROVE  r \in S /\ \A q \in S : ~Before(q, r)
<1>1. r \in S /\ Cardinality(Earlier(S, r)) < 1
  BY DEF First, Earlier
<1>2. Cardinality(Earlier(S, r)) = 0
  BY <1>1, Around
<1>3. Earlier(S, r) = {}
  BY <1>2, Around, FS_EmptySet
<1>. QED BY <1>1, <1>3 DEF Earlier

\* The first of a set are finitely many.
LEMMA FirstFinite ==
  ASSUME NEW S, IsFiniteSet(S), NEW n
  PROVE  /\ First(S, n) \subseteq S /\ IsFiniteSet(First(S, n))
         /\ Cardinality(First(S, n)) \in Nat
<1>1. First(S, n) \in SUBSET S
  BY DEF First
<1>. QED BY <1>1, FS_Subset, FS_CardinalityType

\* A page that is not full has all there is: of the rows it leaves out, one with fewest rows
\* before it would have them all on the page, and so fewer than the page has room for.
LEMMA FirstShort ==
  ASSUME NEW S, IsFiniteSet(S), \A x \in S : Placed(x), NEW n \in Nat,
         Cardinality(First(S, n)) < n
  PROVE  First(S, n) = S
<1> DEFINE R == S \ First(S, n)
<1>1. ASSUME R # {} PROVE FALSE
  <2>1. PICK r \in R : \A q \in R : Cardinality(Earlier(S, r)) <= Cardinality(Earlier(S, q))
    <3>. HIDE DEF R
    <3>. QED BY <1>1, FewestBefore
  <2>2. ASSUME NEW q \in Earlier(S, r), q \in R PROVE FALSE
    <3>1. /\ Earlier(S, q) \in SUBSET Earlier(S, r)
          /\ q \in Earlier(S, r) /\ q \notin Earlier(S, q)
      BY <2>2, BeforeOrder DEF Earlier
    <3>2. Cardinality(Earlier(S, q)) < Cardinality(Earlier(S, r))
      BY <3>1, Around, FS_Subset
    <3>. QED BY <2>1, <2>2, <3>2, Around
  <2>3. Earlier(S, r) \in SUBSET First(S, n)
    BY <2>2 DEF Earlier
  <2>4. Cardinality(Earlier(S, r)) < n
    BY <2>3, FirstFinite, Around, FS_Subset
  <2>. QED BY <2>4 DEF First, Earlier
<1>. QED BY <1>1, FirstFinite

\* No page has more than was asked for: its last row has the others before it.
LEMMA FirstSize ==
  ASSUME NEW S, IsFiniteSet(S), \A x \in S : Placed(x), NEW n \in Nat \ {0},
         \A x, y \in S : x # y => Before(x, y) \/ Before(y, x)
  PROVE  Cardinality(First(S, n)) <= n
<1> DEFINE F == First(S, n)
<1>1. F \subseteq S /\ IsFiniteSet(F) /\ Cardinality(F) \in Nat
  BY FirstFinite
<1>2. CASE F = {}
  BY <1>2, FS_EmptySet
<1>3. CASE F # {}
  <2>1. PICK r \in F : \A q \in F : Cardinality(Later(F, r)) <= Cardinality(Later(F, q))
    <3>. HIDE DEF F
    <3>. QED BY <1>1, <1>3, FewestAfter
  <2>2. ASSUME NEW q \in F, Before(r, q) PROVE FALSE
    <3>1. /\ Later(F, q) \in SUBSET Later(F, r)
          /\ q \in Later(F, r) /\ q \notin Later(F, q)
      BY <1>1, <2>2, BeforeOrder DEF Later
    <3>2. Cardinality(Later(F, q)) < Cardinality(Later(F, r))
      BY <1>1, <3>1, Around, FS_Subset
    <3>. QED BY <1>1, <2>1, <2>2, <3>2, Around
  <2>3. F \ {r} \in SUBSET Earlier(S, r)
    BY <1>1, <2>2 DEF Earlier
  <2>4. Cardinality(Earlier(S, r)) < n
    BY DEF First, Earlier
  <2>5. Cardinality(F) - 1 <= Cardinality(Earlier(S, r))
    <3>. HIDE DEF F
    <3>1. IsFiniteSet(F \ {r}) /\ Cardinality(F \ {r}) = Cardinality(F) - 1
      BY <1>1, FS_RemoveElement
    <3>2. Cardinality(F \ {r}) <= Cardinality(Earlier(S, r))
      BY <2>3, Around, FS_Subset
    <3>. QED BY <3>1, <3>2
  <2>6. Cardinality(Earlier(S, r)) \in Nat
    BY Around
  <2>. QED BY <1>1, <2>4, <2>5, <2>6
<1>. QED BY <1>2, <1>3

(***************************************************************************)
(* Names, entries and items.                                               *)
(***************************************************************************)
\* There is a last name.
LEMMA NamesNat == Names \subseteq Nat
<1> DEFINE More(k) == {j \in Keys : j > k}
           T == {Cardinality(More(k)) : k \in Keys}
<1>1. Keys \subseteq Nat /\ IsFiniteSet(Keys) /\ Keys # {}
  BY ListingAssumption
<1>2. ASSUME NEW k PROVE IsFiniteSet(More(k)) /\ Cardinality(More(k)) \in Nat
  <2>. More(k) \in SUBSET Keys
    OBVIOUS
  <2>. HIDE DEF More
  <2>. QED BY <1>1, FS_Subset, FS_CardinalityType
<1>3. T \in SUBSET Nat /\ T # {}
  <2>. HIDE DEF More
  <2>. QED BY <1>1, <1>2
<1>4. \E n \in T : \A m \in T : n <= m
  <2>. HIDE DEF T
  <2>. QED BY <1>3, Least
<1>5. PICK k \in Keys : \A j \in Keys : Cardinality(More(k)) <= Cardinality(More(j))
  <2>. HIDE DEF More
  <2>. QED BY <1>4
<1>6. ASSUME NEW j \in Keys, j > k PROVE FALSE
  <2>1. \A i \in More(j) : i \in More(k)
    BY <1>1, <1>6
  <2>2. j \in More(k) /\ j \notin More(j)
    BY <1>1, <1>6
  <2>3. Cardinality(More(j)) < Cardinality(More(k))
    <3>. HIDE DEF More
    <3>1. More(j) \in SUBSET More(k)
      BY <2>1
    <3>. QED BY <1>2, <2>2, <3>1, FS_Subset
  <2>. HIDE DEF More
  <2>. QED BY <1>2, <1>5, <2>3
<1>7. \E n \in Keys : \A j \in Keys : j <= n
  BY <1>1, <1>6
<1> DEFINE n == CHOOSE n \in Keys : \A j \in Keys : j <= n
<1>8. n \in Nat
  BY <1>1, <1>7
<1>. HIDE DEF n
<1>9. 1 .. n \subseteq Nat
  BY <1>8
<1>. QED BY <1>9 DEF Names, n

\* Entries and rows have a place in the order.
LEMMA InOrder ==
  /\ \A x \in Entry : Placed(x)
  /\ \A x \in KeyEntry : Placed(x) /\ x.key # 0 /\ x \in Entry
  /\ \A r \in Row : Placed(r) /\ r.key # 0 /\ r.vseq # 0
<1>1. /\ Keys \subseteq Nat /\ 0 \notin Keys /\ Starts \subseteq Nat
      /\ Stamps \subseteq Nat /\ 0 \notin Stamps
  BY ListingAssumption
<1>2. /\ Stamps \cup {0} \subseteq Nat /\ Keys \cup {0} \cup Names \cup Starts \subseteq Nat
  BY <1>1, NamesNat
<1>3. ASSUME NEW x \in Entry PROVE Placed(x)
  <2>1. x.key \in Keys \cup {0} \cup Names \cup Starts /\ x.vseq \in Stamps \cup {0}
    BY DEF Entry
  <2>. QED BY <1>2, <2>1 DEF Placed
<1>4. ASSUME NEW x \in KeyEntry PROVE Placed(x) /\ x.key # 0 /\ x \in Entry
  <2>1. x.key \in Keys /\ x.vseq \in Stamps \cup {0} /\ x \in Entry
    BY DEF KeyEntry, Entry
  <2>. QED BY <1>2, <1>1, <2>1, Zenon DEF Placed
<1>5. \A r \in Row : Placed(r) /\ r.key # 0 /\ r.vseq # 0
  BY <1>1 DEF Row, Placed
<1>. QED BY <1>3, <1>4, <1>5

\* A common prefix comes before its keys, and they follow it without a gap.
LEMMA Rolls ==
  ASSUME NEW view \in Views, NEW k \in view.under
  PROVE  /\ k \in Keys /\ k \in Nat
         /\ view.roll[k] \in Nat /\ view.roll[k] \in Names \cup {0}
         /\ view.roll[k] # 0 => /\ view.roll[k] <= k
                                /\ \A j \in view.under :
                                     view.roll[k] <= j /\ j <= k => view.roll[j] = view.roll[k]
<1>1. view \in View
  BY ListingAssumption
<1>2. k \in Keys /\ view.roll[k] \in Names \cup {0}
  BY <1>1 DEF View
<1>3. k \in Nat /\ view.roll[k] \in Nat
  <2>1. Keys \subseteq Nat
    BY ListingAssumption
  <2>2. Names \cup {0} \subseteq Nat
    BY NamesNat
  <2>. QED BY <1>2, <2>1, <2>2, Zenon
<1>. QED BY <1>2, <1>3, ListingAssumption

\* What an entry is listed as.
LEMMA Items ==
  ASSUME NEW view \in Views, NEW e \in Under(view)
  PROVE  /\ Item(view, e) \in Entry /\ Placed(Item(view, e))
         /\ view.roll[e.key] = 0 => Item(view, e) = e
         /\ view.roll[e.key] # 0 => Item(view, e) = Prefix(view.roll[e.key])
         /\ Item(view, e).key <= e.key
<1>1. e \in KeyEntry /\ e.key \in view.under
  BY DEF Under
<1>2. CASE view.roll[e.key] = 0
  <2>1. Item(view, e) = e
    BY <1>2 DEF Item
  <2>. QED BY <1>1, <1>2, <2>1, InOrder DEF Placed
<1>3. CASE view.roll[e.key] # 0
  <2>1. Item(view, e) = Prefix(view.roll[e.key])
    BY <1>3 DEF Item, Prefix
  <2>2. Prefix(view.roll[e.key]) \in Entry
    BY <1>1, <1>3, Rolls DEF Entry, Prefix
  <2>3. Prefix(view.roll[e.key]).key <= e.key
    BY <1>1, <1>3, Rolls DEF Prefix
  <2>. QED BY <1>3, <2>1, <2>2, <2>3, InOrder
<1>. QED BY <1>2, <1>3

\* Items come in the order of their entries, but for entries of the same prefix.
LEMMA ItemOrder ==
  ASSUME NEW view \in Views, NEW e \in Under(view), NEW f \in Under(view), Before(e, f)
  PROVE  \/ Before(Item(view, e), Item(view, f))
         \/ view.roll[e.key] # 0 /\ view.roll[f.key] = view.roll[e.key]
<1>1. e.key \in view.under /\ f.key \in view.under /\ Placed(e) /\ Placed(f)
  BY InOrder DEF Under
<1>2. CASE view.roll[e.key] = 0
  <2>1. Item(view, e) = e
    BY <1>2, Items
  <2>2. CASE view.roll[f.key] = 0
    BY <2>1, <2>2, Items
  <2>3. CASE view.roll[f.key] # 0
    <3>1. Item(view, f).key = view.roll[f.key]
      BY <2>3, Items DEF Prefix
    <3>2. ~(view.roll[f.key] <= e.key)
      BY <1>1, <1>2, <2>3, Rolls DEF Before, Placed
    <3>. QED BY <1>1, <2>1, <3>1, <3>2, Rolls DEF Before, Placed
  <2>. QED BY <2>2, <2>3
<1>3. CASE view.roll[e.key] # 0
  <2>1. Item(view, e).key = view.roll[e.key] /\ view.roll[e.key] <= e.key
    BY <1>1, <1>3, Items, Rolls DEF Prefix
  <2>2. CASE view.roll[f.key] = 0
    <3>1. e.key < f.key
      BY <1>1, <1>3, <2>2 DEF Before
    <3>2. Item(view, f).key = f.key
      BY <2>2, Items
    <3>. QED BY <1>1, <2>1, <3>1, <3>2, Rolls DEF Before, Placed
  <2>3. CASE view.roll[f.key] # 0
    <3>1. Item(view, f).key = view.roll[f.key]
      BY <2>3, Items DEF Prefix
    <3>2. view.roll[f.key] <= e.key => view.roll[f.key] = view.roll[e.key]
      BY <1>1, <2>3, Rolls DEF Before, Placed
    <3>. QED BY <1>1, <1>3, <2>1, <3>1, <3>2, Rolls DEF Before, Placed
  <2>. QED BY <2>2, <2>3
<1>. QED BY <1>2, <1>3

\* What comes after an entry comes after its item, or is part of it.
LEMMA ItemBefore ==
  ASSUME NEW view \in Views, NEW e \in Under(view), NEW f \in Under(view), Before(e, f)
  PROVE  Before(Item(view, e), f) \/ Item(view, f) = Item(view, e)
<1>1. e.key \in view.under /\ f.key \in view.under /\ Placed(e) /\ Placed(f)
  BY InOrder DEF Under
<1>2. CASE view.roll[e.key] = 0
  BY <1>2, Items
<1>3. CASE view.roll[e.key] # 0
  <2>1. Item(view, e) = Prefix(view.roll[e.key]) /\ view.roll[e.key] <= e.key
    BY <1>1, <1>3, Items, Rolls
  <2>2. CASE e.key = f.key
    BY <1>3, <2>1, <2>2, Items
  <2>3. CASE e.key # f.key
    <3>1. view.roll[e.key] < f.key
      BY <1>1, <2>1, <2>3, Rolls DEF Before, Placed
    <3>. QED BY <2>1, <3>1 DEF Before, Prefix
  <2>. QED BY <2>2, <2>3
<1>. QED BY <1>2, <1>3

(***************************************************************************)
(* Sequences of items.                                                     *)
(***************************************************************************)
\* The last of an ordered sequence comes after all others.
LEMMA LastOfOrdered ==
  ASSUME NEW s \in Seq(Entry), Ordered(s), NEW i \in DOMAIN s
  PROVE  /\ Len(s) \in DOMAIN s /\ s[i] \in Entry /\ s[Len(s)] \in Entry
         /\ s[i] = s[Len(s)] \/ Before(s[i], s[Len(s)])
<1>1. DOMAIN s = 1 .. Len(s) /\ Len(s) \in Nat
  BY LenProperties
<1>2. Len(s) \in DOMAIN s
  BY <1>1
<1>3. s[i] \in Entry /\ s[Len(s)] \in Entry
  BY <1>1, <1>2, ElementOfSeq
<1>4. CASE i = Len(s)
  BY <1>2, <1>3, <1>4
<1>5. CASE i # Len(s)
  <2>1. i < Len(s)
    BY <1>1, <1>5
  <2>. QED BY <1>2, <1>3, <2>1 DEF Ordered
<1>. QED BY <1>4, <1>5

\* What becomes of a sequence when an item is appended.
LEMMA AppendItem ==
  ASSUME NEW s \in Seq(Entry), NEW t \in Seq(Entry), NEW x \in Entry
  PROVE  /\ Append(t, x) \in Seq(Entry) /\ Len(Append(t, x)) = Len(t) + 1
         /\ s \o Append(t, x) = Append(s \o t, x) /\ s \o t \in Seq(Entry)
         /\ DOMAIN Append(t, x) = DOMAIN t \cup {Len(t) + 1}
         /\ \A i \in DOMAIN t : Append(t, x)[i] = t[i] /\ i < Len(t) + 1
         /\ Append(t, x)[Len(t) + 1] = x
<1>1. /\ Append(t, x) \in Seq(Entry) /\ Len(Append(t, x)) = Len(t) + 1
      /\ \A i \in 1 .. Len(t) : Append(t, x)[i] = t[i]
      /\ Append(t, x)[Len(t) + 1] = x
  OBVIOUS
<1>2. DOMAIN t = 1 .. Len(t) /\ Len(t) \in Nat /\ DOMAIN Append(t, x) = 1 .. (Len(t) + 1)
  BY <1>1, LenProperties
<1>3. DOMAIN Append(t, x) = DOMAIN t \cup {Len(t) + 1} /\ \A i \in DOMAIN t : i < Len(t) + 1
  BY <1>2
<1>4. s \o t \in Seq(Entry) /\ s \o Append(t, x) = Append(s \o t, x)
  OBVIOUS
<1>. QED BY <1>1, <1>2, <1>3, <1>4

\* An item after all others keeps the order.
LEMMA AppendOrdered ==
  ASSUME NEW s \in Seq(Entry), NEW x \in Entry, Ordered(s),
         \A i \in DOMAIN s : Before(s[i], x)
  PROVE  Ordered(Append(s, x))
<1>1. /\ DOMAIN Append(s, x) = DOMAIN s \cup {Len(s) + 1}
      /\ \A i \in DOMAIN s : Append(s, x)[i] = s[i] /\ i < Len(s) + 1
      /\ Append(s, x)[Len(s) + 1] = x
  BY AppendItem
<1>2. DOMAIN s \subseteq Nat /\ Len(s) \in Nat
  BY LenProperties
<1>. QED BY <1>1, <1>2 DEF Ordered

\* Nothing is lost when sequences are put together.
LEMMA HasConcat ==
  ASSUME NEW s \in Seq(Entry), NEW t \in Seq(Entry), NEW x
  PROVE  /\ Has(s, x) => Has(s \o t, x)
         /\ Has(t, x) => Has(s \o t, x)
<1>1. /\ DOMAIN s = 1 .. Len(s) /\ Len(s) \in Nat /\ DOMAIN t = 1 .. Len(t) /\ Len(t) \in Nat
      /\ DOMAIN (s \o t) = 1 .. (Len(s) + Len(t))
  BY LenProperties, ConcatProperties
<1>2. \A i \in DOMAIN (s \o t) : (s \o t)[i] = IF i <= Len(s) THEN s[i] ELSE t[i - Len(s)]
  BY <1>1, ConcatProperties
<1>3. ASSUME NEW i \in DOMAIN s, s[i] = x PROVE Has(s \o t, x)
  <2>1. i \in DOMAIN (s \o t) /\ (s \o t)[i] = x
    BY <1>1, <1>2, <1>3
  <2>. QED BY <2>1 DEF Has
<1>4. ASSUME NEW i \in DOMAIN t, t[i] = x PROVE Has(s \o t, x)
  <2>1. i + Len(s) \in DOMAIN (s \o t) /\ (s \o t)[i + Len(s)] = x
    BY <1>1, <1>2, <1>4
  <2>. QED BY <2>1 DEF Has
<1>. QED BY <1>3, <1>4 DEF Has

\* An appended item is there, and so are the others.
LEMMA HasAppend ==
  ASSUME NEW s \in Seq(Entry), NEW x \in Entry, NEW y
  PROVE  Has(Append(s, x), x) /\ (Has(s, y) => Has(Append(s, x), y))
BY AppendItem DEF Has

(***************************************************************************)
(* The steps of a walk.                                                    *)
(***************************************************************************)
\* A request that starts from the last item that was given is ahead of all that was given.
LEMMA Restart ==
  ASSUME NEW view \in Views, NEW s \in Seq(Entry), Ordered(s), NEW x \in Entry,
         s # <<>> => x = s[Len(s)],
         NEW e \in Under(view), Before(x, e),
         ~(view.roll[e.key] # 0 /\ view.roll[e.key] <= x.key), NEW i \in DOMAIN s
  PROVE  Before(s[i], Item(view, e))
<1>1. s # <<>>
  OBVIOUS
<1>2. x = s[Len(s)]
  BY <1>1
<1>3. Before(x, Item(view, e))
  <2>1. CASE view.roll[e.key] = 0
    BY <2>1, Items
  <2>2. CASE view.roll[e.key] # 0
    <3>1. e.key \in view.under /\ x.key \in Nat
      BY InOrder DEF Under, Placed
    <3>2. view.roll[e.key] > x.key
      BY <2>2, <3>1, Rolls
    <3>3. Item(view, e).key = view.roll[e.key]
      BY <2>2, Items DEF Prefix
    <3>. QED BY <3>2, <3>3 DEF Before
  <2>. QED BY <2>1, <2>2
<1>4. s[i] \in Entry /\ (s[i] = x \/ Before(s[i], x))
  BY <1>2, LastOfOrdered
<1>5. Placed(s[i]) /\ Placed(x) /\ Placed(Item(view, e))
  BY <1>4, InOrder, Items
<1>. QED BY <1>3, <1>4, <1>5, BeforeOrder

\* The fields of a request from a marker.
LEMMA RequestFields ==
  ASSUME NEW x
  PROVE  /\ Request(x).pc = "marker" /\ Request(x).after = x /\ Request(x).cursor = x
         /\ Request(x).vseq = 0 /\ Request(x).page = {} /\ Request(x).short = FALSE
         /\ Request(x).items = <<>> /\ Request(x).prefix = 0 /\ Request(x).last = Origin
         /\ x \in Entry => Request(x) \in Req
<1>1. Origin \in Entry
  BY DEF Origin, Entry
<1>2. <<>> \in Seq(Entry)
  BY EmptySeq
<1>. QED BY <1>1, <1>2 DEF Request, Req

\* The client asks for the rest, or once more.
LEMMA RequestWalks ==
  ASSUME NEW j \in Job, NEW s \in Seq(Entry), NEW all, NEW x \in Entry,
         all \subseteq KeyEntry, \A e \in all : Unstamped(j.kind, e),
         j.max # 0, Unstamped(j.kind, x), From(j.view, all, s),
         s = <<>> => x = Prefix(j.start), s # <<>> => x = s[Len(s)]
  PROVE  Walk(j, Request(x), s, all)
<1> DEFINE q == Request(x)
<1>1. /\ q.pc = "marker" /\ q.after = x /\ q.cursor = x /\ q.vseq = 0 /\ q.page = {}
      /\ q.items = <<>> /\ q.prefix = 0 /\ q.last = Origin /\ q \in Req
  BY RequestFields
<1>. HIDE DEF q
<1>2. Unstamped(j.kind, Origin)
  BY DEF Unstamped, Origin
<1>3. Len(q.items) <= j.max
  <2>. j.max \in Nat
    BY ListingAssumption DEF Job
  <2>. QED BY <1>1
<1>4. ReqIn(j, q, s)
  BY <1>1, <1>2, <1>3 DEF ReqIn, Marked
<1>5. PageIn(j.kind, j.view, q.page, all)
  <2>. ScanPage \in Nat
    BY ListingAssumption
  <2>. QED BY <1>1, FS_EmptySet DEF PageIn
<1>6. s \o q.items = s
  BY <1>1, ConcatEmptySeq
<1>. QED BY <1>4, <1>5, <1>6 DEF Walk, q

\* It repeats nothing, and what was not given is still to come.
LEMMA RequestStraight ==
  ASSUME NEW j \in Job, NEW s \in Seq(Entry), NEW kept, NEW x \in Entry,
         Ordered(s), s # <<>> => x = s[Len(s)],
         \A e \in kept : e.key \in j.view.under /\ Item(j.view, e).key > j.start =>
                           Has(s, Item(j.view, e)) \/ Before(x, e)
  PROVE  Straight(j, Request(x), s, kept)
<1> DEFINE q == Request(x)
<1>1. /\ q.pc = "marker" /\ q.after = x /\ q.cursor = x /\ q.page = {}
      /\ q.items = <<>> /\ q.prefix = 0
  BY RequestFields
<1>. HIDE DEF q
<1>2. s \o q.items = s
  BY <1>1, ConcatEmptySeq
<1>3. j.view \in Views /\ x.key \in Nat
  BY InOrder DEF Job, Placed
<1>4. Ahead(j.view, q, s)
  <2>1. ASSUME NEW e \in Under(j.view), Before(x, e), ~Covered(j.view, q, e), NEW i \in DOMAIN s
        PROVE  Before(s[i], Item(j.view, e))
    <3>1. ~(j.view.roll[e.key] # 0 /\ j.view.roll[e.key] <= x.key)
      BY <1>1, <2>1 DEF Covered
    <3>. QED BY <1>3, <2>1, <3>1, Restart
  <2>. QED BY <1>1, <2>1 DEF Ahead
<1>5. Tidy(j, q, s)
  BY <1>1, <1>2, <1>3, <1>4 DEF Tidy
<1>6. ASSUME NEW e \in kept PROVE Accounted(j, q, s, e)
  BY <1>1, <1>2, <1>6 DEF Accounted, ToCome
<1>. QED BY <1>5, <1>6 DEF Straight, q

\* What is shown of a row of the page, and the rows after the first.
LEMMA NextRow ==
  ASSUME NEW j, NEW q, NEW s, NEW all, Walk(j, q, s, all),
         NEW r \in q.page, \A p \in q.page : ~Before(p, r)
  PROVE  /\ Shown(j.kind, r) \in all /\ Shown(j.kind, r) \in Under(j.view)
         /\ Unstamped(j.kind, Shown(j.kind, r))
         /\ \A p \in q.page : p # r => Before(Shown(j.kind, r), Shown(j.kind, p))
<1>1. Shown(j.kind, r) \in all /\ Shown(j.kind, r).key \in j.view.under
  BY DEF Walk, PageIn, Shown
<1>2. Shown(j.kind, r) \in Under(j.view) /\ Unstamped(j.kind, Shown(j.kind, r))
  BY <1>1 DEF Walk, Under
<1>3. ASSUME NEW p \in q.page, p # r PROVE Before(Shown(j.kind, r), Shown(j.kind, p))
  <2>1. Before(Shown(j.kind, r), Shown(j.kind, p)) \/ Before(Shown(j.kind, p), Shown(j.kind, r))
    BY <1>3 DEF Walk, PageIn
  <2>2. q.page \subseteq Row
    BY DEF Walk, ReqIn, Req
  <2>3. Placed(r) /\ Placed(p)
    BY <2>2, InOrder
  <2>4. Before(Shown(j.kind, p), Shown(j.kind, r)) => Before(p, r)
    BY <2>3 DEF Before, Shown, Placed
  <2>. QED BY <2>1, <2>4
<1>. QED BY <1>1, <1>2, <1>3

\* A common prefix up to the marker was given, if an entry of it was there all the time.
LEMMA CoveredListed ==
  ASSUME NEW j, NEW q, NEW s, NEW all, Walk(j, q, s, all), q.pc # "done",
         NEW e \in Under(j.view), Covered(j.view, q, e), Item(j.view, e).key > j.start,
         Has(s, Item(j.view, e)) \/ Before(q.after, e)
  PROVE  Has(s \o q.items, Item(j.view, e))
<1> DEFINE view == j.view
           cp == view.roll[e.key]
<1>1. /\ s \in Seq(Entry) /\ q.items \in Seq(Entry) /\ view \in Views /\ q \in Req
      /\ Marked(j, q, s) /\ j.start \in Nat /\ q.after \in Entry
  BY ListingAssumption DEF Walk, ReqIn, Req, Job
<1>2. cp # 0 /\ (cp <= q.after.key \/ q.prefix = cp) /\ e.key \in view.under
  BY DEF Covered, Under
<1>3. Item(view, e) = Prefix(cp)
  BY <1>1, <1>2, Items
<1>4. CASE q.prefix = cp
  <2>1. Has(q.items, Prefix(cp))
    BY <1>1, <1>2, <1>4 DEF Marked
  <2>. QED BY <1>1, <1>3, <2>1, HasConcat
<1>5. CASE Has(s, Item(view, e))
  BY <1>1, <1>5, HasConcat
<1>6. CASE cp <= q.after.key /\ Before(q.after, e)
  <2>1. cp \in Nat /\ cp <= e.key /\ e.key \in Nat /\ q.after.key \in Nat
    BY <1>1, <1>2, Rolls, InOrder DEF Placed
  <2>2. q.after.key <= e.key
    BY <1>6, <2>1 DEF Before
  <2>3. s # <<>>
    <3>1. Prefix(cp).key = cp /\ Prefix(j.start).key = j.start
      BY DEF Prefix
    <3>2. cp > j.start
      BY <1>3, <3>1
    <3>. QED BY <1>1, <1>6, <2>1, <3>1, <3>2 DEF Marked
  <2>4. Len(s) \in DOMAIN s /\ q.after = s[Len(s)]
    BY <1>1, <2>3, LenProperties, EmptySeq DEF Marked
  <2>5. Len(s) \in DOMAIN (s \o q.items) /\ (s \o q.items)[Len(s)] = q.after
    BY <1>1, <2>4, LenProperties, ConcatProperties
  <2>6. PICK f \in all : f.key \in view.under /\ q.after = Item(view, f)
    BY <2>5 DEF Walk, From
  <2>7. f \in Under(view)
    BY <2>6 DEF Walk, Under
  <2>8. view.roll[f.key] # 0
    <3>1. SUFFICES ASSUME view.roll[f.key] = 0 PROVE FALSE
      OBVIOUS
    <3>2. q.after = f
      BY <1>1, <2>6, <2>7, <3>1, Items
    <3>. QED BY <1>1, <1>2, <1>6, <2>2, <2>6, <3>1, <3>2, Rolls
  <2>9. q.after = Prefix(view.roll[f.key]) /\ q.after.key = view.roll[f.key]
    BY <1>1, <2>6, <2>7, <2>8, Items DEF Prefix
  <2>10. view.roll[f.key] = cp
    <3>1. f.key \in Nat /\ view.roll[f.key] <= f.key
      BY <1>1, <2>6, <2>8, Rolls
    <3>2. CASE f.key <= e.key
      <4>1. cp <= f.key
        BY <1>6, <2>1, <2>9, <3>1
      <4>. QED BY <1>1, <1>2, <2>6, <3>2, <4>1, Rolls
    <3>3. CASE e.key <= f.key
      BY <1>1, <1>2, <2>2, <2>6, <2>8, <2>9, <3>3, Rolls
    <3>. QED BY <2>1, <3>1, <3>2, <3>3
  <2>. QED BY <1>3, <2>5, <2>9, <2>10 DEF Has
<1>. QED BY <1>2, <1>4, <1>5, <1>6

\* What is on the page is scanned now or comes after the row that is.
LEMMA ScanOn ==
  ASSUME NEW j, NEW q, NEW s, NEW all, Walk(j, q, s, all), q.pc = "scan",
         NEW r \in q.page, \A p \in q.page : ~Before(p, r), NEW e, ToCome(j, q, e)
  PROVE  \/ e = Shown(j.kind, r)
         \/ /\ Before(Shown(j.kind, r), e)
            /\ \/ \E p \in q.page \ {r} : Shown(j.kind, p) = e
               \/ ~q.short /\ \A p \in q.page \ {r} : Before(Shown(j.kind, p), e)
<1>1. CASE \E p \in q.page : Shown(j.kind, p) = e
  BY <1>1, NextRow
<1>2. CASE ~q.short /\ \A p \in q.page : Before(Shown(j.kind, p), e)
  BY <1>2
<1>. QED BY <1>1, <1>2 DEF ToCome

\* The cursor moves over a row: all that was after the row is after the cursor.
LEMMA CursorMoves ==
  ASSUME NEW j, NEW q, NEW s, NEW all, Walk(j, q, s, all), Tidy(j, q, s),
         NEW r \in q.page, \A p \in q.page : ~Before(p, r)
  PROVE  /\ Before(q.cursor, Shown(j.kind, r)) /\ q.cursor.key <= Shown(j.kind, r).key
         /\ q.cursor.key \in Nat /\ Shown(j.kind, r).key \in Nat
         /\ \A e \in Under(j.view) : Before(Shown(j.kind, r), e) => Before(q.cursor, e)
<1>1. Before(q.cursor, Shown(j.kind, r))
  BY DEF Tidy
<1>2. Placed(q.cursor) /\ Placed(Shown(j.kind, r)) /\ \A e \in Under(j.view) : Placed(e)
  BY NextRow, InOrder DEF Walk, ReqIn, Req, Under
<1>3. \A e \in Under(j.view) : Before(Shown(j.kind, r), e) => Before(q.cursor, e)
  BY <1>1, <1>2, BeforeOrder
<1>. QED BY <1>1, <1>2, <1>3 DEF Before, Placed

\* Skip keeps the walk in shape.
LEMMA SkipWalks ==
  ASSUME NEW j, NEW q, NEW s, NEW all, Walk(j, q, s, all), q.pc = "scan",
         NEW r \in q.page, \A p \in q.page : ~Before(p, r)
  PROVE  Walk(j, [q EXCEPT !.page = @ \ {r}, !.cursor = Shown(j.kind, r)], s, all)
<1> DEFINE e0 == Shown(j.kind, r)
           q2 == [q EXCEPT !.page = @ \ {r}, !.cursor = e0]
<1>1. e0 \in Entry /\ Unstamped(j.kind, e0)
  BY NextRow, InOrder DEF Under
<1>. HIDE DEF e0
<1>2. q \in Req
  BY DEF Walk, ReqIn
<1>3. /\ q2 \in Req /\ q2.pc = q.pc /\ q2.after = q.after /\ q2.cursor = e0
      /\ q2.page = q.page \ {r} /\ q2.items = q.items /\ q2.prefix = q.prefix /\ q2.last = q.last
  BY <1>1, <1>2 DEF Req
<1>. HIDE DEF q2
<1>4. ReqIn(j, q2, s)
  BY <1>1, <1>3 DEF Walk, ReqIn, Marked
<1>5. PageIn(j.kind, j.view, q2.page, all)
  <2>1. IsFiniteSet(q.page) /\ Cardinality(q.page) \in Nat /\ Cardinality(q.page) <= ScanPage
    BY FS_CardinalityType DEF Walk, PageIn
  <2>2. IsFiniteSet(q2.page) /\ Cardinality(q2.page) <= ScanPage
    <3>1. ScanPage \in Nat
      BY ListingAssumption
    <3>2. IsFiniteSet(q.page \ {r}) /\ Cardinality(q.page \ {r}) = Cardinality(q.page) - 1
      BY <2>1, FS_RemoveElement
    <3>. QED BY <1>3, <2>1, <3>1, <3>2
  <2>. QED BY <1>3, <2>2 DEF Walk, PageIn
<1>6. Walk(j, q2, s, all)
  BY <1>3, <1>4, <1>5 DEF Walk
<1>. QED BY <1>6 DEF q2, e0

\* Skip loses and repeats nothing: the prefix of the row is listed already.
LEMMA SkipStraight ==
  ASSUME NEW j, NEW q, NEW s, NEW all, NEW kept, Walk(j, q, s, all), q.pc = "scan",
         Straight(j, q, s, kept), kept \subseteq all,
         NEW r \in q.page, \A p \in q.page : ~Before(p, r),
         Covered(j.view, q, Shown(j.kind, r))
  PROVE  Straight(j, [q EXCEPT !.page = @ \ {r}, !.cursor = Shown(j.kind, r)], s, kept)
<1> DEFINE e0 == Shown(j.kind, r)
           q2 == [q EXCEPT !.page = @ \ {r}, !.cursor = e0]
<1>1. /\ e0 \in Under(j.view)
      /\ \A p \in q.page : p # r => Before(e0, Shown(j.kind, p))
  BY NextRow
<1>2. /\ q.cursor.key <= e0.key /\ q.cursor.key \in Nat /\ e0.key \in Nat
      /\ \A e \in Under(j.view) : Before(e0, e) => Before(q.cursor, e)
  BY CursorMoves DEF Straight
<1>3. Covered(j.view, q, e0)
  OBVIOUS
<1>4. ASSUME NEW e, ToCome(j, q, e)
      PROVE  \/ e = e0
             \/ /\ Before(e0, e)
                /\ \/ \E p \in q.page \ {r} : Shown(j.kind, p) = e
                   \/ ~q.short /\ \A p \in q.page \ {r} : Before(Shown(j.kind, p), e)
  BY <1>4, ScanOn
<1>. HIDE DEF e0
<1>5. q \in Req
  BY DEF Walk, ReqIn
<1>6. /\ q2.pc = q.pc /\ q2.after = q.after /\ q2.cursor = e0 /\ q2.short = q.short
      /\ q2.page = q.page \ {r} /\ q2.items = q.items /\ q2.prefix = q.prefix /\ q2.last = q.last
  BY <1>5 DEF Req
<1>. HIDE DEF q2
<1>7. Tidy(j, q2, s)
  <2>1. q.prefix \in Nat /\ q.prefix <= q.cursor.key
    BY <1>5 DEF Req, Straight, Tidy
  <2>2. q2.prefix <= q2.cursor.key
    BY <1>2, <1>6, <2>1
  <2>3. Ahead(j.view, q2, s \o q2.items)
    <3>1. \A e : Covered(j.view, q2, e) = Covered(j.view, q, e)
      BY <1>6 DEF Covered
    <3>. QED BY <1>2, <1>6, <3>1 DEF Straight, Tidy, Ahead
  <2>4. q2.items # <<>> => \A e \in Under(j.view) :
          Before(q2.cursor, e) => Before(q2.last, e) \/ Item(j.view, e) = q2.last
    BY <1>2, <1>6 DEF Straight, Tidy
  <2>. QED BY <1>1, <1>6, <2>2, <2>3, <2>4 DEF Straight, Tidy
<1>8. ASSUME NEW e \in kept, j.max # 0 PROVE Accounted(j, q2, s, e)
  <2>1. SUFFICES ASSUME e.key \in j.view.under, Item(j.view, e).key > j.start
                 PROVE  /\ Has(s, Item(j.view, e)) \/ Before(q.after, e)
                        /\ Has(s \o q.items, Item(j.view, e)) \/ ToCome(j, q2, e)
    BY <1>6 DEF Accounted
  <2>2. /\ Has(s, Item(j.view, e)) \/ Before(q.after, e)
        /\ Has(s \o q.items, Item(j.view, e)) \/ ToCome(j, q, e)
    BY <1>8, <2>1 DEF Straight, Accounted
  <2>3. e \in Under(j.view)
    BY <2>1 DEF Walk, Under
  <2>4. CASE e = e0
    BY <1>3, <2>1, <2>2, <2>3, <2>4, CoveredListed
  <2>5. ASSUME ToCome(j, q, e), e # e0 PROVE ToCome(j, q2, e)
    BY <1>4, <1>6, <2>5 DEF ToCome
  <2>. QED BY <2>2, <2>4, <2>5
<1>9. Straight(j, q2, s, kept)
  BY <1>7, <1>8 DEF Straight
<1>. QED BY <1>9 DEF q2, e0

\* List, as a function of the request.
Listing(j, q, r) ==
  LET item == Item(j.view, Shown(j.kind, r)) cp == j.view.roll[r.key] IN
  [q EXCEPT !.page = @ \ {r}, !.cursor = Shown(j.kind, r), !.items = Append(@, item),
            !.prefix = IF cp # 0 THEN cp ELSE @, !.last = item]

\* What List leaves in the request.
LEMMA ListFields ==
  ASSUME NEW j, NEW q, NEW s, NEW all, Walk(j, q, s, all),
         NEW r \in q.page, \A p \in q.page : ~Before(p, r),
         NEW e, e = Shown(j.kind, r), NEW item, item = Item(j.view, e),
         NEW q2, q2 = Listing(j, q, r)
  PROVE  /\ q2 \in Req /\ q2.pc = q.pc /\ q2.after = q.after /\ q2.cursor = e
         /\ q2.short = q.short /\ q2.page = q.page \ {r} /\ q2.items = Append(q.items, item)
         /\ q2.prefix = (IF j.view.roll[e.key] # 0 THEN j.view.roll[e.key] ELSE q.prefix)
         /\ q2.last = item
         /\ e \in Under(j.view) /\ e \in Entry /\ item \in Entry /\ Unstamped(j.kind, e)
         /\ Unstamped(j.kind, item)
         /\ j.view \in Views /\ q \in Req /\ q.items \in Seq(Entry) /\ s \in Seq(Entry)
<1>1. /\ e \in Under(j.view) /\ e \in Entry /\ Unstamped(j.kind, e) /\ e.key = r.key
  BY NextRow, InOrder DEF Under, Shown
<1>2. j.view \in Views /\ q \in Req /\ s \in Seq(Entry) /\ q.items \in Seq(Entry)
  BY DEF Walk, ReqIn, Job, Req
<1>3. item \in Entry /\ Unstamped(j.kind, item)
  BY <1>1, <1>2, Items DEF Unstamped, Prefix
<1>4. j.view.roll[r.key] \in Nat
  BY <1>1, <1>2, Rolls DEF Under
<1>5. Append(q.items, item) \in Seq(Entry)
  BY <1>2, <1>3, AppendItem
<1> DEFINE cp == IF j.view.roll[r.key] # 0 THEN j.view.roll[r.key] ELSE q.prefix
           page == q.page \ {r}
           items == Append(q.items, item)
<1>6. q2 = [q EXCEPT !.page = page, !.cursor = e, !.items = items, !.prefix = cp, !.last = item]
  BY DEF Listing
<1>7. cp \in Nat /\ page \in SUBSET Row /\ items \in Seq(Entry)
  BY <1>2, <1>4, <1>5 DEF Req
<1>. HIDE DEF cp, page, items
<1>8. /\ q2 \in Req /\ q2.pc = q.pc /\ q2.after = q.after /\ q2.cursor = e
      /\ q2.short = q.short /\ q2.page = page /\ q2.items = items
      /\ q2.prefix = cp /\ q2.last = item
  BY <1>1, <1>2, <1>3, <1>6, <1>7 DEF Req
<1>. QED BY <1>1, <1>2, <1>3, <1>8 DEF cp, page, items

\* List keeps the walk in shape, if there is room.
LEMMA ListWalks ==
  ASSUME NEW j, NEW q, NEW s, NEW all, Walk(j, q, s, all), q.pc = "scan",
         NEW r \in q.page, \A p \in q.page : ~Before(p, r), Len(q.items) # j.max
  PROVE  Walk(j, Listing(j, q, r), s, all)
<1> DEFINE e == Shown(j.kind, r)
           item == Item(j.view, e)
           q2 == Listing(j, q, r)
<1>1. /\ q2 \in Req /\ q2.pc = q.pc /\ q2.after = q.after /\ q2.cursor = e
      /\ q2.page = q.page \ {r} /\ q2.items = Append(q.items, item)
      /\ q2.prefix = (IF j.view.roll[e.key] # 0 THEN j.view.roll[e.key] ELSE q.prefix)
      /\ q2.last = item
      /\ e \in Under(j.view) /\ item \in Entry /\ Unstamped(j.kind, e)
      /\ Unstamped(j.kind, item)
      /\ j.view \in Views /\ q.items \in Seq(Entry) /\ s \in Seq(Entry)
  BY ListFields
<1>2. e \in all
  BY NextRow
<1>3. j.view.roll[e.key] # 0 => item = Prefix(j.view.roll[e.key])
  BY <1>1, Items
<1>4. \E f \in all : f.key \in j.view.under /\ item = Item(j.view, f)
  BY <1>1, <1>2 DEF Under
<1>. HIDE DEF e, item, q2
<1>5. /\ Len(q2.items) = Len(q.items) + 1 /\ q2.items[Len(q2.items)] = item
      /\ Len(q.items) \in Nat /\ Len(q.items) <= j.max /\ j.max \in Nat
  <2>1. j.max \in Nat /\ Len(q.items) \in Nat /\ Len(q.items) <= j.max
    BY <1>1, LenProperties, ListingAssumption DEF Walk, ReqIn, Job
  <2>. QED BY <1>1, <2>1, AppendItem
<1>6. Marked(j, q2, s)
  <2>1. q2.prefix # 0 => Has(q2.items, Prefix(q2.prefix))
    <3>1. CASE j.view.roll[e.key] # 0
      BY <1>1, <1>3, <3>1, HasAppend
    <3>2. CASE j.view.roll[e.key] = 0
      <4>1. q.prefix # 0 => Has(q.items, Prefix(q.prefix))
        BY DEF Walk, ReqIn, Marked
      <4>. QED BY <1>1, <3>2, <4>1, HasAppend
    <3>. QED BY <3>1, <3>2
  <2>. QED BY <1>1, <1>5, <2>1 DEF Walk, ReqIn, Marked
<1>7. ReqIn(j, q2, s)
  <2>1. Len(q2.items) <= j.max
    BY <1>5
  <2>. QED BY <1>1, <1>6, <2>1 DEF Walk, ReqIn
<1>8. PageIn(j.kind, j.view, q2.page, all)
  <2> DEFINE q3 == [q EXCEPT !.page = @ \ {r}, !.cursor = Shown(j.kind, r)]
  <2>1. q3.page = q.page \ {r}
    BY DEF Walk, ReqIn, Req
  <2>2. Walk(j, q3, s, all)
    BY SkipWalks
  <2>. HIDE DEF q3
  <2>. QED BY <1>1, <2>1, <2>2 DEF Walk
<1>9. From(j.view, all, s \o q2.items)
  <2>1. From(j.view, all, s \o q.items) /\ s \o q.items \in Seq(Entry)
    BY <1>1, AppendItem DEF Walk
  <2>2. s \o q2.items = Append(s \o q.items, item)
    BY <1>1, AppendItem
  <2>3. ASSUME NEW t \in Seq(Entry), From(j.view, all, t) PROVE From(j.view, all, Append(t, item))
    BY <1>1, <1>4, <2>3, AppendItem DEF From
  <2>. QED BY <2>1, <2>2, <2>3
<1>10. Walk(j, q2, s, all)
  BY <1>7, <1>8, <1>9 DEF Walk
<1>. QED BY <1>10 DEF q2

\* List loses and repeats nothing: the item comes after all that was listed, and before all that
\* is still to be listed, since a prefix is not left before the last of its keys.
LEMMA ListStraight ==
  ASSUME NEW j, NEW q, NEW s, NEW all, NEW kept, Walk(j, q, s, all), q.pc = "scan",
         Straight(j, q, s, kept), kept \subseteq all,
         NEW r \in q.page, \A p \in q.page : ~Before(p, r),
         ~Covered(j.view, q, Shown(j.kind, r))
  PROVE  Straight(j, Listing(j, q, r), s, kept)
<1> DEFINE e0 == Shown(j.kind, r)
           item == Item(j.view, e0)
           q2 == Listing(j, q, r)
<1>1. /\ q2.pc = q.pc /\ q2.after = q.after /\ q2.cursor = e0 /\ q2.short = q.short
      /\ q2.page = q.page \ {r} /\ q2.items = Append(q.items, item)
      /\ q2.prefix = (IF j.view.roll[e0.key] # 0 THEN j.view.roll[e0.key] ELSE q.prefix)
      /\ q2.last = item
      /\ e0 \in Under(j.view) /\ item \in Entry /\ j.view \in Views
      /\ q.items \in Seq(Entry) /\ s \in Seq(Entry) /\ q \in Req
  BY ListFields
<1>2. \A p \in q.page : p # r => Before(e0, Shown(j.kind, p))
  BY NextRow
<1>3. /\ q.cursor.key <= e0.key /\ q.cursor.key \in Nat /\ e0.key \in Nat
      /\ Before(q.cursor, e0)
      /\ \A e \in Under(j.view) : Before(e0, e) => Before(q.cursor, e)
  BY CursorMoves DEF Straight
<1>4. ASSUME NEW e, ToCome(j, q, e)
      PROVE  \/ e = e0
             \/ /\ Before(e0, e)
                /\ \/ \E p \in q.page \ {r} : Shown(j.kind, p) = e
                   \/ ~q.short /\ \A p \in q.page \ {r} : Before(Shown(j.kind, p), e)
  BY <1>4, ScanOn
<1>5. ASSUME NEW e \in Under(j.view), Before(e0, e)
      PROVE  /\ Before(item, e) \/ Item(j.view, e) = item
             /\ \/ Before(item, Item(j.view, e))
                \/ j.view.roll[e0.key] # 0 /\ j.view.roll[e.key] = j.view.roll[e0.key]
  BY <1>1, <1>5, ItemBefore, ItemOrder
<1>6. ~Covered(j.view, q, e0)
  OBVIOUS
<1>7. item = Item(j.view, e0)
  OBVIOUS
<1>. HIDE DEF e0, item, q2
<1>8. q.prefix \in Nat /\ q.prefix <= q.cursor.key
  BY <1>1 DEF Req, Straight, Tidy
<1>9. e0.key \in j.view.under
  BY <1>1 DEF Under
<1>10. q2.prefix <= e0.key
  BY <1>1, <1>3, <1>8, <1>9, Rolls
<1>11. ASSUME NEW e \in Under(j.view), Before(e0, e), ~Covered(j.view, q2, e)
       PROVE  ~Covered(j.view, q, e)
  <2>1. SUFFICES ASSUME Covered(j.view, q, e) PROVE FALSE
    OBVIOUS
  <2>2. j.view.roll[e.key] # 0 /\ j.view.roll[e.key] = q.prefix /\ q2.prefix # q.prefix
    BY <1>1, <1>11, <2>1 DEF Covered
  <2>3. e.key \in j.view.under /\ e.key \in Nat /\ e0.key <= e.key
    BY <1>3, <1>11, InOrder DEF Under, Before, Placed
  <2>4. q.prefix <= e0.key
    BY <1>3, <1>8
  <2>5. j.view.roll[e0.key] = j.view.roll[e.key]
    BY <1>1, <1>9, <2>2, <2>3, <2>4, Rolls
  <2>. QED BY <1>1, <2>2, <2>5
<1>12. s \o q2.items = Append(s \o q.items, item) /\ s \o q.items \in Seq(Entry)
  BY <1>1, AppendItem
<1>13. Ordered(s \o q.items) /\ Ahead(j.view, q, s \o q.items)
  BY DEF Straight, Tidy
<1>14. Ordered(s \o q2.items)
  <2>1. \A i \in DOMAIN (s \o q.items) : Before((s \o q.items)[i], item)
    BY <1>1, <1>3, <1>6, <1>7, <1>13 DEF Ahead
  <2>. QED BY <1>1, <1>12, <1>13, <2>1, AppendOrdered
<1>15. Ahead(j.view, q2, s \o q2.items)
  <2>1. ASSUME NEW e \in Under(j.view), Before(e0, e), ~Covered(j.view, q2, e)
        PROVE  /\ \A i \in DOMAIN (s \o q.items) : Before((s \o q.items)[i], Item(j.view, e))
               /\ Before(item, Item(j.view, e))
    <3>1. Before(q.cursor, e) /\ ~Covered(j.view, q, e)
      BY <1>3, <1>11, <2>1
    <3>2. j.view.roll[e0.key] # 0 => j.view.roll[e.key] # j.view.roll[e0.key]
      BY <1>1, <2>1 DEF Covered
    <3>. QED BY <1>5, <1>13, <2>1, <3>1, <3>2 DEF Ahead
  <2>2. ASSUME NEW t \in Seq(Entry), NEW e, \A i \in DOMAIN t : Before(t[i], Item(j.view, e)),
               Before(item, Item(j.view, e)), NEW i \in DOMAIN Append(t, item)
        PROVE  Before(Append(t, item)[i], Item(j.view, e))
    <3>1. CASE i \in DOMAIN t
      BY <1>1, <2>2, <3>1, AppendItem
    <3>2. CASE i = Len(t) + 1
      BY <1>1, <2>2, <3>2, AppendItem
    <3>. QED BY <1>1, <2>2, <3>1, <3>2, AppendItem
  <2>. QED BY <1>1, <1>12, <2>1, <2>2 DEF Ahead
<1>16. Tidy(j, q2, s)
  <2>1. \A e \in Under(j.view) : Before(q2.cursor, e) => Before(q2.last, e) \/ Item(j.view, e) = q2.last
    BY <1>1, <1>5
  <2>2. ASSUME NEW p \in q2.page PROVE Before(q2.cursor, Shown(j.kind, p))
    <3>1. p \in q.page /\ p # r
      BY <1>1
    <3>. QED BY <1>1, <1>2, <3>1
  <2>. QED BY <1>1, <1>10, <1>14, <1>15, <2>1, <2>2 DEF Tidy
<1>17. ASSUME NEW e \in kept, j.max # 0 PROVE Accounted(j, q2, s, e)
  <2>1. SUFFICES ASSUME e.key \in j.view.under, Item(j.view, e).key > j.start
                 PROVE  /\ Has(s, Item(j.view, e)) \/ Before(q.after, e)
                        /\ Has(s \o q2.items, Item(j.view, e)) \/ ToCome(j, q2, e)
    BY <1>1 DEF Accounted
  <2>2. /\ Has(s, Item(j.view, e)) \/ Before(q.after, e)
        /\ Has(s \o q.items, Item(j.view, e)) \/ ToCome(j, q, e)
    BY <1>17, <2>1 DEF Straight, Accounted
  <2>3. CASE Has(s \o q.items, Item(j.view, e)) \/ e = e0
    <3>1. Has(s \o q2.items, Item(j.view, e))
      <4>1. ASSUME NEW t \in Seq(Entry), Has(t, Item(j.view, e)) \/ e = e0
            PROVE  Has(Append(t, item), Item(j.view, e))
        BY <1>1, <1>7, <4>1, HasAppend
      <4>. QED BY <1>12, <2>3, <4>1
    <3>. QED BY <2>2, <3>1
  <2>4. ASSUME ToCome(j, q, e), e # e0 PROVE ToCome(j, q2, e)
    BY <1>1, <1>4, <2>4 DEF ToCome
  <2>. QED BY <2>2, <2>3, <2>4
<1>18. Straight(j, q2, s, kept)
  BY <1>16, <1>17 DEF Straight
<1>. QED BY <1>18 DEF q2

\* What a full response ends with.
LEMMA FullEnds ==
  ASSUME NEW j, NEW q, NEW s, NEW all, Walk(j, q, s, all), q.pc # "done", Len(q.items) = j.max
  PROVE  /\ j.max # 0 /\ s \in Seq(Entry) /\ q.items \in Seq(Entry) /\ s \o q.items \in Seq(Entry)
         /\ q.items # <<>> /\ s \o q.items # <<>> /\ q.last \in Entry
         /\ q.last = (s \o q.items)[Len(s \o q.items)]
<1>1. /\ j.max # 0 /\ s \in Seq(Entry) /\ q.items \in Seq(Entry) /\ q.last \in Entry
      /\ q.items # <<>> => q.last = q.items[Len(q.items)]
  BY DEF Walk, ReqIn, Marked, Req
<1>2. q.items # <<>>
  BY <1>1
<1>3. Len(s) \in Nat /\ Len(q.items) \in Nat /\ Len(q.items) # 0
  BY <1>1, <1>2, EmptySeq, LenProperties
<1>4. /\ s \o q.items \in Seq(Entry) /\ Len(s \o q.items) = Len(s) + Len(q.items)
      /\ \A i \in 1 .. Len(s) + Len(q.items) : (s \o q.items)[i] =
            IF i <= Len(s) THEN s[i] ELSE q.items[i - Len(s)]
  BY <1>1, ConcatProperties
<1>5. (s \o q.items)[Len(s) + Len(q.items)] = q.items[Len(q.items)]
  BY <1>3, <1>4
<1>6. s \o q.items # <<>>
  BY <1>3, <1>4
<1>. QED BY <1>1, <1>2, <1>4, <1>5, <1>6

\* Truncate: the next request starts from the last item, which was given like those before it.
LEMMA TruncateWalks ==
  ASSUME NEW j, NEW q, NEW s, NEW all, Walk(j, q, s, all), q.pc # "done", Len(q.items) = j.max
  PROVE  Walk(j, Request(q.last), s \o q.items, all)
<1>1. /\ j \in Job /\ all \subseteq KeyEntry /\ (\A e \in all : Unstamped(j.kind, e))
      /\ Unstamped(j.kind, q.last) /\ From(j.view, all, s \o q.items)
  BY DEF Walk, ReqIn, Marked
<1>. QED BY <1>1, FullEnds, RequestWalks

\* Nothing gets lost between two responses.
LEMMA TruncateStraight ==
  ASSUME NEW j, NEW q, NEW s, NEW all, NEW kept, Walk(j, q, s, all), q.pc # "done",
         Straight(j, q, s, kept), kept \subseteq all, Len(q.items) = j.max
  PROVE  Straight(j, Request(q.last), s \o q.items, kept)
<1>1. /\ j \in Job /\ s \o q.items \in Seq(Entry) /\ q.last \in Entry /\ j.max # 0
      /\ q.last = (s \o q.items)[Len(s \o q.items)] /\ q.items # <<>> /\ s \o q.items # <<>>
      /\ Ordered(s \o q.items)
  BY FullEnds DEF Walk, Straight, Tidy
<1>2. ASSUME NEW e \in kept, e.key \in j.view.under, Item(j.view, e).key > j.start
      PROVE  Has(s \o q.items, Item(j.view, e)) \/ Before(q.last, e)
  <2>1. Has(s \o q.items, Item(j.view, e)) \/ ToCome(j, q, e)
    BY <1>1, <1>2 DEF Straight, Accounted
  <2>2. e \in Under(j.view)
    BY <1>2 DEF Walk, Under
  <2>3. ASSUME ToCome(j, q, e) PROVE Before(q.last, e) \/ Item(j.view, e) = q.last
    BY <1>1, <2>2, <2>3 DEF ToCome, Straight, Tidy
  <2>4. Has(s \o q.items, q.last)
    BY <1>1, LenProperties, EmptySeq DEF Has
  <2>. QED BY <2>1, <2>3, <2>4
<1>. QED BY <1>1, <1>2, RequestStraight

\* The end of a listing.
LEMMA DoneWalks ==
  ASSUME NEW j, NEW q, NEW s, NEW all, Walk(j, q, s, all), q.page = {}
  PROVE  Walk(j, [q EXCEPT !.pc = "done", !.items = <<>>], s \o q.items, all)
<1> DEFINE q2 == [q EXCEPT !.pc = "done", !.items = <<>>]
<1>1. q \in Req /\ <<>> \in Seq(Entry) /\ s \in Seq(Entry) /\ q.items \in Seq(Entry)
  BY EmptySeq DEF Walk, ReqIn, Req
<1>2. q2 \in Req /\ q2.pc = "done" /\ q2.page = {} /\ q2.items = <<>>
  BY <1>1 DEF Req
<1>. HIDE DEF q2
<1>3. ReqIn(j, q2, s \o q.items)
  <2>. j.max \in Nat
    BY ListingAssumption DEF Walk, Job
  <2>. QED BY <1>2 DEF ReqIn
<1>4. s \o q.items \in Seq(Entry)
  BY <1>1, ConcatProperties
<1>5. (s \o q.items) \o q2.items = s \o q.items
  BY <1>2, <1>4, ConcatEmptySeq
<1>6. Walk(j, q2, s \o q.items, all)
  BY <1>2, <1>3, <1>4, <1>5 DEF Walk
<1>. QED BY <1>6 DEF q2

\* A listing ends when a short page is used up: nothing is still to come.
LEMMA DoneStraight ==
  ASSUME NEW j, NEW q, NEW s, NEW all, NEW kept, Walk(j, q, s, all), Straight(j, q, s, kept),
         q.page = {}, q.pc = "scan", q.short
  PROVE  Straight(j, [q EXCEPT !.pc = "done", !.items = <<>>], s \o q.items, kept)
<1> DEFINE q2 == [q EXCEPT !.pc = "done", !.items = <<>>]
           t == s \o q.items
<1>1. q \in Req /\ s \in Seq(Entry) /\ q.items \in Seq(Entry)
  BY DEF Walk, ReqIn, Req
<1>2. /\ q2.pc = "done" /\ q2.page = {} /\ q2.items = <<>> /\ q2.cursor = q.cursor
      /\ q2.after = q.after /\ q2.prefix = q.prefix
  BY <1>1 DEF Req
<1>. HIDE DEF q2
<1>3. t \in Seq(Entry)
  BY <1>1, ConcatProperties
<1>4. t \o q2.items = t
  BY <1>2, <1>3, ConcatEmptySeq
<1>5. Tidy(j, q2, t)
  BY <1>2, <1>4 DEF Straight, Tidy, Ahead, Covered
<1>6. ASSUME NEW e \in kept, j.max # 0 PROVE Accounted(j, q2, t, e)
  <2>1. ~ToCome(j, q, e)
    BY DEF ToCome
  <2>. QED BY <1>4, <1>6, <2>1 DEF Straight, Accounted
<1>. QED BY <1>5, <1>6 DEF Straight, q2

\* A request turns to its next query.
LEMMA TurnWalks ==
  ASSUME NEW j, NEW q, NEW s, NEW all, Walk(j, q, s, all), q.page = {}, q.pc # "done",
         NEW pc \in {"marker", "query"}, NEW v \in Nat
  PROVE  Walk(j, [q EXCEPT !.pc = pc, !.vseq = v], s, all)
<1> DEFINE q2 == [q EXCEPT !.pc = pc, !.vseq = v]
<1>1. q \in Req
  BY DEF Walk, ReqIn
<1>2. /\ q2 \in Req /\ q2.pc = pc /\ q2.page = {} /\ q2.items = q.items /\ q2.cursor = q.cursor
      /\ q2.after = q.after /\ q2.prefix = q.prefix /\ q2.last = q.last
  BY <1>1 DEF Req
<1>. HIDE DEF q2
<1>3. ReqIn(j, q2, s)
  BY <1>2 DEF Walk, ReqIn, Marked
<1>4. Walk(j, q2, s, all)
  BY <1>2, <1>3 DEF Walk
<1>. QED BY <1>4 DEF q2

\* It loses nothing, if the marker was looked up as the version it was given for.
LEMMA TurnStraight ==
  ASSUME NEW j, NEW q, NEW s, NEW all, NEW kept, Walk(j, q, s, all), Straight(j, q, s, kept),
         q.page = {}, q.pc # "done", NEW pc \in {"marker", "query"}, NEW v,
         pc = "query" /\ j.kind = "versions" => v = q.cursor.vseq
  PROVE  Straight(j, [q EXCEPT !.pc = pc, !.vseq = v], s, kept)
<1> DEFINE q2 == [q EXCEPT !.pc = pc, !.vseq = v]
<1>1. q \in Req
  BY DEF Walk, ReqIn
<1>2. /\ q2.pc = pc /\ q2.page = {} /\ q2.items = q.items /\ q2.cursor = q.cursor
      /\ q2.after = q.after /\ q2.prefix = q.prefix /\ q2.last = q.last /\ q2.vseq = v
  BY <1>1 DEF Req
<1>. HIDE DEF q2
<1>3. Tidy(j, q2, s)
  <2>1. Ahead(j.view, q2, s \o q2.items)
    BY <1>2 DEF Straight, Tidy, Ahead, Covered
  <2>. QED BY <1>2, <2>1 DEF Straight, Tidy
<1>4. ASSUME NEW e \in kept, j.max # 0 PROVE Accounted(j, q2, s, e)
  <2>1. ToCome(j, q, e) => ToCome(j, q2, e)
    BY <1>2 DEF ToCome
  <2>. QED BY <1>2, <1>4, <2>1 DEF Straight, Accounted
<1>. QED BY <1>3, <1>4 DEF Straight, q2

\* The rows of the index that a query asks for.
Found(j, q) ==
  IF j.kind = "objects" THEN ListObjects(j.view, q.cursor.key) ELSE ListVersions(j.view, q.cursor, q.vseq)

\* They are shown in their order, each as one entry.
LEMMA FoundRows ==
  ASSUME Store, Walk(job, req, got, ever)
  PROVE  /\ Found(job, req) \subseteq rows /\ IsFiniteSet(Found(job, req))
         /\ \A r \in Found(job, req) : /\ Placed(r) /\ r \in Row /\ r.key \in job.view.under
                                       /\ Shown(job.kind, r) \in ever
         /\ \A r, q \in Found(job, req) : r # q =>
              /\ Before(Shown(job.kind, r), Shown(job.kind, q)) \/ Before(Shown(job.kind, q), Shown(job.kind, r))
              /\ Before(Shown(job.kind, r), Shown(job.kind, q)) <=> Before(r, q)
<1>1. Found(job, req) \in SUBSET rows /\ \A r \in Found(job, req) : r.key \in job.view.under
  BY DEF Found, ListObjects, ListVersions
<1>2. /\ IsFiniteSet(Found(job, req)) /\ rows \subseteq Row
      /\ \A r, q \in rows : r.key = q.key /\ r.vseq = q.vseq => r = q
  BY <1>1, FS_Subset DEF Store, RowsIn
<1>3. \A r \in rows : Placed(r)
  BY <1>2, InOrder
<1>4. CASE job.kind = "objects"
  <2>1. \A r \in Found(job, req) : ~r.marker /\ \A q \in rows : q.key = r.key => q.vseq <= r.vseq
    BY <1>1, <1>3, <1>4 DEF Found, ListObjects, Newer, Placed
  <2>2. ASSUME NEW r \in Found(job, req) PROVE Shown(job.kind, r) \in ever
    <3>1. Shown(job.kind, r) \in Entries(job.kind, rows)
      BY <1>1, <1>4, <2>1 DEF Shown, Entries
    <3>. QED BY <3>1 DEF Store
  <2>3. ASSUME NEW r \in Found(job, req), NEW q \in Found(job, req), r # q PROVE r.key # q.key
    BY <1>1, <1>2, <1>3, <2>1, <2>3 DEF Placed
  <2>4. ASSUME NEW r \in Found(job, req), NEW q \in Found(job, req), r # q
        PROVE  /\ Before(Shown(job.kind, r), Shown(job.kind, q)) \/ Before(Shown(job.kind, q), Shown(job.kind, r))
               /\ Before(Shown(job.kind, r), Shown(job.kind, q)) <=> Before(r, q)
    <3>1. r.key # q.key /\ Placed(r) /\ Placed(q)
      BY <1>1, <1>3, <2>3, <2>4
    <3>2. Shown(job.kind, r).key = r.key /\ Shown(job.kind, q).key = q.key
      BY DEF Shown
    <3>. QED BY <3>1, <3>2 DEF Before, Placed
  <2>. QED BY <1>1, <1>2, <1>3, <2>2, <2>4
<1>5. CASE job.kind = "versions"
  <2>1. ASSUME NEW r \in Found(job, req)
        PROVE  /\ Shown(job.kind, r).key = r.key /\ Shown(job.kind, r).vseq = r.vseq
               /\ Shown(job.kind, r) \in ever
    <3>1. Shown(job.kind, r) = [key |-> r.key, vid |-> r.vid, vseq |-> r.vseq]
      BY <1>5 DEF Shown
    <3>2. Shown(job.kind, r) \in Entries(job.kind, rows)
      BY <1>1, <1>5, <3>1 DEF Entries
    <3>. QED BY <3>1, <3>2 DEF Store
  <2>2. ASSUME NEW r \in Found(job, req), NEW q \in Found(job, req), r # q
        PROVE  /\ Before(Shown(job.kind, r), Shown(job.kind, q)) \/ Before(Shown(job.kind, q), Shown(job.kind, r))
               /\ Before(Shown(job.kind, r), Shown(job.kind, q)) <=> Before(r, q)
    <3>1. (r.key # q.key \/ r.vseq # q.vseq) /\ Placed(r) /\ Placed(q)
      BY <1>1, <1>2, <1>3, <2>2
    <3>. QED BY <2>1, <3>1 DEF Before, Placed
  <2>. QED BY <1>1, <1>2, <1>3, <2>1, <2>2
<1>. QED BY <1>4, <1>5 DEF Walk, Job

\* A query asks for what comes after the cursor, and for all of it.
LEMMA FoundAhead ==
  ASSUME Store, Walk(job, req, got, ever), Tidy(job, req, got), req.pc = "query"
  PROVE  /\ \A r \in Found(job, req) : Before(req.cursor, Shown(job.kind, r))
         /\ \A e \in held : e.key \in job.view.under /\ Before(req.cursor, e) =>
              \E r \in Found(job, req) : Shown(job.kind, r) = e
<1>1. /\ rows \subseteq Row /\ held \subseteq Entries(job.kind, rows)
      /\ Unstamped(job.kind, req.cursor) /\ req.cursor \in Entry
  BY DEF Store, RowsIn, Walk, ReqIn, Marked, Req
<1>2. Placed(req.cursor) /\ \A r \in rows : Placed(r) /\ r.key # 0 /\ r.vseq # 0
  BY <1>1, InOrder
<1>3. CASE job.kind = "objects"
  <2>1. req.cursor.vseq = 0
    BY <1>1, <1>3 DEF Unstamped
  <2>2. ASSUME NEW r \in Found(job, req) PROVE Before(req.cursor, Shown(job.kind, r))
    BY <1>2, <1>3 DEF Found, ListObjects, Before, Shown, Placed
  <2>3. ASSUME NEW e \in held, e.key \in job.view.under, Before(req.cursor, e)
        PROVE  \E r \in Found(job, req) : Shown(job.kind, r) = e
    <3>1. PICK r \in rows : /\ ~r.marker /\ \A q \in rows : q.key = r.key => q.vseq <= r.vseq
                            /\ e = [key |-> r.key, vid |-> None, vseq |-> 0]
      BY <1>1, <1>3 DEF Entries
    <3>2. e = Shown(job.kind, r) /\ e.key = r.key /\ e.vseq = 0
      BY <1>3, <3>1 DEF Shown
    <3>3. Newer(r) = {}
      BY <1>2, <3>1 DEF Newer, Placed
    <3>4. r.key > req.cursor.key
      BY <1>2, <2>1, <2>3, <3>2 DEF Before, Placed
    <3>5. r \in Found(job, req)
      BY <1>3, <2>3, <3>1, <3>2, <3>3, <3>4 DEF Found, ListObjects
    <3>. QED BY <3>2, <3>5
  <2>. QED BY <2>2, <2>3
<1>4. CASE job.kind = "versions"
  <2>1. req.vseq = req.cursor.vseq
    BY <1>4 DEF Tidy
  <2>2. ASSUME NEW r \in rows PROVE Shown(job.kind, r).key = r.key /\ Shown(job.kind, r).vseq = r.vseq
    BY <1>4 DEF Shown
  <2>3. ASSUME NEW r \in Found(job, req) PROVE Before(req.cursor, Shown(job.kind, r))
    <3>1. /\ r \in rows
          /\ req.cursor.key # 0 => \/ r.key > req.cursor.key
                                   \/ r.key = req.cursor.key /\ r.vseq < req.vseq
      BY <1>4 DEF Found, ListVersions
    <3>. QED BY <1>2, <2>1, <2>2, <3>1 DEF Before, Placed
  <2>4. ASSUME NEW e \in held, e.key \in job.view.under, Before(req.cursor, e)
        PROVE  \E r \in Found(job, req) : Shown(job.kind, r) = e
    <3>1. PICK r \in rows : e = [key |-> r.key, vid |-> r.vid, vseq |-> r.vseq]
      BY <1>1, <1>4 DEF Entries
    <3>2. e = Shown(job.kind, r) /\ e.key = r.key /\ e.vseq = r.vseq
      BY <1>4, <3>1 DEF Shown
    <3>3. req.cursor.key # 0 => \/ r.key > req.cursor.key
                                \/ r.key = req.cursor.key /\ r.vseq < req.vseq
      BY <1>2, <2>1, <2>4, <3>2 DEF Before, Placed
    <3>4. r \in Found(job, req)
      BY <1>4, <2>4, <3>2, <3>3 DEF Found, ListVersions
    <3>. QED BY <3>2, <3>4
  <2>. QED BY <2>3, <2>4
<1>. QED BY <1>3, <1>4 DEF Walk, Job

(***************************************************************************)
(* The actions.                                                            *)
(***************************************************************************)
\* A page has the rows after the cursor, all of them or as many as fit before the rest.
LEMMA QueryKeeps ==
  ASSUME ListingInv, Query
  PROVE  ListingInv'
<1> DEFINE P == First(Found(job, req), ScanPage)
           b == Cardinality(P) < ScanPage
           q2 == [req EXCEPT !.pc = "scan", !.page = P, !.short = b]
<1>1. /\ req' = q2 /\ req.pc = "query"
      /\ UNCHANGED <<rows, fresh, job, got, held, ever, spent>>
  BY DEF Query, Found
<1>2. Store /\ Walk(job, req, got, ever) /\ (~spent.strayed => Straight(job, req, got, held))
  BY DEF ListingInv
<1>3. /\ Found(job, req) \subseteq rows /\ IsFiniteSet(Found(job, req))
      /\ \A r \in Found(job, req) : /\ Placed(r) /\ r \in Row /\ r.key \in job.view.under
                                    /\ Shown(job.kind, r) \in ever
      /\ \A r, q \in Found(job, req) : r # q =>
           /\ Before(Shown(job.kind, r), Shown(job.kind, q)) \/ Before(Shown(job.kind, q), Shown(job.kind, r))
           /\ Before(Shown(job.kind, r), Shown(job.kind, q)) <=> Before(r, q)
  BY <1>2, FoundRows
<1>4. ScanPage \in Nat \ {0}
  BY ListingAssumption
<1>5. P \subseteq Found(job, req) /\ IsFiniteSet(P) /\ Cardinality(P) \in Nat
  BY <1>3, FirstFinite
<1>6. Cardinality(P) <= ScanPage
  <2>1. \A x, y \in Found(job, req) : x # y => Before(x, y) \/ Before(y, x)
    BY <1>3
  <2>. QED BY <1>3, <1>4, <2>1, FirstSize
<1>7. b => P = Found(job, req)
  BY <1>3, <1>4, FirstShort
<1>8. \A p \in P, r \in Found(job, req) : Before(r, p) => r \in P
  BY <1>3, <1>4, FirstDown
<1>9. b \in BOOLEAN
  OBVIOUS
<1>. HIDE DEF P, b
<1>10. req \in Req /\ req.page = {}
  BY <1>1, <1>2 DEF Walk, ReqIn
<1>11. /\ q2 \in Req /\ q2.pc = "scan" /\ q2.page = P /\ q2.short = b /\ q2.items = req.items
       /\ q2.cursor = req.cursor /\ q2.after = req.after /\ q2.prefix = req.prefix
       /\ q2.last = req.last
  BY <1>3, <1>5, <1>9, <1>10 DEF Req
<1>. HIDE DEF q2
<1>12. Walk(job, q2, got, ever)
  <2>1. ReqIn(job, q2, got)
    BY <1>1, <1>2, <1>11 DEF Walk, ReqIn, Marked
  <2>2. PageIn(job.kind, job.view, q2.page, ever)
    BY <1>3, <1>5, <1>6, <1>11 DEF PageIn
  <2>. QED BY <1>2, <1>11, <2>1, <2>2 DEF Walk
<1>13. ASSUME ~spent.strayed PROVE Straight(job, q2, got, held)
  <2>1. Straight(job, req, got, held) /\ Tidy(job, req, got)
    BY <1>2, <1>13 DEF Straight
  <2>2. /\ \A r \in Found(job, req) : Before(req.cursor, Shown(job.kind, r))
        /\ \A e \in held : e.key \in job.view.under /\ Before(req.cursor, e) =>
             \E r \in Found(job, req) : Shown(job.kind, r) = e
    BY <1>1, <1>2, <2>1, FoundAhead
  <2>3. Tidy(job, q2, got)
    <3>1. Ahead(job.view, q2, got \o q2.items)
      BY <1>11, <2>1 DEF Tidy, Ahead, Covered
    <3>2. \A r \in q2.page : Before(q2.cursor, Shown(job.kind, r))
      BY <1>5, <1>11, <2>2
    <3>. QED BY <1>11, <2>1, <3>1, <3>2 DEF Tidy
  <2>4. ASSUME NEW e \in held, e.key \in job.view.under, ToCome(job, req, e)
        PROVE  ToCome(job, q2, e)
    <3>1. Before(req.cursor, e)
      BY <2>4 DEF ToCome
    <3>2. PICK r \in Found(job, req) : Shown(job.kind, r) = e
      BY <2>2, <2>4, <3>1
    <3>3. CASE r \in P
      BY <1>11, <3>1, <3>2, <3>3 DEF ToCome
    <3>4. CASE r \notin P
      <4>1. ~b
        BY <1>7, <3>4
      <4>2. ASSUME NEW p \in P PROVE Before(Shown(job.kind, p), e)
        <5>1. p \in Found(job, req) /\ p # r /\ ~Before(r, p)
          BY <1>5, <1>8, <3>4
        <5>. QED BY <1>3, <3>2, <5>1
      <4>. QED BY <1>11, <3>1, <4>1, <4>2 DEF ToCome
    <3>. QED BY <3>3, <3>4
  <2>5. ASSUME NEW e \in held, job.max # 0 PROVE Accounted(job, q2, got, e)
    BY <1>1, <1>11, <2>1, <2>4, <2>5 DEF Straight, Accounted
  <2>. QED BY <2>3, <2>5 DEF Straight
<1>14. Store'
  BY <1>1, <1>2 DEF Store, Entries
<1>. QED BY <1>1, <1>12, <1>13, <1>14 DEF ListingInv

\* A marker that is looked up as another version is a listing gone astray.
LEMMA FindMarkerKeeps ==
  ASSUME ListingInv, FindMarker
  PROVE  ListingInv'
<1> DEFINE named == {r \in rows : r.key = req.cursor.key /\ r.vid = req.cursor.vid}
           vseq == IF named = {} THEN 0 ELSE (CHOOSE r \in named : TRUE).vseq
<1>1. Store /\ Walk(job, req, got, ever) /\ (~spent.strayed => Straight(job, req, got, held))
  BY DEF ListingInv
<1>2. req.pc = "marker" /\ UNCHANGED <<rows, fresh, job, got, held, ever>>
  BY DEF FindMarker
<1>3. /\ req \in Req /\ req.page = {} /\ Unstamped(job.kind, req.cursor) /\ job \in Job
      /\ rows \subseteq Row /\ spent \in Spent
  BY <1>1, <1>2 DEF Walk, ReqIn, Marked, Store, RowsIn
<1>4. PICK v \in Nat :
        /\ req' = [req EXCEPT !.pc = "query", !.vseq = v]
        /\ ~spent'.strayed => ~spent.strayed /\ (job.kind = "versions" => v = req.cursor.vseq)
        /\ spent' \in Spent
  <2>1. CASE job.kind = "objects" \/ req.cursor.vid = None
    <3>1. req' = [req EXCEPT !.pc = "query", !.vseq = 0] /\ spent' = spent
      BY <2>1 DEF FindMarker
    <3>2. job.kind = "versions" => req.cursor.vseq = 0
      BY <1>3, <2>1 DEF Unstamped
    <3>. QED BY <1>3, <3>1, <3>2
  <2>2. CASE ~(job.kind = "objects" \/ req.cursor.vid = None)
    <3>1. vseq \in Nat
      <4>1. named # {} => (CHOOSE r \in named : TRUE) \in Row
        BY <1>3
      <4>. HIDE DEF named
      <4>. QED BY <4>1, InOrder DEF Placed
    <3>2. /\ req' = [req EXCEPT !.pc = "query", !.vseq = vseq]
          /\ spent' = [spent EXCEPT !.strayed = @ \/ vseq # req.cursor.vseq]
      BY <2>2 DEF FindMarker
    <3>. HIDE DEF vseq
    <3>3. spent' \in Spent /\ spent'.strayed = (spent.strayed \/ vseq # req.cursor.vseq)
      BY <1>3, <3>2 DEF Spent
    <3>. QED BY <3>1, <3>2, <3>3
  <2>. QED BY <2>1, <2>2
<1>5. Store'
  BY <1>1, <1>2, <1>4 DEF Store, Entries
<1>6. Walk(job, [req EXCEPT !.pc = "query", !.vseq = v], got, ever)
  BY <1>1, <1>2, <1>3, TurnWalks
<1>7. ASSUME ~spent'.strayed PROVE Straight(job, [req EXCEPT !.pc = "query", !.vseq = v], got, held)
  BY <1>1, <1>2, <1>3, <1>4, <1>7, TurnStraight
<1>. QED BY <1>2, <1>4, <1>5, <1>6, <1>7 DEF ListingInv

\* A row is skipped, listed, or ends the response.
LEMMA ScanKeeps ==
  ASSUME ListingInv, Scan
  PROVE  ListingInv'
<1>1. Store /\ Walk(job, req, got, ever) /\ (~spent.strayed => Straight(job, req, got, held))
  BY DEF ListingInv
<1>2. req.pc = "scan" /\ UNCHANGED <<rows, fresh, job, held, ever, spent>>
  BY DEF Scan
<1>3. PICK r \in First(req.page, 1) :
        LET cp == job.view.roll[r.key] IN
        IF cp # 0 /\ RolledUp(cp) THEN Skip(r) /\ UNCHANGED got
        ELSE IF Full THEN Truncate
        ELSE List(r) /\ UNCHANGED got
  BY DEF Scan
<1>4. r \in req.page /\ \A p \in req.page : ~Before(p, r)
  BY <1>1, FirstOne DEF Walk, PageIn
<1>5. EntryOf(r) = Shown(job.kind, r)
  BY DEF EntryOf, Shown
<1> DEFINE covered == Covered(job.view, req, Shown(job.kind, r))
<1>6. covered <=> job.view.roll[r.key] # 0 /\ RolledUp(job.view.roll[r.key])
  <2>1. Shown(job.kind, r).key = r.key
    BY DEF Shown
  <2>. QED BY <2>1 DEF Covered, RolledUp
<1>7. held \subseteq ever
  BY <1>1 DEF Store
<1>8. Store'
  BY <1>1, <1>2 DEF Store, Entries
<1>9. Walk(job, req', got', ever) /\ (~spent.strayed => Straight(job, req', got', held))
  <2>1. CASE covered
    <3>1. req' = [req EXCEPT !.page = @ \ {r}, !.cursor = Shown(job.kind, r)] /\ got' = got
      BY <1>3, <1>5, <1>6, <2>1 DEF Skip
    <3>2. Walk(job, [req EXCEPT !.page = @ \ {r}, !.cursor = Shown(job.kind, r)], got, ever)
      BY <1>1, <1>2, <1>4, SkipWalks
    <3>3. ~spent.strayed =>
            Straight(job, [req EXCEPT !.page = @ \ {r}, !.cursor = Shown(job.kind, r)], got, held)
      BY <1>1, <1>2, <1>4, <1>7, <2>1, SkipStraight
    <3>. QED BY <3>1, <3>2, <3>3
  <2>2. CASE ~covered /\ Full
    <3>1. req' = Request(req.last) /\ got' = got \o req.items
      BY <1>3, <1>6, <2>2 DEF Truncate
    <3>2. Len(req.items) = job.max
      BY <2>2 DEF Full
    <3>3. Walk(job, Request(req.last), got \o req.items, ever)
      BY <1>1, <1>2, <3>2, TruncateWalks
    <3>4. ~spent.strayed => Straight(job, Request(req.last), got \o req.items, held)
      BY <1>1, <1>2, <1>7, <3>2, TruncateStraight
    <3>. QED BY <3>1, <3>3, <3>4
  <2>3. CASE ~covered /\ ~Full
    <3>1. req' = Listing(job, req, r) /\ got' = got
      BY <1>3, <1>5, <1>6, <2>3 DEF List, Listing
    <3>2. Len(req.items) # job.max
      BY <2>3 DEF Full
    <3>3. Walk(job, Listing(job, req, r), got, ever)
      BY <1>1, <1>2, <1>4, <3>2, ListWalks
    <3>4. ~spent.strayed => Straight(job, Listing(job, req, r), got, held)
      BY <1>1, <1>2, <1>4, <1>7, <2>3, ListStraight
    <3>. QED BY <3>1, <3>3, <3>4
  <2>. QED BY <2>1, <2>2, <2>3
<1>. QED BY <1>2, <1>8, <1>9 DEF ListingInv

\* A short page ends the listing, a full one its query.
LEMMA EndOfPageKeeps ==
  ASSUME ListingInv, EndOfPage
  PROVE  ListingInv'
<1>1. Store /\ Walk(job, req, got, ever) /\ (~spent.strayed => Straight(job, req, got, held))
  BY DEF ListingInv
<1>2. req.pc = "scan" /\ req.page = {} /\ UNCHANGED <<rows, fresh, job, held, ever, spent>>
  BY DEF EndOfPage
<1>3. Store'
  BY <1>1, <1>2 DEF Store, Entries
<1>4. Walk(job, req', got', ever) /\ (~spent.strayed => Straight(job, req', got', held))
  <2>1. CASE req.short
    <3>1. req' = [req EXCEPT !.pc = "done", !.items = <<>>] /\ got' = got \o req.items
      BY <2>1 DEF EndOfPage
    <3>2. Walk(job, [req EXCEPT !.pc = "done", !.items = <<>>], got \o req.items, ever)
      BY <1>1, <1>2, DoneWalks
    <3>3. ~spent.strayed =>
            Straight(job, [req EXCEPT !.pc = "done", !.items = <<>>], got \o req.items, held)
      BY <1>1, <1>2, <2>1, DoneStraight
    <3>. QED BY <3>1, <3>2, <3>3
  <2>2. CASE ~req.short
    <3>1. req \in Req /\ req.vseq \in Nat
      BY <1>1 DEF Walk, ReqIn, Req
    <3>2. [req EXCEPT !.pc = "marker"] = [req EXCEPT !.pc = "marker", !.vseq = req.vseq]
      BY <3>1 DEF Req
    <3>3. req' = [req EXCEPT !.pc = "marker", !.vseq = req.vseq] /\ got' = got
      BY <2>2, <3>2 DEF EndOfPage
    <3>4. Walk(job, [req EXCEPT !.pc = "marker", !.vseq = req.vseq], got, ever)
      BY <1>1, <1>2, <3>1, TurnWalks
    <3>5. ~spent.strayed => Straight(job, [req EXCEPT !.pc = "marker", !.vseq = req.vseq], got, held)
      BY <1>1, <1>2, <3>1, TurnStraight
    <3>. QED BY <3>3, <3>4, <3>5
  <2>. QED BY <2>1, <2>2
<1>. QED BY <1>2, <1>3, <1>4 DEF ListingInv

\* A failed request is repeated from the marker it began with.
LEMMA QueryFailsKeeps ==
  ASSUME ListingInv, QueryFails
  PROVE  ListingInv'
<1>1. Store /\ Walk(job, req, got, ever) /\ (~spent.strayed => Straight(job, req, got, held))
  BY DEF ListingInv
<1>2. /\ req.pc \in {"marker", "query"} /\ req' = Request(req.after) /\ spent.faults < MaxFaults
      /\ spent' = [spent EXCEPT !.faults = @ + 1]
      /\ UNCHANGED <<rows, fresh, job, got, held, ever>>
  BY DEF QueryFails
<1>3. spent' \in Spent /\ spent'.strayed = spent.strayed
  <2>1. MaxFaults \in Nat /\ spent \in Spent
    BY <1>1, ListingAssumption DEF Store
  <2>. QED BY <1>2, <2>1 DEF Spent
<1>4. Store'
  BY <1>1, <1>2, <1>3 DEF Store, Entries
<1>5. /\ job \in Job /\ got \in Seq(Entry) /\ req.items \in Seq(Entry) /\ req.after \in Entry
      /\ ever \subseteq KeyEntry /\ (\A e \in ever : Unstamped(job.kind, e))
      /\ job.max # 0 /\ Unstamped(job.kind, req.after)
      /\ got = <<>> => req.after = Prefix(job.start)
      /\ got # <<>> => req.after = got[Len(got)]
  BY <1>1, <1>2 DEF Walk, ReqIn, Marked, Req
<1>6. /\ DOMAIN got \subseteq DOMAIN (got \o req.items)
      /\ \A i \in DOMAIN got : (got \o req.items)[i] = got[i]
  <2>1. /\ DOMAIN got = 1 .. Len(got) /\ Len(got) \in Nat /\ Len(req.items) \in Nat
        /\ DOMAIN (got \o req.items) = 1 .. (Len(got) + Len(req.items))
    BY <1>5, LenProperties, ConcatProperties
  <2>. QED BY <1>5, <2>1, ConcatProperties
<1>7. From(job.view, ever, got)
  BY <1>1, <1>6 DEF Walk, From
<1>8. Walk(job, Request(req.after), got, ever)
  BY <1>5, <1>7, RequestWalks
<1>9. ASSUME ~spent.strayed PROVE Straight(job, Request(req.after), got, held)
  <2>1. Ordered(got)
    BY <1>1, <1>6, <1>9 DEF Straight, Tidy, Ordered
  <2>2. \A e \in held : e.key \in job.view.under /\ Item(job.view, e).key > job.start =>
                          Has(got, Item(job.view, e)) \/ Before(req.after, e)
    BY <1>1, <1>5, <1>9 DEF Straight, Accounted
  <2>. QED BY <1>5, <2>1, <2>2, RequestStraight
<1>. QED BY <1>2, <1>3, <1>4, <1>8, <1>9 DEF ListingInv

\* A write leaves the walk as it is: there is more that was ever there, and less that always was.
LEMMA WriteKeeps ==
  ASSUME ListingInv, NEW rs, Becomes(rs), RowsIn(rs, fresh')
  PROVE  ListingInv'
<1>1. Store /\ Walk(job, req, got, ever) /\ (~spent.strayed => Straight(job, req, got, held))
  BY DEF ListingInv
<1>2. /\ spent.writes < MaxWrites /\ rows' = rs /\ spent' = [spent EXCEPT !.writes = @ + 1]
      /\ held' = held \cap Entries(job.kind, rs) /\ ever' = ever \cup Entries(job.kind, rs)
      /\ UNCHANGED <<job, req, got>>
  BY DEF Becomes
<1>3. spent' \in Spent /\ spent'.strayed = spent.strayed
  <2>1. MaxWrites \in Nat /\ spent \in Spent
    BY <1>1, ListingAssumption DEF Store
  <2>. QED BY <1>2, <2>1 DEF Spent
<1>4. Store'
  <2>1. Entries(job.kind, rows)' = Entries(job.kind, rs)
    BY <1>2 DEF Entries
  <2>. QED BY <1>2, <1>3, <2>1 DEF Store
<1>5. ASSUME NEW e \in Entries(job.kind, rs) PROVE e \in KeyEntry /\ Unstamped(job.kind, e)
  <2>1. rs \subseteq Row /\ job \in Job /\ None \notin Stamps \cup {Null}
    BY <1>1, ListingAssumption DEF RowsIn, Walk
  <2>2. CASE job.kind = "objects"
    <3>1. PICK r \in rs : e = [key |-> r.key, vid |-> None, vseq |-> 0]
      BY <2>2 DEF Entries
    <3>. QED BY <2>1, <2>2, <3>1 DEF KeyEntry, Unstamped, Row
  <2>3. CASE job.kind = "versions"
    <3>1. PICK r \in rs : e = [key |-> r.key, vid |-> r.vid, vseq |-> r.vseq]
      BY <2>3 DEF Entries
    <3>. QED BY <2>1, <2>3, <3>1 DEF KeyEntry, Unstamped, Row
  <2>. QED BY <2>1, <2>2, <2>3 DEF Job
<1>6. Walk(job, req, got, ever')
  <2>1. ever \subseteq ever' /\ ever' \subseteq KeyEntry /\ \A e \in ever' : Unstamped(job.kind, e)
    BY <1>1, <1>2, <1>5 DEF Walk
  <2>2. PageIn(job.kind, job.view, req.page, ever')
    BY <1>1, <2>1 DEF Walk, PageIn
  <2>3. From(job.view, ever', got \o req.items)
    BY <1>1, <2>1 DEF Walk, From
  <2>. QED BY <1>1, <2>1, <2>2, <2>3 DEF Walk
<1>7. ~spent.strayed => Straight(job, req, got, held')
  BY <1>1, <1>2 DEF Straight
<1>. QED BY <1>2, <1>3, <1>4, <1>6, <1>7 DEF ListingInv

\* Versions written, replaced and deleted under the listing.
LEMMA WritesKeep ==
  ASSUME ListingInv, Writes
  PROVE  ListingInv'
<1>1. RowsIn(rows, fresh)
  BY DEF ListingInv, Store
<1>2. ASSUME NEW k \in Keys, NEW s \in fresh, NEW null \in BOOLEAN, NEW marker \in BOOLEAN,
             PutObject(k, s, null, marker)
      PROVE  ListingInv'
  <2> DEFINE vid == IF null THEN Null ELSE s
             old == {r \in rows : r.key # k \/ r.vid # vid}
             row == [key |-> k, vid |-> vid, vseq |-> s, marker |-> marker]
  <2>1. Becomes(old \cup {row}) /\ fresh' = fresh \ {s}
    BY <1>2 DEF PutObject
  <2>2. old \in SUBSET rows
    OBVIOUS
  <2>3. row \in Row /\ row.vseq = s
    BY <1>1 DEF RowsIn, Row
  <2>. HIDE DEF old, row
  <2>4. IsFiniteSet(old \cup {row})
    BY <1>1, <2>2, FS_Subset, FS_AddElement DEF RowsIn
  <2>5. RowsIn(old \cup {row}, fresh \ {s})
    BY <1>1, <1>2, <2>2, <2>3, <2>4 DEF RowsIn
  <2>6. RowsIn(old \cup {row}, fresh')
    BY <2>1, <2>5
  <2>. QED BY <2>1, <2>6, WriteKeeps
<1>3. ASSUME NEW rs \in SUBSET rows, Becomes(rs), fresh' = fresh PROVE ListingInv'
  <2>1. RowsIn(rs, fresh')
    BY <1>1, <1>3, FS_Subset DEF RowsIn
  <2>. QED BY <1>3, <2>1, WriteKeeps
<1>4. ASSUME NEW r \in rows, DeleteVersion(r) PROVE ListingInv'
  <2>1. rows \ {r} \in SUBSET rows
    OBVIOUS
  <2>. QED BY <1>3, <1>4, <2>1 DEF DeleteVersion
<1>5. ASSUME NEW k \in Keys, DeleteObject(k) PROVE ListingInv'
  <2>1. {r \in rows : r.key # k} \in SUBSET rows
    OBVIOUS
  <2>. QED BY <1>3, <1>5, <2>1 DEF DeleteObject
<1>. QED BY <1>2, <1>4, <1>5 DEF Writes

\* A listing begins with nothing given and all still to come.
LEMMA ListingInit == Init => ListingInv
<1>. SUFFICES ASSUME Init PROVE ListingInv
  OBVIOUS
<1> DEFINE x == [Origin EXCEPT !.key = job.start]
<1>1. /\ rows \in Contents /\ fresh = Stamps \ {r.vseq : r \in rows} /\ job \in Job
      /\ req = [Request(x) EXCEPT !.pc = IF job.max = 0 THEN "done" ELSE "marker"]
      /\ got = <<>> /\ held = Entries(job.kind, rows) /\ ever = held
      /\ spent = [writes |-> 0, faults |-> 0, strayed |-> FALSE]
  BY DEF Init, Job
<1>2. x = Prefix(job.start) /\ x \in Entry /\ Unstamped(job.kind, x)
  <2>1. x = Prefix(job.start)
    BY DEF Origin, Prefix
  <2>2. Prefix(job.start) \in Entry
    BY <1>1 DEF Prefix, Entry, Job
  <2>3. Unstamped(job.kind, Prefix(job.start))
    BY DEF Unstamped, Prefix
  <2>. QED BY <2>1, <2>2, <2>3
<1>. HIDE DEF x
<1>3. RowsIn(rows, fresh) /\ spent \in Spent
  <2>1. RowsIn(rows, fresh)
    BY <1>1, ListingAssumption DEF RowsIn
  <2>2. spent \in Spent
    BY <1>1, ListingAssumption DEF Spent
  <2>. QED BY <2>1, <2>2
<1>4. Store
  BY <1>1, <1>3 DEF Store
<1>5. ASSUME NEW e \in held PROVE e \in KeyEntry /\ Unstamped(job.kind, e)
  <2>1. rows \subseteq Row /\ None \notin Stamps \cup {Null}
    BY <1>3, ListingAssumption DEF RowsIn
  <2>2. CASE job.kind = "objects"
    <3>1. PICK r \in rows : e = [key |-> r.key, vid |-> None, vseq |-> 0]
      BY <1>1, <2>2 DEF Entries
    <3>. QED BY <2>1, <2>2, <3>1 DEF KeyEntry, Unstamped, Row
  <2>3. CASE job.kind = "versions"
    <3>1. PICK r \in rows : e = [key |-> r.key, vid |-> r.vid, vseq |-> r.vseq]
      BY <1>1, <2>3 DEF Entries
    <3>. QED BY <2>1, <2>3, <3>1 DEF KeyEntry, Unstamped, Row
  <2>. QED BY <1>1, <2>2, <2>3 DEF Job
<1>6. got \in Seq(Entry) /\ DOMAIN got = {} /\ Ordered(got) /\ From(job.view, ever, got)
  BY <1>1, EmptySeq DEF Ordered, From
<1>7. CASE job.max # 0
  <2>1. req = Request(x)
    <3>1. req = [Request(x) EXCEPT !.pc = "marker"]
      BY <1>1, <1>7
    <3>. QED BY <3>1 DEF Request
  <2>2. Walk(job, Request(x), got, ever)
    BY <1>1, <1>2, <1>5, <1>6, <1>7, RequestWalks
  <2>3. ASSUME NEW e \in held, e.key \in job.view.under, Item(job.view, e).key > job.start
        PROVE  Before(x, e)
    <3>1. e \in Under(job.view) /\ job.view \in Views /\ x.key = job.start
      BY <1>1, <1>2, <1>5, <2>3 DEF Under, Job, Prefix
    <3>2. Item(job.view, e).key <= e.key /\ Placed(Item(job.view, e)) /\ Placed(e) /\ Placed(x)
      BY <1>2, <3>1, Items, InOrder DEF Under
    <3>3. job.start < e.key
      BY <2>3, <3>1, <3>2 DEF Placed
    <3>. QED BY <3>1, <3>3 DEF Before
  <2>4. Straight(job, Request(x), got, held)
    BY <1>1, <1>2, <1>6, <2>3, RequestStraight
  <2>. QED BY <1>4, <2>1, <2>2, <2>4 DEF ListingInv
<1>8. CASE job.max = 0
  <2>1. req = [Request(x) EXCEPT !.pc = "done"]
    BY <1>1, <1>8
  <2>2. /\ req \in Req /\ req.pc = "done" /\ req.page = {} /\ req.items = <<>> /\ req.prefix = 0
        /\ req.cursor = x
    <3>1. /\ Request(x) \in Req /\ Request(x).page = {} /\ Request(x).items = <<>>
          /\ Request(x).prefix = 0 /\ Request(x).cursor = x
      BY <1>2, RequestFields
    <3>. QED BY <2>1, <3>1 DEF Req
  <2>3. got \o req.items = <<>>
    BY <1>1, <1>6, <2>2, ConcatEmptySeq
  <2>4. ReqIn(job, req, got)
    BY <1>8, <2>2 DEF ReqIn
  <2>5. PageIn(job.kind, job.view, req.page, ever)
    <3>. ScanPage \in Nat
      BY ListingAssumption
    <3>. QED BY <2>2, FS_EmptySet DEF PageIn
  <2>6. Walk(job, req, got, ever)
    BY <1>1, <1>5, <1>6, <2>3, <2>4, <2>5 DEF Walk
  <2>7. Tidy(job, req, got)
    <3>1. x.key \in Nat
      BY <1>2, InOrder DEF Placed
    <3>. QED BY <1>1, <1>6, <2>2, <2>3, <3>1 DEF Tidy, Ahead
  <2>8. Straight(job, req, got, held)
    BY <1>8, <2>7 DEF Straight
  <2>. QED BY <1>4, <2>6, <2>8 DEF ListingInv
<1>. QED BY <1>7, <1>8

\* Every step keeps the invariant.
LEMMA ListingNext == ListingInv /\ [Next]_vars => ListingInv'
<1>1. ASSUME ListingInv, UNCHANGED vars PROVE ListingInv'
  BY <1>1 DEF ListingInv, Store, Entries, vars
<1>. QED BY <1>1, WritesKeep, FindMarkerKeeps, QueryKeeps, ScanKeeps, EndOfPageKeeps, QueryFailsKeeps
         DEF Next, Lists

(***************************************************************************)
(* The theorems.                                                           *)
(***************************************************************************)
\* The invariant holds of every behaviour.
THEOREM ListingSafe == Spec => []ListingInv
BY ListingInit, ListingNext, PTL DEF Spec

\* Type correctness: in particular no query is answered with more rows than a page has, and no
\* response has more items than max-keys.
THEOREM PagesBounded == Spec => []TypeOK
<1>1. ASSUME ListingInv PROVE TypeOK
  <2>1. Store /\ Walk(job, req, got, ever)
    BY <1>1 DEF ListingInv
  <2>2. /\ req \in Req /\ Len(req.items) <= job.max /\ job \in Job /\ got \in Seq(Entry)
        /\ Cardinality(req.page) <= ScanPage
    BY <2>1 DEF Walk, ReqIn, PageIn
  <2>3. \A i \in DOMAIN got : got[i] \in Entry
    BY <2>2, LenProperties, ElementOfSeq
  <2>. QED BY <2>1, <2>2, <2>3 DEF TypeOK, Store, RowsIn, Req, Job, Spent
<1>. QED BY <1>1, ListingSafe, PTL

\* No item is listed twice and all come in order, over all responses of a listing, while the
\* index changes, queries fail and requests are repeated.
THEOREM ListedOnceInOrder == Spec => []OnceInOrder
<1>1. ASSUME ListingInv PROVE OnceInOrder
  BY <1>1 DEF ListingInv, Straight, Tidy, Ordered, OnceInOrder, Listed
<1>. QED BY <1>1, ListingSafe, PTL

\* What is listed was in the bucket at some time of the listing, and below the prefix.
THEOREM ListedWasThere == Spec => []NothingInvented
<1>1. ASSUME ListingInv PROVE NothingInvented
  BY <1>1 DEF ListingInv, Walk, From, NothingInvented, Listed
<1>. QED BY <1>1, ListingSafe, PTL

\* A finished listing has all that was there from its beginning to its end.
THEOREM ListedComplete == Spec => []NothingMissed
<1>1. ASSUME ListingInv PROVE NothingMissed
  <2>1. SUFFICES ASSUME req.pc = "done", job.max # 0, ~spent.strayed,
                        NEW e \in held, e.key \in job.view.under, Item(job.view, e).key > job.start
                 PROVE  Item(job.view, e) \in Given
    BY DEF NothingMissed
  <2>2. Has(got, Item(job.view, e))
    BY <1>1, <2>1 DEF ListingInv, Straight, Accounted
  <2>. QED BY <2>2 DEF Has, Given
<1>. QED BY <1>1, ListingSafe, PTL
=============================================================================

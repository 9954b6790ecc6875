----------------------------- MODULE ObjectReads -----------------------------
(***************************************************************************)
(* Reading an object that Bee holds in one piece or in parts: conditions,  *)
(* part numbers, ranges, the join of a composite object part by part while *)
(* Bee or the client may fail, and the listings of parts page by page.     *)
(***************************************************************************)
EXTENDS Integers, Sequences, SequencesExt, FiniteSetsExt

CONSTANTS
  Parts,   \* the part lists considered: <<>> for an object in one piece
  Sizes,   \* the sizes of objects in one piece
  Asks,    \* the requests considered; see Ask
  Numbers  \* part numbers that may be uploaded while parts are listed

Forms == {"none", "odd", "suffix", "from", "span"}  \* of a Range header; odd: not one well-formed range
Conditions == {"If-Match", "If-Unmodified-Since", "If-None-Match", "If-Modified-Since"}
Part == [number : Nat \ {0}, size : Nat]
RangeSpec == [form : Forms, first : Nat, last : Nat]
Ask == [kind : {"get", "head", "attributes", "parts"},
        given : SUBSET Conditions, fails : SUBSET Conditions,  \* conditional headers, and which are false
        part : Nat, range : RangeSpec,                            \* part 0: none asked for
        max : Nat]                                             \* parts per page

ASSUME ReadsAssumption ==
  /\ \A ps \in Parts : ps \in Seq(Part) /\ \A i, j \in DOMAIN ps : i < j => ps[i].number < ps[j].number
  /\ Sizes \subseteq Nat /\ Numbers \subseteq Nat \ {0}
  /\ \A a \in Asks : a \in Ask /\ a.fails \subseteq a.given /\ (a.kind \in {"attributes", "parts"} => a.max > 0)

VARIABLES
  obj,     \* the row: its parts, its size if it has none, whether a checksum is recorded (never with parts)
  ask,     \* the request; a part number rewrites its range
  pc,      \* where the handler is; how it ended
  answer,  \* the headers sent
  sent,    \* the bytes sent
  stream,  \* serveComposite: the next part and where it starts, the first byte wanted, how many to go
  listed,  \* the part numbers listed so far
  marker,  \* and where the next page starts
  began    \* the part numbers that were there at the beginning

vars == <<obj, ask, pc, answer, sent, stream, listed, marker, began>>

NoRange == [form |-> "none", first |-> 0, last |-> 0]
NoAnswer == [length |-> 0, partial |-> FALSE, first |-> 0, last |-> 0, sum |-> FALSE]

\* A byte is the part it comes from and its place there. The object is its parts one after another.
PartBytes(i, size) == [k \in 1..size |-> <<i, k>>]
Sum(ps) ==
  LET upTo[n \in 0..Len(ps)] == IF n = 0 THEN 0 ELSE upTo[n - 1] + ps[n].size
  IN  upTo[Len(ps)]
content == IF obj.parts = <<>> THEN PartBytes(1, obj.size)
           ELSE FlattenSeq([i \in DOMAIN obj.parts |-> PartBytes(i, obj.parts[i].size)])

Init ==
  /\ obj \in [parts : Parts \ {<<>>}, size : {0}, sum : {FALSE}] \cup [parts : {<<>>}, size : Sizes, sum : BOOLEAN]
  /\ ask \in Asks
  /\ pc = "row" /\ answer = NoAnswer /\ sent = <<>>
  /\ stream = [at |-> 1, offset |-> 0, start |-> 0, left |-> 0]
  /\ listed = <<>> /\ marker = 0 /\ began = {obj.parts[i].number : i \in DOMAIN obj.parts}

size == IF obj.parts = <<>> THEN obj.size ELSE Sum(obj.parts)

(***************************************************************************)
(* Conditions and headers.                                                 *)
(***************************************************************************)
\* Both conditions that ask for the object as it was are checked; of the others the date only if
\* no ETag is given.
checkConditionals ==
  /\ ask.fails \cap {"If-Match", "If-Unmodified-Since"} = {}
  /\ IF "If-None-Match" \in ask.given THEN "If-None-Match" \notin ask.fails
     ELSE "If-Modified-Since" \notin ask.fails

\* The recorded checksum is that of the whole object.
withChecksum == obj.sum /\ ask.range.form = "none" /\ ask.part = 0

\* A part by its place in the object; an object in one piece is its only part.
preparePartRequest ==
  LET n == ask.part
      start == Sum(SubSeq(obj.parts, 1, n - 1))
      bytes(first, last) == [form |-> "span", first |-> first, last |-> last]
  IN  IF obj.parts = <<>> THEN IF size > 0 THEN [ask.range EXCEPT !.form = "from", !.first = 0] ELSE ask.range
      ELSE IF obj.parts[n].size > 0 THEN bytes(start, start + obj.parts[n].size - 1) ELSE ask.range

NoSuchPart == ask.part > 0 /\ ask.part > Max({1, Len(obj.parts)})

Prepare ==
  /\ pc = "row" /\ ask.kind \in {"get", "head"}
  /\ IF ~checkConditionals THEN pc' = "failed" /\ UNCHANGED <<answer, ask>>
     ELSE /\ answer' = [answer EXCEPT !.sum = withChecksum]
          /\ pc' = IF NoSuchPart THEN "refused" ELSE "serve"
          /\ ask' = IF ask.part > 0 /\ ~NoSuchPart THEN [ask EXCEPT !.range = preparePartRequest] ELSE ask
  /\ UNCHANGED <<obj, sent, stream, listed, marker, began>>

(***************************************************************************)
(* Ranges.                                                                 *)
(***************************************************************************)
\* ok: the range counts; ~satisfiable: 416.
parseRangeSpec(r) ==
  LET Whole == [start |-> 0, end |-> size - 1, ok |-> FALSE, satisfiable |-> TRUE]
      None == [Whole EXCEPT !.satisfiable = FALSE]
      From(st, en) == [start |-> st, end |-> en, ok |-> TRUE, satisfiable |-> TRUE]
  IN  CASE r.form \in {"none", "odd"} -> Whole
        [] r.form = "suffix" -> IF r.last = 0 \/ size = 0 THEN None ELSE From(Max({size - r.last, 0}), size - 1)
        [] r.form = "from" -> IF r.first >= size THEN None ELSE From(r.first, size - 1)
        [] r.form = "span" -> IF r.first >= size THEN None
                              ELSE IF r.last < r.first THEN Whole
                              ELSE From(r.first, Min({r.last, size - 1}))

\* Several ranges or none that can be read, or one that ends before it starts.
IllFormed == ask.range.form = "odd" \/ (ask.range.form = "span" /\ ask.range.last < ask.range.first)

Headers(p) ==
  [answer EXCEPT !.length = p.end - p.start + 1, !.partial = p.ok, !.first = p.start, !.last = p.end]

\* No body: the length of the whole object, whatever range or part is asked for.
ServeHead ==
  /\ pc = "serve" /\ (ask.kind = "head" \/ (obj.parts = <<>> /\ size = 0))
  /\ answer' = [answer EXCEPT !.length = size] /\ pc' = "served"
  /\ UNCHANGED <<obj, ask, sent, stream, listed, marker, began>>

\* An object in one piece: Bee is handed the Range header and its answer is passed on, whole or as
\* far as it gets. Bee refuses a range that is not well-formed, or serves everything.
ServeSimple ==
  LET p == parseRangeSpec(ask.range)
  IN  /\ pc = "serve" /\ ask.kind = "get" /\ obj.parts = <<>> /\ size > 0
      /\ \/ (~p.satisfiable \/ IllFormed) /\ pc' = "refused" /\ UNCHANGED <<answer, sent>>
         \/ pc' = "failed" /\ UNCHANGED <<answer, sent>>
         \/ /\ p.satisfiable /\ answer' = Headers(p)
            /\ \E n \in 0..(p.end - p.start + 1) :
                 /\ sent' = SubSeq(content, p.start + 1, p.start + n)
                 /\ pc' = IF n = p.end - p.start + 1 THEN "served" ELSE "broken"
      /\ UNCHANGED <<obj, ask, stream, listed, marker, began>>

\* serveComposite up to the headers.
StartComposite ==
  LET p == parseRangeSpec(ask.range) IN
  /\ pc = "serve" /\ ask.kind = "get" /\ obj.parts # <<>>
  /\ IF ~p.satisfiable THEN pc' = "refused" /\ UNCHANGED <<answer, stream>>
     ELSE /\ answer' = Headers(p) /\ pc' = "stream"
          /\ stream' = [stream EXCEPT !.start = p.start, !.left = p.end - p.start + 1]
  /\ UNCHANGED <<obj, ask, sent, listed, marker, began>>

lo == Max({stream.start - stream.offset, 0})

\* Mutant: one byte more than is left.
hiPast == Min({obj.parts[stream.at].size - 1, lo + stream.left})

hi == Min({obj.parts[stream.at].size - 1, lo + stream.left - 1})

\* One turn of the loop: a part before the range or without bytes is passed over; of another the
\* bytes lo to hi are asked for. The headers are out, so a failure just ends the body.
ServePart ==
  LET p == obj.parts[stream.at]
      next == [stream EXCEPT !.at = @ + 1, !.offset = @ + p.size]
  IN  /\ pc = "stream" /\ stream.at <= Len(obj.parts) /\ stream.left > 0
      /\ IF p.size = 0 \/ stream.offset + p.size - 1 < stream.start
         THEN stream' = next /\ UNCHANGED <<pc, sent>>
         ELSE \E n \in 0..(hi - lo + 1) :
                /\ sent' = sent \o SubSeq(PartBytes(stream.at, p.size), lo + 1, lo + n)
                /\ stream' = [next EXCEPT !.left = @ - n]
                /\ pc' = IF n = hi - lo + 1 THEN "stream" ELSE "broken"
      /\ UNCHANGED <<obj, ask, answer, listed, marker, began>>

EndComposite ==
  /\ pc = "stream" /\ (stream.at > Len(obj.parts) \/ stream.left <= 0)
  /\ pc' = "served"
  /\ UNCHANGED <<obj, ask, answer, sent, stream, listed, marker, began>>

(***************************************************************************)
(* Listings of parts.                                                      *)
(***************************************************************************)
\* Parts are in the order of their numbers: those up to m come first.
UpTo(m) == Cardinality({i \in DOMAIN obj.parts : obj.parts[i].number <= m})
After(m) == SubSeq(obj.parts, UpTo(m) + 1, Len(obj.parts))
NumbersOf(ps) == [i \in DOMAIN ps |-> ps[i].number]

\* Mutant: the marker is the first part left out.
NextMarkerSkips(page, rest) == rest[Len(page) + 1].number

NextMarker(page, rest) == Last(page).number

Paged(page, rest) ==
  /\ listed' = listed \o NumbersOf(page)
  /\ IF Len(rest) > Len(page) THEN marker' = NextMarker(page, rest) /\ UNCHANGED pc
     ELSE pc' = "listed" /\ UNCHANGED marker
  /\ UNCHANGED <<obj, ask, answer, sent, stream, began>>

\* ObjectParts of a composite object, in the order the object has them.
ListAttributes ==
  LET rest == After(marker) IN
  /\ pc = "row" /\ ask.kind = "attributes" /\ obj.parts # <<>>
  /\ Paged(SubSeq(rest, 1, Min({ask.max, Len(rest)})), rest)

\* The parts of an upload: one more than a page is queried.
ListParts ==
  LET rest == After(marker)
      rows == SubSeq(rest, 1, Min({ask.max + 1, Len(rest)}))
  IN  /\ pc = "row" /\ ask.kind = "parts"
      /\ Paged(SubSeq(rows, 1, Min({ask.max, Len(rows)})), rows)

\* Parts are added, or replaced, while an upload is listed.
PutPart ==
  /\ pc = "row" /\ ask.kind = "parts"
  /\ \E n \in Numbers, s \in Sizes :
       obj' = [obj EXCEPT !.parts = SubSeq(@, 1, UpTo(n - 1)) \o <<[number |-> n, size |-> s]>> \o After(n)]
  /\ UNCHANGED <<ask, pc, answer, sent, stream, listed, marker, began>>

Next == Prepare \/ ServeHead \/ ServeSimple \/ StartComposite \/ ServePart \/ EndComposite
        \/ ListAttributes \/ ListParts \/ PutPart

Spec == Init /\ [][Next]_vars

(***************************************************************************)
(* Properties.                                                             *)
(***************************************************************************)
\* What HTTP means by a range: the places it selects. One that is not well-formed is no range.
Selected(r) ==
  LET all == 0..(size - 1) IN
  CASE r.form = "suffix" -> {p \in all : p >= size - r.last}
    [] r.form = "from" -> {p \in all : p >= r.first}
    [] r.form = "span" /\ r.first <= r.last -> {p \in all : r.first <= p /\ p <= r.last}
    [] OTHER -> all

\* The bytes a GET asks for: a part that has some, or a range.
EmptyPart == ask.part \in DOMAIN obj.parts /\ obj.parts[ask.part].size = 0
Requested ==
  IF ask.part \in DOMAIN obj.parts THEN PartBytes(ask.part, obj.parts[ask.part].size)
  ELSE IF Selected(ask.range) = {} THEN <<>>
  ELSE SubSeq(content, Min(Selected(ask.range)) + 1, Max(Selected(ask.range)) + 1)

\* A GET sends the bytes asked for and no others, in order, across whatever parts they lie in and
\* wherever Bee or the client fails; if nothing fails, all of them, under headers that say how many
\* and which. A checksum goes out only with the whole object ("clients validate response bodies
\* against it"), and a request is refused only if it selects nothing or is not well-formed.
ServedAsAsked ==
  ask.kind = "get" /\ ~EmptyPart =>
    /\ IsPrefix(sent, Requested)
    /\ pc = "served" => sent = Requested /\ answer.length = Len(Requested)
    /\ pc \in {"served", "stream", "broken"} /\ answer.partial =>
         SubSeq(content, answer.first + 1, answer.last + 1) = Requested
    /\ pc \in {"served", "stream", "broken"} /\ answer.sum => Requested = content
    /\ pc = "refused" => NoSuchPart \/ Requested = <<>> \/ IllFormed

\* A client that follows the markers sees every part that was there all the time exactly once, in
\* ascending order, whatever parts are uploaded or replaced in between.
PartsListedOnce ==
  /\ \A i, j \in DOMAIN listed : i < j => listed[i] < listed[j]
  /\ pc = "listed" => began \subseteq {listed[i] : i \in DOMAIN listed}
=============================================================================

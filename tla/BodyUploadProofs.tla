--------------------------- MODULE BodyUploadProofs --------------------------
(***************************************************************************)
(* Proofs about BodyUpload, for uploads of any number of chunks and bytes. *)
(***************************************************************************)
EXTENDS BodyUpload, SequenceTheorems, WellFoundedInduction, TLAPS

(***************************************************************************)
(* FlattenSeq joins the sequences of a sequence. It is defined by a        *)
(* recursive function: that there is one, and only one, is shown by a      *)
(* least place where it would go wrong.                                    *)
(***************************************************************************)
\* Every nonempty set of naturals has a least element.
LEMMA LeastNat ==
  ASSUME NEW N \in SUBSET Nat, N # {}
  PROVE  \E m \in N : \A n \in N : m <= n
<1>1. PICK m \in N : \A n \in N : ~ (<<n, m>> \in OpToRel(<, Nat))
  BY NatLessThanWellFounded, WFMin, Zenon
<1>2. \A n \in N : ~ (n < m)
  BY <1>1 DEF OpToRel
<1>3. QED BY <1>2

Joins(f, s) == f = [i \in 1..Len(s) |-> IF i = 1 THEN s[i] ELSE f[i - 1] \o s[i]]

LEMMA FlattenIs ==
  ASSUME NEW s, Len(s) # 0
  PROVE  FlattenSeq(s) = (CHOOSE f : Joins(f, s))[Len(s)]
BY DEF FlattenSeq, Joins

\* Two such functions agree.
LEMMA JoinsUnique ==
  ASSUME NEW S, NEW s \in Seq(Seq(S)), NEW f, Joins(f, s), NEW g, Joins(g, s)
  PROVE  f = g
<1> DEFINE Wrong == {i \in 1..Len(s) : f[i] # g[i]}
<1>0. Len(s) \in Nat /\ Wrong \in SUBSET Nat OBVIOUS
<1>1. SUFFICES ASSUME Wrong # {} PROVE FALSE
  <2>1. f = [i \in 1..Len(s) |-> f[i]] BY DEF Joins
  <2>2. g = [i \in 1..Len(s) |-> g[i]] BY DEF Joins
  <2>3. QED BY <2>1, <2>2
<1>2. PICK m \in Wrong : \A n \in Wrong : m <= n BY <1>0, <1>1, LeastNat
<1>3. m # 1 => f[m - 1] = g[m - 1] BY <1>0, <1>2
<1>4. /\ f[m] = IF m = 1 THEN s[m] ELSE f[m - 1] \o s[m]
      /\ g[m] = IF m = 1 THEN s[m] ELSE g[m - 1] \o s[m]
  BY <1>2 DEF Joins
<1>5. QED BY <1>2, <1>3, <1>4

\* There is one.
LEMMA JoinsExists ==
  ASSUME NEW S, NEW s \in Seq(Seq(S))
  PROVE  \E f \in [1..Len(s) -> Seq(S)] : Joins(f, s)
<1> DEFINE Upto(m, f) == f = [i \in 1..m |-> IF i = 1 THEN s[i] ELSE f[i - 1] \o s[i]]
           Has(m) == \E f \in [1..m -> Seq(S)] : Upto(m, f)
           Missing == {m \in 0..Len(s) : ~Has(m)}
<1> HIDE DEF Has
<1>0. Len(s) \in Nat /\ Missing \in SUBSET Nat OBVIOUS
<1>1. SUFFICES ASSUME Missing # {} PROVE FALSE
  <2>1. ASSUME Has(Len(s)) PROVE \E f \in [1..Len(s) -> Seq(S)] : Joins(f, s)
    BY <2>1 DEF Has, Joins
  <2>2. QED BY <1>0, <2>1
<1>2. PICK m \in Missing : \A n \in Missing : m <= n BY <1>0, <1>1, LeastNat
<1>3. CASE m = 0
  <2>1. Upto(0, <<>>) /\ <<>> \in [1..0 -> Seq(S)] OBVIOUS
  <2>2. QED BY <1>2, <1>3, <2>1 DEF Has
<1>4. CASE m # 0
  <2>1. m - 1 \in 0..Len(s) /\ m \in 1..Len(s) BY <1>0, <1>2, <1>4
  <2>2. PICK f \in [1..(m - 1) -> Seq(S)] : Upto(m - 1, f)
    <3>1. m - 1 \notin Missing BY <1>0, <1>2, <2>1
    <3>2. Has(m - 1) BY <2>1, <3>1
    <3>3. QED BY <3>2 DEF Has
  <2> DEFINE x == IF m = 1 THEN s[m] ELSE f[m - 1] \o s[m]
             g == [i \in 1..m |-> IF i < m THEN f[i] ELSE x]
  <2>3. s[m] \in Seq(S) BY <2>1
  <2>4. x \in Seq(S)
    <3>1. m # 1 => f[m - 1] \in Seq(S) BY <2>1
    <3>2. QED BY <2>3, <3>1
  <2>5. g \in [1..m -> Seq(S)]
    <3>1. \A i \in 1..m : i < m => i \in 1..(m - 1) BY <2>1
    <3>2. QED BY <2>4, <3>1
  <2>6. \A i \in 1..m : g[i] = IF i = 1 THEN s[i] ELSE g[i - 1] \o s[i]
    <3> SUFFICES ASSUME NEW i \in 1..m PROVE g[i] = IF i = 1 THEN s[i] ELSE g[i - 1] \o s[i] OBVIOUS
    <3>0. i \in Int /\ m \in Int BY <2>1
    <3>1. i # 1 => i - 1 \in 1..m /\ i - 1 < m /\ g[i - 1] = f[i - 1] BY <3>0
    <3>2. CASE i < m
      <4>1. i \in 1..(m - 1) /\ g[i] = f[i] BY <3>0, <3>2
      <4>2. f[i] = IF i = 1 THEN s[i] ELSE f[i - 1] \o s[i] BY <2>2, <4>1
      <4>3. QED BY <3>1, <4>1, <4>2
    <3>3. CASE i = m
      <4>1. g[m] = x BY <3>3
      <4>2. QED BY <3>1, <3>3, <4>1
    <3>4. QED BY <3>0, <3>2, <3>3
  <2> HIDE DEF g
  <2>7. Upto(m, g)
    <3>1. g = [i \in 1..m |-> g[i]] BY <2>5
    <3>2. QED BY <2>6, <3>1
  <2>8. QED BY <1>2, <2>5, <2>7 DEF Has
<1>5. QED BY <1>3, <1>4

\* The function FlattenSeq takes its last value of.
LEMMA FlattenBy ==
  ASSUME NEW S, NEW s \in Seq(Seq(S)), Len(s) # 0, NEW f, Joins(f, s)
  PROVE  FlattenSeq(s) = f[Len(s)] /\ f \in [1..Len(s) -> Seq(S)]
<1>1. Joins(CHOOSE g : Joins(g, s), s) BY Zenon
<1>2. (CHOOSE g : Joins(g, s)) = f BY <1>1, JoinsUnique, Zenon
<1>3. FlattenSeq(s) = f[Len(s)] BY <1>2, FlattenIs, Zenon
<1>4. PICK g \in [1..Len(s) -> Seq(S)] : Joins(g, s) BY JoinsExists
<1>5. g = f BY <1>4, JoinsUnique, Zenon
<1>6. QED BY <1>3, <1>4, <1>5

\* Joining is a sequence, and nothing joined is nothing.
LEMMA FlattenType ==
  ASSUME NEW S, NEW s \in Seq(Seq(S))
  PROVE  FlattenSeq(s) \in Seq(S) /\ FlattenSeq(<<>>) = <<>>
<1>1. FlattenSeq(<<>>) = <<>> BY DEF FlattenSeq
<1>2. CASE Len(s) = 0 BY <1>1, <1>2, EmptySeq
<1>3. CASE Len(s) # 0
  <2>1. PICK f \in [1..Len(s) -> Seq(S)] : Joins(f, s) BY JoinsExists
  <2>2. FlattenSeq(s) = f[Len(s)] BY <1>3, <2>1, FlattenBy
  <2>3. Len(s) \in 1..Len(s) BY <1>3
  <2>4. QED BY <1>1, <2>1, <2>2, <2>3
<1>4. QED BY <1>2, <1>3

\* One more sequence comes at the end.
LEMMA FlattenAppend ==
  ASSUME NEW S, NEW s \in Seq(Seq(S)), NEW x \in Seq(S)
  PROVE  FlattenSeq(Append(s, x)) = FlattenSeq(s) \o x
<1> DEFINE n == Len(s)
           w == Append(s, x)
<1>1. w \in Seq(Seq(S)) /\ Len(w) = n + 1 /\ w[n + 1] = x /\ n \in Nat /\ \A i \in 1..n : w[i] = s[i]
  OBVIOUS
<1> HIDE DEF w
<1>2. PICK g \in [1..Len(w) -> Seq(S)] : Joins(g, w) BY <1>1, JoinsExists
<1>3. FlattenSeq(w) = g[n + 1] BY <1>1, <1>2, FlattenBy
<1>4. g[n + 1] = IF n = 0 THEN x ELSE g[n] \o x
  <2>1. n + 1 \in 1..Len(w) /\ (n + 1 = 1 <=> n = 0) /\ (n + 1) - 1 = n BY <1>1
  <2>2. g[n + 1] = IF n + 1 = 1 THEN w[n + 1] ELSE g[(n + 1) - 1] \o w[n + 1] BY <1>2, <2>1 DEF Joins
  <2>3. QED BY <1>1, <2>1, <2>2
<1>5. CASE n = 0
  <2>1. s = <<>> BY <1>5
  <2>2. FlattenSeq(s) = <<>> BY <2>1, FlattenType
  <2>3. QED BY <1>3, <1>4, <1>5, <2>2 DEF w
<1>6. CASE n # 0
  <2> DEFINE f == [i \in 1..n |-> g[i]]
  <2>1. Joins(f, s)
    <3>1. ASSUME NEW i \in 1..n PROVE g[i] = IF i = 1 THEN s[i] ELSE f[i - 1] \o s[i]
      <4>1. i \in 1..Len(w) /\ w[i] = s[i] BY <1>1
      <4>2. g[i] = IF i = 1 THEN w[i] ELSE g[i - 1] \o w[i] BY <1>2, <4>1 DEF Joins
      <4>3. i # 1 => i - 1 \in 1..n BY <1>1
      <4>4. QED BY <4>1, <4>2, <4>3
    <3>2. QED BY <3>1 DEF Joins
  <2>2. FlattenSeq(s) = f[n] BY <1>6, <2>1, FlattenBy
  <2>3. n \in 1..n BY <1>1, <1>6
  <2>4. QED BY <1>3, <1>4, <1>6, <2>2, <2>3 DEF w
<1>7. QED BY <1>5, <1>6

(***************************************************************************)
(* What arrives. Every frame is one the client made, with its signature;   *)
(* only its data may be shorter or other.                                  *)
(***************************************************************************)
Bytes == Seq(Nat)
Framed(u) == u.kind # "plain"
Signed(u) == u.kind \in {"signed", "signedTrailer"}
Sent(u) == Append(u.chunks, <<>>)

Frame(u) ==
  {f \in [size : Nat, data : Bytes, sig : Seq(Bytes)] :
     /\ Len(f.data) <= f.size
     /\ Framed(u) => \E k \in 1..Len(Sent(u)) : f.size = Len(Sent(u)[k]) /\ f.sig = SubSeq(Sent(u), 1, k)}

Data(w) == [i \in 1..Len(w.frames) |-> w.frames[i].data]

\* The trailer's checksum is missing or right, or else nothing happened to the frames.
WireIn(w, u) ==
  /\ w.frames \in Seq(Frame(u)) /\ w.torn \in BOOLEAN
  /\ u.kind = "plain" /\ u.length = 0 => ~w.torn
  /\ Framed(u) => w.trailer.sum \in {NoSum, FlattenSeq(u.chunks)} \/ Data(w) = Sent(u)
  /\ w.trailer.sum \in Seq(Int)

\* What BodyAssumption says of a request.
LEMMA RequestFacts ==
  ASSUME NEW u \in Requests
  PROVE  /\ u \in Request /\ u.chunks \in Seq(Bytes) /\ Sent(u) \in Seq(Bytes)
         /\ Len(Sent(u)) = Len(u.chunks) + 1 /\ Len(u.chunks) \in Nat
         /\ \A k \in 1..Len(Sent(u)) : Sent(u)[k] = <<>> <=> k = Len(Sent(u))
         /\ FlattenSeq(u.chunks) \in Bytes /\ FlattenSeq(Sent(u)) = FlattenSeq(u.chunks)
         /\ u.length = 0 => u.chunks = <<>>
         /\ u.sum = "trailer" => Framed(u)
<1>1. u \in Request /\ (u.length = 0 => u.chunks = <<>>) /\ (u.sum = "trailer" => Framed(u))
      /\ \A i \in DOMAIN u.chunks : u.chunks[i] # <<>>
  BY BodyAssumption DEF Framed
<1>2. u.chunks \in Seq(Bytes) /\ Len(u.chunks) \in Nat BY <1>1 DEF Request, Bytes
<1>3. <<>> \in Bytes BY DEF Bytes
<1>4. /\ Sent(u) \in Seq(Bytes) /\ Len(Sent(u)) = Len(u.chunks) + 1
      /\ Sent(u)[Len(u.chunks) + 1] = <<>> /\ \A k \in 1..Len(u.chunks) : Sent(u)[k] = u.chunks[k]
  BY <1>2, <1>3 DEF Sent
<1>5. \A k \in 1..Len(Sent(u)) : Sent(u)[k] = <<>> <=> k = Len(Sent(u))
  <2> SUFFICES ASSUME NEW k \in 1..Len(Sent(u)) PROVE Sent(u)[k] = <<>> <=> k = Len(Sent(u)) OBVIOUS
  <2>1. k \in 1..Len(u.chunks) \/ k = Len(u.chunks) + 1 BY <1>2, <1>4
  <2>2. QED BY <1>1, <1>2, <1>4, <2>1
<1>6. FlattenSeq(u.chunks) \in Bytes BY <1>2, FlattenType DEF Bytes
<1>7. FlattenSeq(Sent(u)) = FlattenSeq(u.chunks) \o <<>>
  BY <1>2, <1>3, FlattenAppend DEF Sent, Bytes
<1>8. FlattenSeq(u.chunks) \o <<>> = FlattenSeq(u.chunks) BY <1>6, ConcatEmptySeq DEF Bytes
<1>9. QED BY <1>1, <1>2, <1>4, <1>5, <1>6, <1>7, <1>8

\* The client's framing.
LEMMA HonestIn ==
  ASSUME NEW u \in Requests
  PROVE  LET w == Honest(u)
         IN  /\ w = [frames |-> w.frames, torn |-> FALSE, trailer |-> w.trailer]
             /\ w.trailer = [sum |-> w.trailer.sum, sig |-> w.trailer.sig]
             /\ w.frames \in Seq(Frame(u))
             /\ Framed(u) => Data(w) = Sent(u) /\ w.trailer.sum \in {NoSum, FlattenSeq(u.chunks)}
             /\ ~Framed(u) => w.trailer = NoTrailer
             /\ u.kind = "plain" /\ u.length = 0 => w.frames = <<>>
             /\ w.trailer.sum \in Seq(Int)
<1> DEFINE whole == FlattenSeq(u.chunks)
           last == Sent(u)
           w == Honest(u)
<1>1. /\ last \in Seq(Bytes) /\ whole \in Bytes /\ (u.length = 0 => whole = <<>>)
  BY RequestFacts, FlattenType DEF Bytes
<1>2. NoSum \in Seq(Int) /\ whole \in Seq(Int) BY <1>1 DEF NoSum, Bytes
<1>3. CASE Framed(u)
  <2> DEFINE sum == IF u.sum = "trailer" THEN whole ELSE NoSum
             frames == [i \in DOMAIN last |-> FrameOf(last[i], SubSeq(last, 1, i))]
             trailer == [sum |-> sum, sig |-> IF u.kind = "signedTrailer" THEN trailerSignature(last, sum)
                                              ELSE NoTrailer.sig]
  <2>1. w = [frames |-> frames, torn |-> FALSE, trailer |-> trailer]
    BY <1>3 DEF Honest, Framed, Sent
  <2>2. DOMAIN last = 1..Len(last) /\ Len(last) \in Nat BY <1>1
  <2>3. ASSUME NEW i \in 1..Len(last) PROVE frames[i] \in Frame(u) /\ frames[i].data = last[i]
    <3>1. last[i] \in Bytes /\ SubSeq(last, 1, i) \in Seq(Bytes) /\ Len(last[i]) \in Nat
      BY <1>1, <2>2 DEF Bytes
    <3>2. frames[i] = [size |-> Len(last[i]), data |-> last[i], sig |-> SubSeq(last, 1, i)]
      BY <2>2 DEF FrameOf
    <3> HIDE DEF last, frames
    <3>3. frames[i] \in [size : Nat, data : Bytes, sig : Seq(Bytes)] BY <3>1, <3>2
    <3>4. /\ frames[i].size = Len(last[i]) /\ frames[i].data = last[i]
          /\ frames[i].sig = SubSeq(last, 1, i)
      BY <3>2
    <3>5. QED BY <3>1, <3>3, <3>4 DEF Frame, last
  <2>4. frames \in Seq(Frame(u)) /\ Len(frames) = Len(last)
    BY <2>2, <2>3
  <2>5. Data(w) = last
    <3>1. w.frames = frames BY <2>1
    <3>2. Data(w) = [i \in 1..Len(last) |-> last[i]] BY <2>3, <2>4, <3>1 DEF Data
    <3>3. QED BY <1>1, <3>2
  <2>6. sum \in {NoSum, whole} OBVIOUS
  <2> HIDE DEF frames, last, sum
  <2>7. QED BY <1>2, <1>3, <2>1, <2>4, <2>5, <2>6 DEF last, Framed
<1>4. CASE ~Framed(u)
  <2> DEFINE frames == IF whole = <<>> THEN <<>> ELSE <<FrameOf(whole, <<>>)>>
  <2>1. w = [frames |-> frames, torn |-> FALSE, trailer |-> NoTrailer]
    BY <1>4 DEF Honest, Framed
  <2>2. FrameOf(whole, <<>>) \in Frame(u)
    <3>1. Len(whole) \in Nat /\ <<>> \in Seq(Bytes) BY <1>1 DEF Bytes
    <3>2. QED BY <1>1, <1>4, <3>1 DEF Frame, FrameOf
  <2>3. frames \in Seq(Frame(u)) BY <2>2
  <2>4. NoTrailer.sum = NoSum /\ NoTrailer = [sum |-> NoTrailer.sum, sig |-> NoTrailer.sig] BY DEF NoTrailer
  <2> HIDE DEF frames
  <2>5. u.length = 0 => frames = <<>> BY <1>1 DEF frames
  <2>6. QED BY <1>2, <1>4, <2>1, <2>3, <2>4, <2>5
<1>5. QED BY <1>3, <1>4

\* Frames that lost data are frames; so are those whose data was altered.
LEMMA FrameWithLess ==
  ASSUME NEW u, NEW f \in Frame(u), NEW data \in Bytes, Len(data) <= Len(f.data)
  PROVE  [f EXCEPT !.data = data] \in Frame(u)
<1>1. Len(f.data) \in Nat /\ Len(data) \in Nat /\ f.size \in Nat BY DEF Frame, Bytes
<1>2. Len(data) <= f.size BY <1>1 DEF Frame
<1>3. f \in [size : Nat, data : Bytes, sig : Seq(Bytes)] BY DEF Frame
<1>4. [f EXCEPT !.data = data] \in [size : Nat, data : Bytes, sig : Seq(Bytes)] BY <1>3
<1>5. /\ [f EXCEPT !.data = data].data = data /\ [f EXCEPT !.data = data].size = f.size
      /\ [f EXCEPT !.data = data].sig = f.sig
  BY <1>3
<1>6. Framed(u) => \E k \in 1..Len(Sent(u)) : f.size = Len(Sent(u)[k]) /\ f.sig = SubSeq(Sent(u), 1, k)
  BY DEF Frame
<1> DEFINE g == [f EXCEPT !.data = data]
<1> HIDE DEF g
<1>7. g \in [size : Nat, data : Bytes, sig : Seq(Bytes)] /\ g.data = data /\ g.size = f.size /\ g.sig = f.sig
  BY <1>4, <1>5 DEF g
<1>8. g \in Frame(u) BY <1>2, <1>6, <1>7 DEF Frame
<1>9. QED BY <1>8 DEF g

\* The data of a frame without its last byte, or with another first one.
LEMMA Shorter ==
  ASSUME NEW d \in Bytes
  PROVE  Front(d) \in Bytes /\ Len(Front(d)) <= Len(d)
<1>1. d \in Seq(Nat) /\ Len(d) \in Nat BY DEF Bytes
<1>2. Front(d) = SubSeq(d, 1, Len(d) - 1) BY DEF Front
<1>3. \A i \in 1..Len(d) - 1 : d[i] \in Nat BY <1>1
<1>4. SubSeq(d, 1, Len(d) - 1) \in Seq(Nat) /\ Len(SubSeq(d, 1, Len(d) - 1)) <= Len(d)
  <2>1. /\ SubSeq(d, 1, Len(d) - 1) \in Seq(Nat)
        /\ Len(SubSeq(d, 1, Len(d) - 1)) = IF 1 <= Len(d) - 1 THEN Len(d) - 1 - 1 + 1 ELSE 0
    BY <1>1, <1>3, SubSeqProperties, Len(d) - 1 \in Int
  <2>2. QED BY <1>1, <2>1
<1>5. QED BY <1>2, <1>4 DEF Bytes

LEMMA Altered ==
  ASSUME NEW d \in Bytes
  PROVE  [d EXCEPT ![1] = 0] \in Bytes /\ Len([d EXCEPT ![1] = 0]) = Len(d)
<1>1. d \in Seq(Nat) BY DEF Bytes
<1>2. CASE Len(d) = 0
  <2>1. [d EXCEPT ![1] = 0] = d BY <1>1, <1>2
  <2>2. QED BY <1>1, <2>1 DEF Bytes
<1>3. CASE Len(d) # 0
  <2>1. 1 \in 1..Len(d) BY <1>1, <1>3
  <2>2. QED BY <1>1, <2>1, ExceptSeq DEF Bytes
<1>4. QED BY <1>2, <1>3

\* Another record for one of a sequence's, and updates of a record spelt out.
LEMMA WithData ==
  ASSUME NEW u, NEW s \in Seq(Frame(u)), NEW i \in 1..Len(s), NEW data \in Bytes, Len(data) <= Len(s[i].data)
  PROVE  [s EXCEPT ![i].data = data] \in Seq(Frame(u))
<1>1. s[i] \in Frame(u) OBVIOUS
<1> DEFINE f == [s[i] EXCEPT !.data = data]
<1>2. f \in Frame(u) BY <1>1, FrameWithLess
<1>3. [s EXCEPT ![i].data = data] = [s EXCEPT ![i] = f] OBVIOUS
<1> HIDE DEF f
<1>4. [s EXCEPT ![i] = f] \in Seq(Frame(u)) BY <1>2
<1>5. QED BY <1>3, <1>4

LEMMA WireUpdates ==
  ASSUME NEW fr, NEW tr, NEW w, w = [frames |-> fr, torn |-> FALSE, trailer |-> tr], NEW other, NEW i
  PROVE  /\ [w EXCEPT !.frames = other].frames = other
         /\ [w EXCEPT !.frames = other].torn = FALSE
         /\ [w EXCEPT !.frames = other].trailer = tr
         /\ [w EXCEPT !.frames[i].data = other].frames = [fr EXCEPT ![i].data = other]
         /\ [w EXCEPT !.frames[i].data = other].torn = FALSE
         /\ [w EXCEPT !.frames[i].data = other].trailer = tr
         /\ [w EXCEPT !.trailer = other].frames = fr
         /\ [w EXCEPT !.trailer = other].torn = FALSE
         /\ [w EXCEPT !.trailer = other].trailer = other
         /\ [[w EXCEPT !.frames[i].data = other] EXCEPT !.trailer = NoTrailer].frames
              = [fr EXCEPT ![i].data = other]
         /\ [[w EXCEPT !.frames[i].data = other] EXCEPT !.trailer = NoTrailer].torn = FALSE
         /\ [[w EXCEPT !.frames[i].data = other] EXCEPT !.trailer = NoTrailer].trailer = NoTrailer
OBVIOUS

\* Whatever arrives of an upload is as WireIn says. The client's framing is named piece by piece.
LEMMA AlteredIn ==
  ASSUME NEW u \in Requests, NEW fr \in Seq(Frame(u)), NEW sum \in Seq(Int), NEW sig,
         Honest(u) = [frames |-> fr, torn |-> FALSE, trailer |-> [sum |-> sum, sig |-> sig]],
         Framed(u) => [i \in 1..Len(fr) |-> fr[i].data] = Sent(u) /\ sum \in {NoSum, FlattenSeq(u.chunks)},
         u.kind = "plain" /\ u.length = 0 => fr = <<>>,
         NEW x \in Arrivals(u)
  PROVE  WireIn(x, u)
<1> DEFINE tr == [sum |-> sum, sig |-> sig]
           w == [frames |-> fr, torn |-> FALSE, trailer |-> tr]
           F == DOMAIN fr
           Is(frames, torn, trailer) == x.frames = frames /\ x.torn = torn /\ x.trailer = trailer
<1>1. tr.sum = sum /\ NoTrailer.sum = NoSum /\ NoSum \in Seq(Int) BY DEF NoTrailer, NoSum
<1>2. F = 1..Len(fr) /\ Len(fr) \in Nat OBVIOUS
<1> HIDE DEF tr
\* Other frames, or other data, under a trailer that is right or missing.
<1>3. ASSUME NEW frames \in Seq(Frame(u)), NEW torn \in BOOLEAN, NEW trailer \in {tr, NoTrailer},
             Is(frames, torn, trailer), u.kind = "plain" /\ u.length = 0 => ~torn
      PROVE  WireIn(x, u)
  BY <1>1, <1>3 DEF WireIn
<1>4. ASSUME NEW i \in F, NEW data \in Bytes, Len(data) <= Len(fr[i].data)
      PROVE  [fr EXCEPT ![i].data = data] \in Seq(Frame(u))
  BY <1>2, <1>4, WithData
<1>5. ASSUME NEW i \in F, NEW data \in Bytes, Len(data) <= Len(fr[i].data), x = Torn(w, i, data)
      PROVE  WireIn(x, u)
  <2> DEFINE s == SubSeq(fr, 1, i)
  <2>1. s \in Seq(Frame(u)) /\ Len(s) = i /\ i \in 1..Len(s) /\ s[i] = fr[i] BY <1>2
  <2>4. [s EXCEPT ![i].data = data] \in Seq(Frame(u))
    <3> HIDE DEF s
    <3>1. QED BY <1>5, <2>1, WithData
  <2>5. ~(u.kind = "plain" /\ u.length = 0) BY <1>2
  <2>6. Is([s EXCEPT ![i].data = data], TRUE, NoTrailer) BY <1>5 DEF Torn
  <2> HIDE DEF s
  <2>7. QED BY <1>3, <2>4, <2>5, <2>6
<1>6. ASSUME NEW i \in F PROVE fr[i].data \in Bytes /\ Len(fr[i].data) \in Nat
  <2>1. fr[i] \in Frame(u) BY <1>2
  <2>2. fr[i].data \in Bytes BY <2>1 DEF Frame
  <2>3. QED BY <2>2 DEF Bytes
<1>7. ASSUME NEW i \in F
      PROVE  Front(fr[i].data) \in Bytes /\ Len(Front(fr[i].data)) <= Len(fr[i].data)
  BY <1>6, Shorter
<1>8. ASSUME NEW i \in F
      PROVE  [fr EXCEPT ![i].data = [fr[i].data EXCEPT ![1] = 0]] \in Seq(Frame(u))
  <2> DEFINE d == [fr[i].data EXCEPT ![1] = 0]
  <2>1. d \in Bytes /\ Len(d) = Len(fr[i].data) BY <1>6, Altered
  <2> HIDE DEF d
  <2>2. [fr EXCEPT ![i].data = d] \in Seq(Frame(u)) BY <1>4, <1>6, <2>1
  <2>3. QED BY <2>2 DEF d
<1>9. w.frames = fr OBVIOUS
<1>10. ASSUME NEW frames \in Seq(Frame(u)), x = [w EXCEPT !.frames = frames] PROVE WireIn(x, u)
  <2>1. Is(frames, FALSE, tr) BY <1>10, WireUpdates
  <2>2. QED BY <1>3, <2>1
<1>11. CASE x = w
  <2>1. Is(fr, FALSE, tr) BY <1>11
  <2>2. QED BY <1>3, <2>1
<1>12. CASE \E i \in F : x = Torn(w, i, fr[i].data)
  <2>1. PICK i \in F : x = Torn(w, i, fr[i].data) BY <1>12
  <2>2. fr[i].data \in Bytes /\ Len(fr[i].data) <= Len(fr[i].data) BY <1>6
  <2>3. QED BY <1>5, <2>1, <2>2
<1>13. CASE \E i \in F : x = Torn(w, i, Front(fr[i].data))
  BY <1>5, <1>7, <1>13
<1>14. CASE \E i \in F : x = Garbled(w, i)
  <2>1. PICK i \in F : x = Garbled(w, i) BY <1>14
  <2> DEFINE d == [fr[i].data EXCEPT ![1] = 0]
  <2>2. x = [w EXCEPT !.frames[i].data = d] BY <1>9, <2>1 DEF Garbled
  <2>3. [fr EXCEPT ![i].data = d] \in Seq(Frame(u)) BY <1>8
  <2> HIDE DEF d, w
  <2>4. Is([fr EXCEPT ![i].data = d], FALSE, tr) BY <2>2, WireUpdates DEF w
  <2>5. QED BY <1>3, <2>3, <2>4
<1>15. CASE \E i \in F : x = [w EXCEPT !.frames = RemoveAt(fr, i)]
  <2>1. PICK i \in F : x = [w EXCEPT !.frames = RemoveAt(fr, i)] BY <1>15
  <2>2. RemoveAt(fr, i) \in Seq(Frame(u)) BY <1>2 DEF RemoveAt
  <2>3. QED BY <1>10, <2>1, <2>2
<1>16. CASE \E i \in F : x = [w EXCEPT !.frames = InsertAt(fr, i, fr[i])]
  <2>1. PICK i \in F : x = [w EXCEPT !.frames = InsertAt(fr, i, fr[i])] BY <1>16
  <2>2. fr[i] \in Frame(u) BY <1>2
  <2>3. InsertAt(fr, i, fr[i]) \in Seq(Frame(u)) BY <1>2, <2>2 DEF InsertAt
  <2>4. QED BY <1>10, <2>1, <2>3
<1>17. CASE \E i \in F \ {Len(fr)} : x = [w EXCEPT !.frames = Exchanged(fr, i)]
  <2>1. PICK i \in F \ {Len(fr)} : x = [w EXCEPT !.frames = Exchanged(fr, i)] BY <1>17
  <2>2. i \in 1..Len(fr) /\ i + 1 \in 1..Len(fr) BY <1>2
  <2>3. fr[i] \in Frame(u) /\ fr[i + 1] \in Frame(u) BY <2>2
  <2>4. Exchanged(fr, i) \in Seq(Frame(u)) BY <2>2, <2>3 DEF Exchanged
  <2>5. QED BY <1>10, <2>1, <2>4
<1>18. CASE \E i \in F : x = [w EXCEPT !.frames = SubSeq(fr, 1, i - 1)]
  <2>1. PICK i \in F : x = [w EXCEPT !.frames = SubSeq(fr, 1, i - 1)] BY <1>18
  <2>2. SubSeq(fr, 1, i - 1) \in Seq(Frame(u)) BY <1>2
  <2>3. QED BY <1>10, <2>1, <2>2
<1>19. CASE x = [w EXCEPT !.trailer = NoTrailer]
  <2>1. Is(fr, FALSE, NoTrailer) BY <1>19, WireUpdates
  <2>2. QED BY <1>3, <2>1
<1>20. CASE x = [w EXCEPT !.trailer.sum = <<0>>]
  <2>1. x.frames = fr /\ x.torn = FALSE /\ x.trailer.sum = <<0>> BY <1>20 DEF tr
  <2>2. Data(x) = [i \in 1..Len(fr) |-> fr[i].data] BY <2>1 DEF Data
  <2>3. <<0>> \in Seq(Int) OBVIOUS
  <2>4. QED BY <2>1, <2>2, <2>3 DEF WireIn
<1>21. CASE \E i \in F : x = [Garbled(w, i) EXCEPT !.trailer = NoTrailer]
  <2>1. PICK i \in F : x = [Garbled(w, i) EXCEPT !.trailer = NoTrailer] BY <1>21
  <2> DEFINE d == [fr[i].data EXCEPT ![1] = 0]
  <2>2. Garbled(w, i) = [w EXCEPT !.frames[i].data = d] BY <1>9 DEF Garbled
  <2>3. [fr EXCEPT ![i].data = d] \in Seq(Frame(u)) BY <1>8
  <2> HIDE DEF d, w
  <2>4. x = [[w EXCEPT !.frames[i].data = d] EXCEPT !.trailer = NoTrailer] BY <2>1, <2>2, Zenon
  <2>5. Is([fr EXCEPT ![i].data = d], FALSE, NoTrailer) BY <2>4, WireUpdates DEF w
  <2>6. QED BY <1>3, <2>3, <2>5
<1>22. QED
  <2> DEFINE h == Honest(u)
  <2>1. \/ x = h
        \/ \E i \in DOMAIN h.frames : x = Torn(h, i, h.frames[i].data)
        \/ \E i \in DOMAIN h.frames : x = Torn(h, i, Front(h.frames[i].data))
        \/ \E i \in DOMAIN h.frames : x = Garbled(h, i)
        \/ \E i \in DOMAIN h.frames : x = [h EXCEPT !.frames = RemoveAt(h.frames, i)]
        \/ \E i \in DOMAIN h.frames : x = [h EXCEPT !.frames = InsertAt(h.frames, i, h.frames[i])]
        \/ \E i \in (DOMAIN h.frames) \ {Len(h.frames)} : x = [h EXCEPT !.frames = Exchanged(h.frames, i)]
        \/ \E i \in DOMAIN h.frames : x = [h EXCEPT !.frames = SubSeq(h.frames, 1, i - 1)]
        \/ x = [h EXCEPT !.trailer = NoTrailer] \/ x = [h EXCEPT !.trailer.sum = <<0>>]
        \/ \E i \in DOMAIN h.frames : x = [Garbled(h, i) EXCEPT !.trailer = NoTrailer]
    BY Zenon DEF Arrivals
  <2>2. h = w BY DEF tr
  <2>3. w.frames = fr OBVIOUS
  <2> HIDE DEF w, h
  <2>4. h.frames = fr BY <2>2, <2>3
  <2>5. \/ x = w
        \/ \E i \in DOMAIN fr : x = Torn(w, i, fr[i].data)
        \/ \E i \in DOMAIN fr : x = Torn(w, i, Front(fr[i].data))
        \/ \E i \in DOMAIN fr : x = Garbled(w, i)
        \/ \E i \in DOMAIN fr : x = [w EXCEPT !.frames = RemoveAt(fr, i)]
        \/ \E i \in DOMAIN fr : x = [w EXCEPT !.frames = InsertAt(fr, i, fr[i])]
        \/ \E i \in (DOMAIN fr) \ {Len(fr)} : x = [w EXCEPT !.frames = Exchanged(fr, i)]
        \/ \E i \in DOMAIN fr : x = [w EXCEPT !.frames = SubSeq(fr, 1, i - 1)]
        \/ x = [w EXCEPT !.trailer = NoTrailer] \/ x = [w EXCEPT !.trailer.sum = <<0>>]
        \/ \E i \in DOMAIN fr : x = [Garbled(w, i) EXCEPT !.trailer = NoTrailer]
    BY <2>1, <2>2, <2>4
  <2>6. QED
    BY <1>11, <1>12, <1>13, <1>14, <1>15, <1>16, <1>17, <1>18, <1>19, <1>20, <1>21, <2>5, Zenon

LEMMA ArrivalsIn ==
  ASSUME NEW u \in Requests, NEW x \in Arrivals(u)
  PROVE  WireIn(x, u)
<1> DEFINE w == Honest(u)
<1>1. /\ w = [frames |-> w.frames, torn |-> FALSE, trailer |-> w.trailer]
      /\ w.trailer = [sum |-> w.trailer.sum, sig |-> w.trailer.sig]
      /\ w.frames \in Seq(Frame(u)) /\ w.trailer.sum \in Seq(Int)
      /\ Framed(u) => Data(w) = Sent(u) /\ w.trailer.sum \in {NoSum, FlattenSeq(u.chunks)}
      /\ u.kind = "plain" /\ u.length = 0 => w.frames = <<>>
  BY HonestIn
<1> HIDE DEF w
<1>2. Honest(u) = [frames |-> w.frames, torn |-> FALSE,
                   trailer |-> [sum |-> w.trailer.sum, sig |-> w.trailer.sig]]
  BY <1>1 DEF w
<1>3. QED BY <1>1, <1>2, AlteredIn DEF Data

(***************************************************************************)
(* The reader. Flat(w, m) are the bytes of the first m frames; while the   *)
(* reader has met no error, what has gone through the hashes is that and   *)
(* the beginning of the frame being read.                                  *)
(***************************************************************************)
Flat(w, m) == FlattenSeq(SubSeq(Data(w), 1, m))

\* The signature chain so far is that of the client, and of the frames read.
Chained(u, w, prev, m) ==
  Signed(u) => /\ m <= Len(Sent(u))
               /\ prev = SubSeq(Data(w), 1, m) /\ prev = SubSeq(Sent(u), 1, m)

\* Chunks as the client sent them, then the beginning of a frame.
Form(h, u, w) ==
  \E j \in 0..Len(u.chunks), i \in DOMAIN w.frames :
    \E n \in 0..Len(w.frames[i].data) :
      h = FlattenSeq(SubSeq(u.chunks, 1, j)) \o SubSeq(w.frames[i].data, 1, n)

Reader == [at : Nat, left : Nat, prev : Seq(Bytes), err : BOOLEAN, done : BOOLEAN, sum : Seq(Int)]

\* Where a reader without an error is: between two frames, or inside one.
Between(r, h, u, w) == h = Flat(w, r.at) /\ Chained(u, w, r.prev, r.at)
Inside(r, h, u, w) ==
  LET f == w.frames[r.at] IN
  /\ r.at > 0 /\ r.left <= f.size /\ f.size - r.left <= Len(f.data)
  /\ h = Flat(w, r.at - 1) \o SubSeq(f.data, 1, f.size - r.left)
  /\ Chained(u, w, r.prev, r.at - 1)

AtEnd(r, u, w) ==
  /\ ~r.err /\ r.left = 0 /\ ~w.torn
  /\ Framed(u) => r.at > 0 /\ w.frames[r.at].size = 0 /\ r.sum = w.trailer.sum

ReaderIn(r, h, u, w) ==
  /\ r \in Reader /\ h \in Bytes /\ r.at <= Len(w.frames)
  /\ ~r.err => IF r.left = 0 THEN Between(r, h, u, w) ELSE Inside(r, h, u, w)
  /\ r.done => AtEnd(r, u, w)
  /\ Signed(u) => h = <<>> \/ Form(h, u, w)

\* What WireIn says of one frame.
LEMMA FrameFacts ==
  ASSUME NEW u \in Requests, NEW w, WireIn(w, u), NEW i \in 1..Len(w.frames)
  PROVE  /\ Len(w.frames) \in Nat /\ w.frames[i].data \in Bytes /\ Len(w.frames[i].data) \in Nat
         /\ w.frames[i].size \in Nat /\ Len(w.frames[i].data) <= w.frames[i].size
         /\ w.frames[i].sig \in Seq(Bytes)
         /\ Framed(u) => \E k \in 1..Len(Sent(u)) : /\ w.frames[i].size = Len(Sent(u)[k])
                                                    /\ w.frames[i].sig = SubSeq(Sent(u), 1, k)
         /\ Data(w) \in Seq(Bytes) /\ Len(Data(w)) = Len(w.frames) /\ Data(w)[i] = w.frames[i].data
<1>1. w.frames \in Seq(Frame(u)) BY DEF WireIn
<1>2. \A k \in 1..Len(w.frames) : w.frames[k] \in Frame(u) BY <1>1
<1>3. Len(w.frames) \in Nat BY <1>1
<1>4. \A k \in 1..Len(w.frames) : w.frames[k].data \in Bytes BY <1>2 DEF Frame
<1>5. Data(w) \in Seq(Bytes) /\ Len(Data(w)) = Len(w.frames) /\ Data(w)[i] = w.frames[i].data
  BY <1>3, <1>4 DEF Data
<1>6. Len(w.frames[i].data) \in Nat BY <1>4 DEF Bytes
<1>7. QED BY <1>2, <1>3, <1>4, <1>5, <1>6 DEF Frame

\* One more element of a sequence.
LEMMA PrefixNext ==
  ASSUME NEW S, NEW s \in Seq(S), NEW i \in 1..Len(s)
  PROVE  /\ SubSeq(s, 1, i - 1) \in Seq(S) /\ Len(SubSeq(s, 1, i - 1)) = i - 1
         /\ SubSeq(s, 1, i) = Append(SubSeq(s, 1, i - 1), s[i])
<1> DEFINE a == SubSeq(s, 1, i)
           p == SubSeq(s, 1, i - 1)
           b == Append(p, s[i])
<1>1. Len(s) \in Nat /\ i \in Nat /\ i - 1 \in 0..Len(s) OBVIOUS
<1>2. a \in Seq(S) /\ Len(a) = i /\ \A k \in 1..i : a[k] = s[k] BY <1>1
<1>3. p \in Seq(S) /\ Len(p) = i - 1 /\ \A k \in 1..i - 1 : p[k] = s[k] BY <1>1
<1> HIDE DEF a, p
<1>4. b \in Seq(S) /\ Len(b) = i /\ b[i] = s[i] /\ \A k \in 1..i - 1 : b[k] = p[k] BY <1>1, <1>3
<1> HIDE DEF b
<1>5. \A k \in 1..Len(a) : a[k] = b[k]
  <2> SUFFICES ASSUME NEW k \in 1..i PROVE a[k] = b[k] BY <1>2
  <2>1. k = i \/ k \in 1..i - 1 BY <1>1
  <2>2. QED BY <1>1, <1>2, <1>3, <1>4, <2>1
<1>6. a = b BY <1>2, <1>4, <1>5, SeqEqual
<1>7. QED BY <1>3, <1>6 DEF a, b, p

\* The bytes of the first frames, one frame more, and none.
LEMMA FlatNext ==
  ASSUME NEW u \in Requests, NEW w, WireIn(w, u), NEW i \in 1..Len(w.frames)
  PROVE  /\ SubSeq(Data(w), 1, i) = Append(SubSeq(Data(w), 1, i - 1), w.frames[i].data)
         /\ SubSeq(Data(w), 1, i - 1) \in Seq(Bytes) /\ Len(SubSeq(Data(w), 1, i - 1)) = i - 1
         /\ Flat(w, i - 1) \in Bytes
         /\ Flat(w, i) = Flat(w, i - 1) \o w.frames[i].data
<1> DEFINE D == Data(w)
           s == SubSeq(D, 1, i - 1)
<1>1. /\ D \in Seq(Bytes) /\ Len(D) = Len(w.frames) /\ D[i] = w.frames[i].data /\ Len(w.frames) \in Nat
      /\ w.frames[i].data \in Bytes
  BY FrameFacts
<1> HIDE DEF D
<1>2. s \in Seq(Bytes) /\ Len(s) = i - 1 /\ SubSeq(D, 1, i) = Append(s, D[i])
  BY <1>1, PrefixNext
<1>3. s \in Seq(Seq(Nat)) /\ D[i] \in Seq(Nat) BY <1>1, <1>2 DEF Bytes
<1> HIDE DEF s
<1>4. FlattenSeq(s) \in Seq(Nat) /\ FlattenSeq(Append(s, D[i])) = FlattenSeq(s) \o D[i]
  BY <1>3, FlattenType, FlattenAppend
<1>5. QED BY <1>1, <1>2, <1>4 DEF Flat, Bytes, D, s

\* A chain of the client's signatures, as far as it goes, is about chunks the client sent.
LEMMA FlatIsSent ==
  ASSUME NEW u \in Requests, NEW w, WireIn(w, u), NEW prev, NEW m \in 0..Len(w.frames), Signed(u),
         Chained(u, w, prev, m)
  PROVE  \E j \in 0..Len(u.chunks) : Flat(w, m) = FlattenSeq(SubSeq(u.chunks, 1, j))
<1>1. /\ u.chunks \in Seq(Bytes) /\ Len(u.chunks) \in Nat /\ Len(Sent(u)) = Len(u.chunks) + 1
      /\ FlattenSeq(Sent(u)) = FlattenSeq(u.chunks) /\ Sent(u) \in Seq(Bytes)
  BY RequestFacts
<1>2. Flat(w, m) = FlattenSeq(SubSeq(Sent(u), 1, m)) /\ m <= Len(Sent(u)) BY DEF Chained, Flat
<1>3. m \in Nat
  <2>1. Len(w.frames) \in Nat BY DEF WireIn
  <2>2. QED BY <2>1
<1>4. CASE m <= Len(u.chunks)
  <2>1. SubSeq(Sent(u), 1, m) = SubSeq(u.chunks, 1, m) BY <1>1, <1>3, <1>4 DEF Sent
  <2>2. m \in 0..Len(u.chunks) BY <1>1, <1>3, <1>4
  <2>3. QED BY <1>2, <2>1, <2>2
<1>5. CASE m = Len(u.chunks) + 1
  <2>1. SubSeq(Sent(u), 1, m) = Sent(u) BY <1>1, <1>5
  <2>2. SubSeq(u.chunks, 1, Len(u.chunks)) = u.chunks BY <1>1
  <2>3. Len(u.chunks) \in 0..Len(u.chunks) BY <1>1
  <2>4. Flat(w, m) = FlattenSeq(SubSeq(u.chunks, 1, Len(u.chunks))) BY <1>1, <1>2, <2>1, <2>2, Zenon
  <2>5. QED BY <2>3, <2>4
<1>6. QED BY <1>1, <1>2, <1>3, <1>4, <1>5

LEMMA SignedIsFramed ==
  /\ signed <=> Signed(req) 
  /\ isAwsChunked <=> Framed(req)
  /\ Signed(req) => Framed(req)
BY DEF signed, Signed, isAwsChunked, Framed

\* A reader with an error or at another place is still a reader.
LEMMA ReaderUpdates ==
  ASSUME NEW r \in Reader, NEW i \in Nat, NEW n \in Nat, NEW p \in Seq(Bytes), NEW t \in Seq(Int)
  PROVE  /\ Failed(r) \in Reader /\ Failed(r).err /\ Failed(r).at = r.at /\ Failed(r).left = r.left
         /\ Failed(r).done = r.done /\ Failed(r).sum = r.sum
         /\ [r EXCEPT !.prev = p] \in Reader /\ [r EXCEPT !.prev = p].prev = p
         /\ [r EXCEPT !.prev = p].at = r.at /\ [r EXCEPT !.prev = p].left = r.left
         /\ [r EXCEPT !.prev = p].err = r.err /\ [r EXCEPT !.prev = p].done = r.done
         /\ [r EXCEPT !.at = i] \in Reader /\ [r EXCEPT !.at = i].at = i /\ [r EXCEPT !.at = i].left = r.left
         /\ [r EXCEPT !.at = i].prev = r.prev /\ [r EXCEPT !.at = i].err = r.err
         /\ [r EXCEPT !.at = i].done = r.done
         /\ [r EXCEPT !.at = i, !.left = n] \in Reader /\ [r EXCEPT !.at = i, !.left = n].at = i
         /\ [r EXCEPT !.at = i, !.left = n].left = n /\ [r EXCEPT !.at = i, !.left = n].prev = r.prev
         /\ [r EXCEPT !.at = i, !.left = n].err = r.err /\ [r EXCEPT !.at = i, !.left = n].done = r.done
         /\ [r EXCEPT !.left = n] \in Reader /\ [r EXCEPT !.left = n].left = n /\ [r EXCEPT !.left = n].at = r.at
         /\ [r EXCEPT !.left = n].prev = r.prev /\ [r EXCEPT !.left = n].err = r.err
         /\ [r EXCEPT !.left = n].done = r.done
         /\ [r EXCEPT !.done = TRUE] \in Reader /\ [r EXCEPT !.done = TRUE].at = r.at
         /\ [r EXCEPT !.done = TRUE].left = r.left /\ [r EXCEPT !.done = TRUE].prev = r.prev
         /\ [r EXCEPT !.done = TRUE].err = r.err /\ [r EXCEPT !.done = TRUE].done
         /\ [r EXCEPT !.done = TRUE, !.sum = t] \in Reader /\ [r EXCEPT !.done = TRUE, !.sum = t].at = r.at
         /\ [r EXCEPT !.done = TRUE, !.sum = t].left = r.left /\ [r EXCEPT !.done = TRUE, !.sum = t].prev = r.prev
         /\ [r EXCEPT !.done = TRUE, !.sum = t].err = r.err /\ [r EXCEPT !.done = TRUE, !.sum = t].done
         /\ [r EXCEPT !.done = TRUE, !.sum = t].sum = t
BY DEF Reader, Failed

LEMMA FailedIn ==
  ASSUME NEW u, NEW w, NEW r, NEW h, ReaderIn(r, h, u, w), ~r.done
  PROVE  ReaderIn(Failed(r), h, u, w)
<1>1. r \in Reader BY DEF ReaderIn
<1>2. /\ Failed(r) \in Reader /\ Failed(r).err /\ Failed(r).at = r.at /\ Failed(r).done = r.done
  BY <1>1 DEF Reader, Failed
<1>3. QED BY <1>2 DEF ReaderIn

\* A chunk whose signature is right is the client's next one.
LEMMA VerifyChunkIn ==
  ASSUME req \in Requests, WireIn(wire, req), NEW r \in Reader, ~r.err,
         NEW i \in 1..Len(wire.frames), Chained(req, wire, r.prev, i - 1)
  PROVE  LET v == verifyChunk(r, wire.frames[i])
         IN  /\ v \in Reader /\ v.at = r.at /\ v.left = r.left /\ v.done = r.done
             /\ ~v.err => Chained(req, wire, v.prev, i)
<1> DEFINE f == wire.frames[i]
           v == verifyChunk(r, f)
           p == Append(r.prev, f.data)
<1>1. /\ f.data \in Bytes /\ r.prev \in Seq(Bytes) /\ p \in Seq(Bytes) /\ Len(wire.frames) \in Nat
  BY FrameFacts DEF Reader
<1>2. CASE ~Signed(req)
  <2>1. v = r BY <1>2, SignedIsFramed DEF verifyChunk
  <2>2. QED BY <1>2, <2>1 DEF Chained
<1>3. CASE Signed(req) /\ f.sig = p
  <2>1. v = [r EXCEPT !.prev = p] BY <1>3, SignedIsFramed DEF verifyChunk, chunkSignature
  <2>2. v \in Reader /\ v.at = r.at /\ v.left = r.left /\ v.done = r.done /\ v.prev = p
    BY <1>1, <2>1 DEF Reader
  <2>3. PICK k \in 1..Len(Sent(req)) : f.sig = SubSeq(Sent(req), 1, k)
    <3>1. Framed(req) BY <1>3, SignedIsFramed
    <3>2. f \in Frame(req) BY DEF WireIn
    <3>3. QED BY <3>1, <3>2 DEF Frame
  <2>4. p = SubSeq(Data(wire), 1, i) /\ Len(p) = i
    <3>1. r.prev = SubSeq(Data(wire), 1, i - 1) BY <1>3 DEF Chained
    <3>2. /\ SubSeq(Data(wire), 1, i) = Append(SubSeq(Data(wire), 1, i - 1), f.data)
          /\ Len(SubSeq(Data(wire), 1, i - 1)) = i - 1
      BY FlatNext
    <3>3. QED BY <1>1, <3>1, <3>2
  <2>5. k = i
    <3>1. Sent(req) \in Seq(Bytes) BY RequestFacts
    <3>2. Len(SubSeq(Sent(req), 1, k)) = k BY <3>1
    <3>3. QED BY <1>3, <2>3, <2>4, <3>2
  <2>6. Chained(req, wire, v.prev, i)
    <3> HIDE DEF f, v, p
    <3>1. p = SubSeq(Sent(req), 1, i) BY <1>3, <2>3, <2>5
    <3>2. i <= Len(Sent(req)) BY <2>3, <2>5
    <3>3. QED BY <2>2, <2>4, <3>1, <3>2 DEF Chained
  <2>7. QED BY <2>2, <2>6
<1>4. CASE Signed(req) /\ f.sig # p
  <2>1. v = Failed(r) BY <1>4, SignedIsFramed DEF verifyChunk, chunkSignature
  <2>2. QED BY <2>1 DEF Failed, Reader
<1>5. QED BY <1>2, <1>3, <1>4

\* Between two frames: the next header, the end, or an error.
LEMMA AdvanceIn ==
  ASSUME req \in Requests, WireIn(wire, req), NEW r, NEW h, ReaderIn(r, h, req, wire),
         ~r.err, ~r.done, r.left = 0
  PROVE  /\ ReaderIn(advance(r), h, req, wire)
         /\ advance(r).err \/ advance(r).done \/ advance(r).left > 0
<1> DEFINE i == r.at + 1
           f == wire.frames[i]
           a == advance(r)
<1>1. /\ r \in Reader /\ h \in Bytes /\ r.at \in Nat /\ r.at <= Len(wire.frames) /\ i \in Nat
      /\ h = Flat(wire, r.at) /\ Chained(req, wire, r.prev, r.at)
      /\ Signed(req) => h = <<>> \/ Form(h, req, wire)
  BY DEF ReaderIn, Between, Reader
<1>2. Len(wire.frames) \in Nat /\ wire.trailer.sum \in Seq(Int) BY DEF WireIn
<1>3. CASE i > Len(wire.frames)
  <2>1. CASE Framed(req) \/ wire.torn
    <3>1. a = Failed(r) BY <1>3, <2>1, SignedIsFramed DEF advance
    <3>2. a.err BY <1>1, <3>1 DEF Failed, Reader
    <3>3. QED BY <3>1, <3>2, FailedIn
  <2>2. CASE ~Framed(req) /\ ~wire.torn
    <3>1. a = [r EXCEPT !.done = TRUE] BY <1>3, <2>2, SignedIsFramed DEF advance
    <3>2. /\ a \in Reader /\ a.at = r.at /\ a.left = r.left /\ a.prev = r.prev
          /\ a.err = r.err /\ a.done
      BY <1>1, <3>1 DEF Reader
    <3> HIDE DEF a
    <3>3. QED BY <1>1, <2>2, <3>2 DEF ReaderIn, Between, AtEnd, a
  <2>3. QED BY <2>1, <2>2
<1>4. CASE i <= Len(wire.frames) /\ f.size > 0
  <2>1. i \in 1..Len(wire.frames) BY <1>1, <1>2, <1>4
  <2>2. f.size \in Nat /\ Flat(wire, r.at) \in Bytes /\ f.data \in Bytes
    <3>1. f.size \in Nat /\ f.data \in Bytes BY <2>1, FrameFacts
    <3>2. Flat(wire, i - 1) \in Bytes BY <2>1, FlatNext
    <3>3. i - 1 = r.at BY <1>1
    <3>4. QED BY <3>1, <3>2, <3>3
  <2>3. a = [r EXCEPT !.at = i, !.left = f.size] BY <1>1, <1>2, <1>4 DEF advance
  <2>4. /\ a \in Reader /\ a.at = i /\ a.left = f.size /\ a.prev = r.prev
        /\ a.err = r.err /\ a.done = r.done
    BY <1>1, <2>2, <2>3 DEF Reader
  <2> HIDE DEF a
  <2>5. a.at > 0 /\ a.left <= f.size /\ f.size - a.left = 0 /\ a.at - 1 = r.at BY <1>1, <2>2, <2>4
  <2>6. SubSeq(f.data, 1, 0) = <<>> /\ Len(f.data) \in Nat BY <2>2 DEF Bytes
  <2>7. h = Flat(wire, r.at) \o <<>> BY <1>1, <2>2, ConcatEmptySeq DEF Bytes
  <2>8. Inside(a, h, req, wire)
    <3>1. wire.frames[a.at] = f BY <2>4
    <3>2. SubSeq(f.data, 1, f.size - a.left) = <<>> /\ f.size - a.left <= Len(f.data) BY <2>5, <2>6
    <3>3. Chained(req, wire, a.prev, a.at - 1) BY <1>1, <2>4, <2>5
    <3>4. h = Flat(wire, a.at - 1) \o SubSeq(f.data, 1, f.size - a.left) BY <2>5, <2>7, <3>2
    <3> HIDE DEF f
    <3>5. QED BY <2>5, <3>1, <3>2, <3>3, <3>4 DEF Inside
  <2>9. a.left # 0 /\ a.left > 0 BY <1>4, <2>2, <2>4
  <2>10. QED BY <1>1, <1>4, <2>4, <2>8, <2>9 DEF ReaderIn, a
<1>5. CASE i <= Len(wire.frames) /\ ~(f.size > 0)
  <2>1. i \in 1..Len(wire.frames) BY <1>1, <1>2, <1>5
  <2> DEFINE b == [r EXCEPT !.at = i]
             v == verifyChunk(b, f)
  <2>2. f.size = 0 /\ f.data = <<>>
    <3>1. f.size \in Nat /\ f.data \in Bytes /\ Len(f.data) <= f.size /\ Len(f.data) \in Nat
      BY <2>1, FrameFacts
    <3>2. f.size = 0 /\ Len(f.data) = 0 BY <1>5, <3>1
    <3>3. QED BY <3>1, <3>2 DEF Bytes
  <2>3. h = Flat(wire, i)
    <3>1. Flat(wire, i) = Flat(wire, i - 1) \o f.data /\ Flat(wire, i - 1) \in Bytes BY <2>1, FlatNext
    <3>2. i - 1 = r.at BY <1>1
    <3>3. Flat(wire, i - 1) \o <<>> = Flat(wire, i - 1) BY <3>1, ConcatEmptySeq DEF Bytes
    <3>4. QED BY <1>1, <2>2, <3>1, <3>2, <3>3
  <2>4. /\ b \in Reader /\ b.at = i /\ b.left = 0 /\ b.prev = r.prev /\ b.err = r.err /\ b.done = r.done
    BY <1>1 DEF Reader
  <2>5. Chained(req, wire, b.prev, i - 1) BY <1>1, <2>4
  <2> HIDE DEF b
  <2>6. /\ v \in Reader /\ v.at = i /\ v.left = 0 /\ ~v.done
        /\ ~v.err => Chained(req, wire, v.prev, i)
    BY <2>1, <2>4, <2>5, VerifyChunkIn
  <2>7. a = IF v.err THEN v ELSE readTrailer(v) BY <1>1, <1>2, <1>5 DEF advance, b
  <2> HIDE DEF v, a
  <2>8. CASE v.err
    BY <1>1, <1>5, <2>6, <2>7, <2>8 DEF ReaderIn, a
  <2>9. CASE ~v.err
    <3>1. ReaderIn(v, h, req, wire) BY <1>1, <1>5, <2>3, <2>6, <2>9 DEF ReaderIn, Between
    <3>2. CASE a = Failed(v)
      <4>1. a.err BY <2>6, <3>2 DEF Failed, Reader
      <4>2. QED BY <2>6, <3>1, <3>2, <4>1, FailedIn DEF a
    <3>3. CASE a = [v EXCEPT !.done = TRUE, !.sum = wire.trailer.sum] /\ ~wire.torn
      <4>1. /\ a \in Reader /\ a.at = i /\ a.left = 0 /\ a.prev = v.prev /\ ~a.err /\ a.done
            /\ a.sum = wire.trailer.sum
        BY <1>2, <2>6, <2>9, <3>3 DEF Reader
      <4>2. AtEnd(a, req, wire) BY <1>1, <2>2, <3>3, <4>1 DEF AtEnd
      <4>3. Between(a, h, req, wire) BY <2>3, <2>6, <2>9, <4>1 DEF Between
      <4>4. QED BY <1>1, <1>5, <4>1, <4>2, <4>3 DEF ReaderIn, a
    <3>4. QED BY <2>7, <2>9, <3>2, <3>3 DEF readTrailer
  <2>10. QED BY <2>8, <2>9
<1>6. QED BY <1>1, <1>2, <1>3, <1>4, <1>5

\* Inside a frame: one more byte of it. With the last the signature is checked.
LEMMA ByteIn ==
  ASSUME req \in Requests, WireIn(wire, req), NEW r, NEW h, ReaderIn(r, h, req, wire)
  PROVE  LET f == wire.frames[r.at]
             k == f.size - r.left + 1
             s == [r EXCEPT !.left = @ - 1]
             R == IF s.left = 0 THEN finishChunk(s) ELSE s
         IN  ~r.err /\ ~r.done /\ r.left # 0 /\ ~(k > Len(f.data)) =>
               f.data[k] \in Nat /\ ReaderIn(R, h \o <<f.data[k]>>, req, wire)
<1> DEFINE i == r.at
           f == wire.frames[i]
           d == f.data
           c == f.size - r.left
           k == c + 1
           s == [r EXCEPT !.left = @ - 1]
           g == h \o <<d[k]>>
           R == IF s.left = 0 THEN finishChunk(s) ELSE s
<1>0. SUFFICES ASSUME ~r.err, ~r.done, r.left # 0, ~(k > Len(d))
               PROVE  d[k] \in Nat /\ ReaderIn(R, g, req, wire)
  OBVIOUS
<1>1. r \in Reader /\ r.left \in Nat /\ i \in Nat /\ h \in Bytes /\ i <= Len(wire.frames) BY DEF ReaderIn, Reader
<1>2. Inside(r, h, req, wire) BY <1>0 DEF ReaderIn
<1>3. /\ i > 0 /\ r.left <= f.size /\ c <= Len(d) /\ h = Flat(wire, i - 1) \o SubSeq(d, 1, c)
      /\ Chained(req, wire, r.prev, i - 1)
  BY <1>2 DEF Inside
<1>4. i \in 1..Len(wire.frames)
  <2>1. Len(wire.frames) \in Nat BY DEF WireIn
  <2>2. QED BY <1>1, <1>3, <2>1
<1>5. d \in Bytes /\ Len(d) \in Nat /\ f.size \in Nat /\ Len(d) <= f.size BY <1>4, FrameFacts
<1>6. /\ Flat(wire, i - 1) \in Bytes /\ Flat(wire, i) = Flat(wire, i - 1) \o d BY <1>4, FlatNext
<1>7. k = c + 1 /\ k \in 1..Len(d) /\ c \in Nat
  <2>1. r.left <= f.size BY <1>3
  <2> HIDE DEF d, f
  <2>2. c \in Nat BY <1>1, <1>5, <2>1
  <2> HIDE DEF c
  <2>3. k = c + 1 /\ k \in Nat /\ k >= 1 BY <2>2
  <2>4. ~(k > Len(d)) BY <1>0
  <2> HIDE DEF k
  <2>5. QED BY <1>5, <2>2, <2>3, <2>4
<1>8. d[k] \in Nat
  <2> HIDE DEF d, k
  <2>1. d \in Seq(Nat) BY <1>5 DEF Bytes
  <2>2. QED BY <1>7, <2>1
<1>9. g = Flat(wire, i - 1) \o SubSeq(d, 1, k) /\ g \in Bytes
  <2> HIDE DEF d, c, k
  <2>1. d \in Seq(Nat) /\ Flat(wire, i - 1) \in Seq(Nat) BY <1>5, <1>6 DEF Bytes
  <2>2. SubSeq(d, 1, k) = SubSeq(d, 1, k - 1) \o <<d[k]>>
    <3>1. 1 \in 1..Len(d) /\ k \in 1..Len(d) BY <1>5, <1>7
    <3>2. QED BY <2>1, <3>1, SubSeqRecursiveSecond
  <2>3. k - 1 = c BY <1>7
  <2>4. SubSeq(d, 1, c) \in Seq(Nat) /\ <<d[k]>> \in Seq(Nat)
    <3>1. \A n \in 1..c : d[n] \in Nat BY <2>1, <1>5, <1>7
    <3>2. QED BY <1>7, <1>8, <3>1, SubSeqProperties
  <2>5. g = Flat(wire, i - 1) \o (SubSeq(d, 1, c) \o <<d[k]>>)
    <3> DEFINE F == Flat(wire, i - 1)
               p == SubSeq(d, 1, c)
               q == <<d[k]>>
    <3>1. h = F \o p BY <1>3 DEF d, c
    <3>2. F \in Seq(Nat) /\ p \in Seq(Nat) /\ q \in Seq(Nat) BY <2>1, <2>4
    <3> HIDE DEF F, p, q
    <3>3. (F \o p) \o q = F \o (p \o q) BY <3>2, ConcatAssociative
    <3>4. h \o q = F \o (p \o q) BY <3>1, <3>3
    <3>5. QED BY <3>4 DEF F, p, q
  <2>6. g \in Seq(Nat) BY <1>1, <2>4, ConcatProperties DEF Bytes
  <2>7. QED BY <2>2, <2>3, <2>5, <2>6 DEF Bytes
<1>10. Signed(req) => Form(g, req, wire)
  <2> SUFFICES ASSUME Signed(req) PROVE Form(g, req, wire) OBVIOUS
  <2>1. i - 1 \in 0..Len(wire.frames) BY <1>4
  <2>2. PICK j \in 0..Len(req.chunks) : Flat(wire, i - 1) = FlattenSeq(SubSeq(req.chunks, 1, j))
    BY <1>3, <2>1, FlatIsSent
  <2>3. i \in DOMAIN wire.frames BY <1>4 DEF WireIn
  <2>4. k \in 0..Len(d) BY <1>5, <1>7
  <2>5. g = FlattenSeq(SubSeq(req.chunks, 1, j)) \o SubSeq(wire.frames[i].data, 1, k) BY <1>9, <2>2
  <2> HIDE DEF g, i
  <2>6. QED BY <2>2, <2>3, <2>4, <2>5 DEF Form
<1>11. /\ s \in Reader /\ s.left = r.left - 1 /\ s.left \in Nat /\ s.at = i /\ s.prev = r.prev /\ s.err = r.err
       /\ s.done = r.done
  BY <1>0, <1>1 DEF Reader
<1> HIDE DEF s
<1>12. CASE s.left # 0
  <2>1. f.size - s.left = k /\ s.left <= f.size BY <1>1, <1>5, <1>7, <1>11
  <2>2. Inside(s, g, req, wire)
    <3> HIDE DEF g
    <3>1. k <= Len(d) BY <1>5, <1>7
    <3>2. QED BY <1>3, <1>9, <1>11, <2>1, <3>1 DEF Inside
  <2>3. R = s BY <1>12
  <2> HIDE DEF g, R
  <2>4. ReaderIn(R, g, req, wire) BY <1>1, <1>9, <1>0, <1>10, <1>11, <1>12, <2>2, <2>3 DEF ReaderIn
  <2>5. QED BY <1>8, <2>4
<1>13. CASE s.left = 0
  <2>1. k = Len(d)
    <3>1. r.left = 1 BY <1>1, <1>11, <1>13
    <3> HIDE DEF d, f
    <3>2. k = f.size BY <1>5, <3>1
    <3> HIDE DEF k
    <3>3. QED BY <1>5, <1>7, <3>2
  <2>2. g = Flat(wire, i)
    <3>1. SubSeq(d, 1, Len(d)) = d BY <1>5, SubSeqFull DEF Bytes
    <3>2. QED BY <1>6, <1>9, <2>1, <3>1
  <2>3. R = finishChunk(s) BY <1>13
  <2> HIDE DEF g, R
  <2>4. CASE ~Framed(req)
    <3>1. R = s BY <2>3, <2>4, SignedIsFramed DEF finishChunk
    <3>2. Between(R, g, req, wire) BY <1>11, <2>2, <2>4, <3>1, SignedIsFramed DEF Between, Chained
    <3>3. QED BY <1>1, <1>8, <1>9, <1>0, <1>10, <1>11, <1>13, <3>1, <3>2 DEF ReaderIn
  <2>5. CASE Framed(req) /\ wire.torn /\ i = Len(wire.frames)
    <3>1. R = Failed(s) BY <1>11, <2>3, <2>5, SignedIsFramed DEF finishChunk
    <3>2. R \in Reader /\ R.err /\ R.at = i /\ ~R.done BY <1>0, <1>11, <3>1 DEF Failed, Reader
    <3>3. QED BY <1>1, <1>8, <1>9, <1>10, <3>2 DEF ReaderIn
  <2>6. CASE Framed(req) /\ ~(wire.torn /\ i = Len(wire.frames))
    <3>1. R = verifyChunk(s, f) BY <1>11, <2>3, <2>6, SignedIsFramed DEF finishChunk
    <3>2. /\ R \in Reader /\ R.at = i /\ R.left = 0 /\ ~R.done
          /\ ~R.err => Chained(req, wire, R.prev, i)
      BY <1>0, <1>3, <1>4, <1>11, <1>13, <3>1, VerifyChunkIn
    <3>3. QED BY <1>1, <1>8, <1>9, <1>10, <2>2, <3>2 DEF ReaderIn, Between
  <2>7. QED BY <2>4, <2>5, <2>6
<1>14. QED BY <1>12, <1>13

\* One call of Read.
LEMMA ReadIn ==
  ASSUME req \in Requests, WireIn(wire, req), ReaderIn(reader, hashed, req, wire)
  PROVE  /\ ReaderIn(Read.reader, hashed \o Read.bytes, req, wire)
         /\ Read.out \in {"byte", "eof", "error"} /\ Read.bytes \in Bytes
         /\ Read.out = "eof" => Read.reader.done /\ Read.bytes = <<>>
         /\ Read.out # "byte" => hashed \o Read.bytes = hashed
<1> DEFINE r == IF reader.err \/ reader.done \/ reader.left > 0 THEN reader ELSE advance(reader)
           f == wire.frames[r.at]
           k == f.size - r.left + 1
           s == [r EXCEPT !.left = @ - 1]
           n == IF s.left = 0 THEN finishChunk(s) ELSE s
<1>1. /\ reader \in Reader /\ reader.left \in Nat /\ hashed \in Bytes BY DEF ReaderIn, Reader
<1>2. ReaderIn(r, hashed, req, wire)
  <2>1. CASE reader.err \/ reader.done \/ reader.left > 0 BY <2>1
  <2>2. CASE ~(reader.err \/ reader.done \/ reader.left > 0)
    <3>1. reader.left = 0 BY <1>1, <2>2
    <3>2. QED BY <2>2, <3>1, AdvanceIn
  <2>3. QED BY <2>1, <2>2
<1>3. ~r.err /\ ~r.done => r.left # 0
  <2>1. CASE reader.err \/ reader.done \/ reader.left > 0 BY <1>1, <2>1
  <2>2. CASE ~(reader.err \/ reader.done \/ reader.left > 0)
    <3>1. reader.left = 0 BY <1>1, <2>2
    <3>2. advance(reader).err \/ advance(reader).done \/ advance(reader).left > 0 BY <2>2, <3>1, AdvanceIn
    <3>3. QED BY <2>2, <3>2
  <2>3. QED BY <2>1, <2>2
<1>4. hashed \o <<>> = hashed /\ <<>> \in Bytes BY <1>1, ConcatEmptySeq DEF Bytes
<1>5. Read = IF r.err THEN [reader |-> r, out |-> "error", bytes |-> <<>>]
             ELSE IF r.done THEN [reader |-> r, out |-> "eof", bytes |-> <<>>]
             ELSE IF k > Len(f.data) THEN [reader |-> Failed(r), out |-> "error", bytes |-> <<>>]
             ELSE [reader |-> n, out |-> "byte", bytes |-> <<f.data[k]>>]
  BY Zenon DEF Read
<1>6. ~r.err /\ ~r.done /\ r.left # 0 /\ ~(k > Len(f.data)) =>
        f.data[k] \in Nat /\ ReaderIn(n, hashed \o <<f.data[k]>>, req, wire)
  <2> HIDE DEF r
  <2>1. QED BY <1>2, ByteIn, Zenon
<1> HIDE DEF r, f, k, s, n
<1>7. CASE r.err
  <2>1. Read = [reader |-> r, out |-> "error", bytes |-> <<>>] BY <1>5, <1>7
  <2>2. QED BY <1>2, <1>4, <2>1
<1>8. CASE ~r.err /\ r.done
  <2>1. Read = [reader |-> r, out |-> "eof", bytes |-> <<>>] BY <1>5, <1>8
  <2>2. QED BY <1>2, <1>4, <1>8, <2>1
<1>9. CASE ~r.err /\ ~r.done /\ k > Len(f.data)
  <2>1. ReaderIn(Failed(r), hashed, req, wire) BY <1>2, <1>9, FailedIn
  <2>2. Read = [reader |-> Failed(r), out |-> "error", bytes |-> <<>>] BY <1>5, <1>9
  <2>3. QED BY <1>4, <2>1, <2>2
<1>10. CASE ~r.err /\ ~r.done /\ ~(k > Len(f.data))
  <2>1. f.data[k] \in Nat /\ ReaderIn(n, hashed \o <<f.data[k]>>, req, wire) BY <1>3, <1>6, <1>10
  <2>2. Read = [reader |-> n, out |-> "byte", bytes |-> <<f.data[k]>>] BY <1>5, <1>10
  <2>3. <<f.data[k]>> \in Bytes BY <2>1 DEF Bytes
  <2>4. QED BY <2>1, <2>2, <2>3
<1>11. QED BY <1>7, <1>8, <1>9, <1>10

\* At the end of a body whose frames are the client's, or are signed, all of it has been hashed.
LEMMA WholeWhenDone ==
  ASSUME NEW u \in Requests, NEW w, WireIn(w, u), NEW r, NEW h, ReaderIn(r, h, u, w), r.done,
         Framed(u)
  PROVE  Signed(u) \/ Data(w) = Sent(u) => h = FlattenSeq(u.chunks)
<1> DEFINE i == r.at
<1>1. /\ r \in Reader /\ i \in Nat /\ i <= Len(w.frames) /\ AtEnd(r, u, w) BY DEF ReaderIn, Reader
<1>2. i > 0 /\ w.frames[i].size = 0 /\ h = Flat(w, i) /\ Chained(u, w, r.prev, i)
  BY <1>1 DEF ReaderIn, Between, AtEnd
<1>3. Len(w.frames) \in Nat BY DEF WireIn
<1>4. i \in 1..Len(w.frames) BY <1>1, <1>2, <1>3
<1>5. Data(w) \in Seq(Bytes) /\ Len(Data(w)) = Len(w.frames) /\ Data(w)[i] = <<>>
  <2>1. /\ Data(w) \in Seq(Bytes) /\ Len(Data(w)) = Len(w.frames) /\ Data(w)[i] = w.frames[i].data
    <3>1. \A k \in 1..Len(w.frames) :
            Data(w) \in Seq(Bytes) /\ Len(Data(w)) = Len(w.frames) /\ Data(w)[k] = w.frames[k].data
      BY FrameFacts
    <3>2. QED BY <1>4, <3>1, Zenon
  <2>2. /\ w.frames[i].data \in Bytes /\ Len(w.frames[i].data) <= w.frames[i].size
        /\ Len(w.frames[i].data) \in Nat
    BY <1>4, FrameFacts
  <2>3. Len(w.frames[i].data) = 0 BY <1>2, <2>2
  <2>4. w.frames[i].data = <<>> BY <2>2, <2>3 DEF Bytes
  <2>5. QED BY <2>1, <2>4
<1>6. /\ Sent(u) \in Seq(Bytes) /\ FlattenSeq(Sent(u)) = FlattenSeq(u.chunks) /\ Len(Sent(u)) \in Nat
      /\ \A k \in 1..Len(Sent(u)) : Sent(u)[k] = <<>> <=> k = Len(Sent(u))
  BY RequestFacts
<1>7. SUFFICES ASSUME Signed(u) \/ Data(w) = Sent(u) PROVE h = FlattenSeq(u.chunks) OBVIOUS
<1>8. i <= Len(Sent(u)) /\ SubSeq(Data(w), 1, i) = SubSeq(Sent(u), 1, i)
  <2>1. CASE Signed(u) BY <1>2, <2>1 DEF Chained
  <2>2. CASE Data(w) = Sent(u) BY <1>4, <1>5, <2>2
  <2>3. QED BY <1>7, <2>1, <2>2
<1>9. i = Len(Sent(u))
  <2>1. SubSeq(Data(w), 1, i)[i] = Data(w)[i] BY <1>4, <1>5
  <2>2. SubSeq(Sent(u), 1, i)[i] = Sent(u)[i] BY <1>4, <1>6, <1>8
  <2>3. Sent(u)[i] = <<>> BY <1>5, <1>8, <2>1, <2>2
  <2>4. i \in 1..Len(Sent(u)) BY <1>4, <1>6, <1>8
  <2>5. QED BY <1>6, <2>3, <2>4
<1>10. SubSeq(Sent(u), 1, i) = Sent(u) BY <1>6, <1>9, SubSeqFull
<1>11. QED BY <1>2, <1>6, <1>8, <1>10 DEF Flat

(***************************************************************************)
(* The upload. Bee is given what has gone through the hashes, up to the    *)
(* length announced; a body written to its end was read to its end.        *)
(***************************************************************************)
Types ==
  /\ req \in Requests /\ WireIn(wire, req) /\ ReaderIn(reader, hashed, req, wire)
  /\ overtaken \in BOOLEAN
  /\ transport \in {"copy", "wrote", "failed"} /\ bee \in {"none", "stored", "refused"}
  /\ pc \in {"upload", "drain", "check", "accepted", "refused"}

Given ==
  /\ copied \in Bytes /\ IsPrefix(copied, hashed)
  /\ copied = hashed \/ (known /\ Len(copied) = req.length)
  /\ Signed(req) => copied = <<>> \/ Form(copied, req, wire)
  /\ transport = "wrote" => reader.done /\ copied = hashed

\* An upload announced as empty is drained by uploadBody itself.
Empty ==
  /\ pc = "drain" => req.length = 0 /\ Framed(req)
  /\ req.length = 0 =>
       /\ copied = <<>> /\ transport = "copy" /\ bee = "none" /\ pc # "upload"
       /\ ~Framed(req) => hashed = <<>>
       /\ Framed(req) /\ pc \in {"check", "accepted"} => reader.done

\* What Bee's answer and the comparison mean.
Answered ==
  /\ bee = "stored" => transport = "wrote" \/ (known /\ Len(copied) = req.length)
  /\ pc \in {"check", "accepted"} /\ req.length # 0 => bee = "stored" /\ (~overtaken => transport = "wrote")
  /\ pc = "accepted" => (req.digest => hashed = body) /\ parseChecksumRequest \in {NoSum, hashed}

BodyInv == Types /\ Given /\ Empty /\ Answered

LEMMA PrefixFacts ==
  ASSUME NEW c \in Bytes, NEW h \in Bytes, NEW b \in Bytes
  PROVE  /\ IsPrefix(h, h)
         /\ IsPrefix(c, h) => IsPrefix(c, h \o b)
         /\ IsPrefix(c, h) /\ Len(h) <= Len(c) => c = h
<1>1. c \in Seq(Nat) /\ h \in Seq(Nat) /\ b \in Seq(Nat) /\ Len(c) \in Nat /\ Len(h) \in Nat BY DEF Bytes
<1>2. IsPrefix(h, h) BY <1>1 DEF IsPrefix
<1>3. ASSUME IsPrefix(c, h) PROVE IsPrefix(c, h \o b)
  <2>1. Len(c) <= Len(h) /\ SubSeq(c, 1, Len(c)) = SubSeq(h, 1, Len(c)) BY <1>3 DEF IsPrefix
  <2>2. Len(h \o b) = Len(h) + Len(b) /\ Len(b) \in Nat BY <1>1
  <2>3. SubSeq(h \o b, 1, Len(c)) = SubSeq(h, 1, Len(c)) BY <1>1, <2>1, <2>2
  <2>4. QED BY <1>1, <2>1, <2>2, <2>3 DEF IsPrefix
<1>4. ASSUME IsPrefix(c, h), Len(h) <= Len(c) PROVE c = h
  <2>1. Len(c) <= Len(h) /\ SubSeq(c, 1, Len(c)) = SubSeq(h, 1, Len(c)) BY <1>4 DEF IsPrefix
  <2>2. Len(c) = Len(h) BY <1>1, <1>4, <2>1
  <2>3. SubSeq(c, 1, Len(c)) = c /\ SubSeq(h, 1, Len(h)) = h BY <1>1, SubSeqFull
  <2>4. QED BY <2>1, <2>2, <2>3
<1>5. QED BY <1>2, <1>3, <1>4

LEMMA InitInv == Init => BodyInv
<1> SUFFICES ASSUME Init PROVE BodyInv OBVIOUS
<1>1. req \in Requests /\ WireIn(wire, req) BY ArrivalsIn DEF Init
<1>2. <<>> \in Bytes /\ <<>> \in Seq(Bytes) /\ NoSum \in Seq(Int) BY DEF Bytes, NoSum
<1>3. /\ NewReader \in Reader /\ NewReader.at = 0 /\ NewReader.left = 0 /\ NewReader.prev = <<>>
      /\ ~NewReader.err /\ ~NewReader.done
  BY <1>2 DEF NewReader, Reader
<1>4. Between(NewReader, <<>>, req, wire)
  <2>1. SubSeq(Data(wire), 1, 0) = <<>> /\ SubSeq(Sent(req), 1, 0) = <<>> BY SubSeqEmpty
  <2>2. FlattenSeq(<<>>) = <<>> BY DEF FlattenSeq
  <2>3. 0 <= Len(Sent(req)) BY <1>1, RequestFacts
  <2>4. QED BY <1>3, <2>1, <2>2, <2>3 DEF Between, Chained, Flat
<1>5. 0 <= Len(wire.frames) BY <1>1 DEF WireIn
<1>6. ReaderIn(reader, hashed, req, wire) BY <1>2, <1>3, <1>4, <1>5 DEF ReaderIn, Init
<1>7. Types BY <1>1, <1>6 DEF Types, Init
<1>8. Given BY <1>2, PrefixFacts DEF Given, Init
<1>9. Empty BY DEF Empty, Init, isAwsChunked, Framed
<1>10. Answered BY <1>1 DEF Answered, Init, Framed, isAwsChunked
<1>11. QED BY <1>7, <1>8, <1>9, <1>10 DEF BodyInv

\* What a call of Read does to the reader and the hashes, in the terms of the next state.
LEMMA ReadStep ==
  ASSUME Types, reader' = Read.reader, hashed' = counted(Read.bytes), UNCHANGED <<req, wire>>
  PROVE  /\ ReaderIn(reader, hashed, req, wire)' /\ hashed' \in Bytes /\ hashed' = hashed \o Read.bytes
         /\ Read.out \in {"byte", "eof", "error"} /\ Read.bytes \in Bytes
         /\ Read.out = "eof" => reader'.done
         /\ Read.out # "byte" => hashed' = hashed
         /\ Signed(req) => hashed' = <<>> \/ Form(hashed', req, wire)
<1>1. /\ ReaderIn(Read.reader, hashed \o Read.bytes, req, wire)
      /\ Read.out \in {"byte", "eof", "error"} /\ Read.bytes \in Bytes
      /\ Read.out = "eof" => Read.reader.done /\ Read.bytes = <<>>
      /\ Read.out # "byte" => hashed \o Read.bytes = hashed
  BY ReadIn DEF Types
<1>2. hashed' = hashed \o Read.bytes BY DEF counted
<1>3. ReaderIn(reader', hashed', req, wire) BY <1>1, <1>2
<1>4. hashed' \in Bytes /\ (Signed(req) => hashed' = <<>> \/ Form(hashed', req, wire)) BY <1>3 DEF ReaderIn
<1>5. QED BY <1>1, <1>2, <1>3, <1>4

LEMMA CopiesKeeps ==
  ASSUME BodyInv, TransportCopies
  PROVE  BodyInv'
<1>1. /\ Types /\ Given /\ Empty /\ Answered BY DEF BodyInv
<1>2. /\ req.length # 0 /\ transport = "copy" /\ pc \in {"upload", "check"} /\ (known => Len(copied) < req.length)
      /\ reader' = Read.reader /\ hashed' = counted(Read.bytes) /\ copied' = copied \o Read.bytes
      /\ req' = req /\ wire' = wire /\ bee' = bee /\ pc' = pc /\ overtaken' = overtaken
  BY DEF TransportCopies
<1>3. /\ ReaderIn(reader, hashed, req, wire)' /\ hashed' \in Bytes /\ hashed' = hashed \o Read.bytes
      /\ Read.out \in {"byte", "eof", "error"}
      /\ Read.out = "eof" => reader'.done
      /\ Signed(req) => hashed' = <<>> \/ Form(hashed', req, wire)
  BY <1>1, <1>2, ReadStep
<1>4. ~(known /\ Len(copied) = req.length)
  <2>1. req \in Request BY <1>1, RequestFacts DEF Types
  <2>2. known => req.length \in Nat BY <2>1 DEF known, Request
  <2>3. Len(copied) \in Nat BY <1>1 DEF Given, Bytes
  <2>4. QED BY <1>2, <2>2, <2>3
<1>5. copied' = hashed' BY <1>1, <1>2, <1>3, <1>4 DEF Given
<1>6. transport' \in {"copy", "wrote", "failed"} /\ (transport' = "wrote" => Read.out = "eof")
  BY <1>3 DEF TransportCopies
<1>7. Types' BY <1>1, <1>2, <1>3, <1>6 DEF Types
<1>8. Given'
  <2>1. IsPrefix(copied', hashed') BY <1>3, <1>5, PrefixFacts
  <2>2. QED BY <1>2, <1>3, <1>5, <1>6, <2>1 DEF Given
<1>9. bee # "stored" /\ pc = "upload"
  BY <1>1, <1>2, <1>4 DEF Answered
<1>10. Empty' /\ Answered' BY <1>1, <1>2, <1>9 DEF Empty, Answered
<1>11. QED BY <1>7, <1>8, <1>10 DEF BodyInv

LEMMA DrainsKeeps ==
  ASSUME BodyInv, TransportDrains
  PROVE  BodyInv'
<1>1. /\ Types /\ Given /\ Empty /\ Answered BY DEF BodyInv
<1>2. /\ req.length # 0 /\ transport = "copy" /\ pc \in {"upload", "check"}
      /\ known /\ Len(copied) = req.length
      /\ reader' = Read.reader /\ hashed' = counted(Read.bytes) /\ copied' = copied
      /\ req' = req /\ wire' = wire /\ bee' = bee /\ pc' = pc /\ overtaken' = overtaken
  BY DEF TransportDrains
<1>3. /\ ReaderIn(reader, hashed, req, wire)' /\ hashed' \in Bytes /\ hashed' = hashed \o Read.bytes
      /\ Read.bytes \in Bytes /\ Read.out \in {"byte", "eof", "error"}
      /\ Read.out = "eof" => reader'.done
      /\ Read.out # "byte" => hashed' = hashed
  BY <1>1, <1>2, ReadStep
<1>4. /\ transport' \in {"copy", "wrote", "failed"}
      /\ transport' = "wrote" => Read.out = "eof" /\ ~(Len(hashed) > req.length)
  BY <1>3 DEF TransportDrains
<1>5. Types' BY <1>1, <1>2, <1>3, <1>4 DEF Types
<1>6. hashed \in Bytes /\ copied \in Bytes /\ IsPrefix(copied, hashed) BY <1>1 DEF Types, Given, ReaderIn
<1>7. IsPrefix(copied, hashed') BY <1>3, <1>6, PrefixFacts
<1>8. transport' = "wrote" => copied' = hashed'
  <2> SUFFICES ASSUME transport' = "wrote" PROVE copied' = hashed' OBVIOUS
  <2>1. Len(hashed) <= Len(copied) BY <1>2, <1>4, <1>6 DEF Bytes
  <2>2. copied = hashed BY <1>6, <2>1, PrefixFacts
  <2>3. hashed' = hashed BY <1>3, <1>4
  <2>4. QED BY <1>2, <2>2, <2>3
<1>9. Given' BY <1>1, <1>2, <1>3, <1>4, <1>7, <1>8 DEF Given, known
<1>10. Empty' BY <1>1, <1>2 DEF Empty
<1>11. Answered' BY <1>1, <1>2 DEF Answered, known
<1>12. QED BY <1>5, <1>9, <1>10, <1>11 DEF BodyInv

LEMMA DrainBodyKeeps ==
  ASSUME BodyInv, DrainBody
  PROVE  BodyInv'
<1>1. /\ Types /\ Given /\ Empty /\ Answered BY DEF BodyInv
<1>2. /\ pc = "drain" /\ reader' = Read.reader /\ hashed' = counted(Read.bytes)
      /\ req' = req /\ wire' = wire /\ copied' = copied /\ transport' = transport /\ bee' = bee
      /\ overtaken' = overtaken
  BY DEF DrainBody
<1>3. /\ ReaderIn(reader, hashed, req, wire)' /\ hashed' \in Bytes /\ hashed' = hashed \o Read.bytes
      /\ Read.bytes \in Bytes /\ Read.out \in {"byte", "eof", "error"}
      /\ Read.out = "eof" => reader'.done
  BY <1>1, <1>2, ReadStep
<1>4. /\ req.length = 0 /\ Framed(req) /\ copied = <<>> /\ transport = "copy" /\ bee = "none"
  BY <1>1, <1>2 DEF Empty
<1>5. pc' \in {"drain", "check", "refused"} /\ (pc' = "check" => Read.out = "eof")
  BY <1>3 DEF DrainBody
<1>6. Types' BY <1>1, <1>2, <1>3, <1>5 DEF Types
<1>7. Given'
  <2>1. hashed \in Bytes /\ copied \in Bytes /\ IsPrefix(copied, hashed) BY <1>1 DEF Types, Given, ReaderIn
  <2>2. IsPrefix(copied, hashed') BY <1>3, <2>1, PrefixFacts
  <2>3. known' /\ Len(copied') = req'.length BY <1>2, <1>4 DEF known, Unknown
  <2>4. QED BY <1>1, <1>2, <1>3, <1>4, <2>1, <2>2, <2>3 DEF Given
<1>8. Empty' BY <1>2, <1>3, <1>4, <1>5 DEF Empty
<1>9. Answered' BY <1>2, <1>4, <1>5 DEF Answered
<1>10. QED BY <1>6, <1>7, <1>8, <1>9 DEF BodyInv

\* No step breaks the invariant.
LEMMA StepInv == BodyInv /\ [Next]_vars => BodyInv'
<1> SUFFICES ASSUME BodyInv, [Next]_vars PROVE BodyInv' OBVIOUS
<1>0. Types /\ Given /\ Empty /\ Answered BY DEF BodyInv
<1>1. CASE TransportCopies BY <1>1, CopiesKeeps
<1>2. CASE TransportDrains BY <1>2, DrainsKeeps
<1>3. CASE BeeStores
  <2>1. /\ pc = "upload" /\ (IF known THEN Len(copied) = req.length ELSE transport = "wrote") /\ bee' = "stored"
        /\ UNCHANGED <<req, wire, reader, hashed, copied, transport, pc, overtaken>>
    BY <1>3 DEF BeeStores
  <2>2. Types' BY <1>0, <2>1 DEF Types
  <2>3. Given' BY <1>0, <2>1 DEF Given, known
  <2>4. Empty' BY <1>0, <2>1 DEF Empty
  <2>5. Answered' BY <1>0, <2>1 DEF Answered, known
  <2>6. QED BY <2>2, <2>3, <2>4, <2>5 DEF BodyInv
<1>4. CASE BeeRefuses
  <2>1. /\ pc = "upload" /\ bee' = "refused"
        /\ UNCHANGED <<req, wire, reader, hashed, copied, transport, pc, overtaken>>
    BY <1>4 DEF BeeRefuses
  <2>2. Types' BY <1>0, <2>1 DEF Types
  <2>3. Given' BY <1>0, <2>1 DEF Given, known
  <2>4. Empty' BY <1>0, <2>1 DEF Empty
  <2>5. Answered' BY <1>0, <2>1 DEF Answered, known
  <2>6. QED BY <2>2, <2>3, <2>4, <2>5 DEF BodyInv
<1>5. CASE UploadBytes
  <2>1. /\ pc = "upload" /\ UNCHANGED <<req, wire, reader, hashed, copied, transport, bee>>
        /\ \/ bee = "stored" /\ pc' = "check" /\ overtaken' = (transport # "wrote")
           \/ pc' = "refused" /\ overtaken' = overtaken
    BY <1>5 DEF UploadBytes
  <2>2. Types' BY <1>0, <2>1 DEF Types
  <2>3. Given' BY <1>0, <2>1 DEF Given, known
  <2>4. Empty' BY <1>0, <2>1 DEF Empty
  <2>5. Answered' BY <1>0, <2>1 DEF Answered, known
  <2>6. QED BY <2>2, <2>3, <2>4, <2>5 DEF BodyInv
<1>6. CASE DrainBody BY <1>6, DrainBodyKeeps
<1>7. CASE Compare
  <2>1. /\ pc = "check" /\ UNCHANGED <<req, wire, reader, hashed, copied, transport, bee, overtaken>>
        /\ pc' \in {"accepted", "refused"}
        /\ pc' = "accepted" => (req.digest => hashed = body) /\ parseChecksumRequest \in {NoSum, hashed}
    BY <1>7 DEF Compare
  <2>2. Types' BY <1>0, <2>1 DEF Types
  <2>3. Given' BY <1>0, <2>1 DEF Given, known
  <2>4. Empty' BY <1>0, <2>1 DEF Empty
  <2>5. body' = body /\ parseChecksumRequest' = parseChecksumRequest
    BY <2>1 DEF body, parseChecksumRequest
  <2>6. Answered' BY <1>0, <2>1, <2>5 DEF Answered, known
  <2>7. QED BY <2>2, <2>3, <2>4, <2>6 DEF BodyInv
<1>8. CASE UNCHANGED vars
  <2>1. UNCHANGED <<req, wire, reader, hashed, copied, transport, bee, pc, overtaken>> BY <1>8 DEF vars
  <2>2. Types' BY <1>0, <2>1 DEF Types
  <2>3. Given' BY <1>0, <2>1 DEF Given, known
  <2>4. Empty' BY <1>0, <2>1 DEF Empty
  <2>5. body' = body /\ parseChecksumRequest' = parseChecksumRequest
    BY <2>1 DEF body, parseChecksumRequest
  <2>6. Answered' BY <1>0, <2>1, <2>5 DEF Answered, known
  <2>7. QED BY <2>2, <2>3, <2>4, <2>6 DEF BodyInv
<1>9. QED BY <1>1, <1>2, <1>3, <1>4, <1>5, <1>6, <1>7, <1>8 DEF Next

LEMMA BodySafe == Spec => []BodyInv
<1>1. QED BY InitInv, StepInv, PTL DEF Spec

\* Type correctness, for every set of requests: above all, Bee is given nothing that has not
\* gone through the hashes first, in the order in which it went (uploadBody's TeeReader).
THEOREM HashedBeforeGiven == Spec => []TypeOK
<1>1. BodyInv => TypeOK
  <2> SUFFICES ASSUME BodyInv PROVE TypeOK OBVIOUS
  <2>1. Types /\ Given BY DEF BodyInv
  <2>2. reader \in Reader /\ hashed \in Bytes /\ reader.at <= Len(wire.frames) BY <2>1 DEF Types, ReaderIn
  <2>3. Len(wire.frames) \in Nat BY <2>1 DEF Types, WireIn
  <2>4. /\ reader.at \in 0..Len(wire.frames) /\ reader.left \in Nat
        /\ reader.err \in BOOLEAN /\ reader.done \in BOOLEAN
    BY <2>2, <2>3 DEF Reader
  <2>5. overtaken \in BOOLEAN BY <2>1 DEF Types
  <2>6. {reader.err, reader.done, overtaken} \subseteq BOOLEAN BY <2>4, <2>5, Zenon
  <2>7. QED BY <2>1, <2>2, <2>4, <2>6 DEF TypeOK, Types, Given, Bytes
<1>2. QED BY <1>1, BodySafe, PTL

\* An upload of any number of chunks and bytes that is accepted is whole, and is what the client
\* sent if a signature, digest or checksum says what that is, whatever became of its frames on
\* the way (uploadBody, ChunkedReader), unless Bee's answer overtook the reader.
THEOREM AcceptedIsIntact == Spec => []Intact
<1>1. BodyInv => Intact
  <2>0. SUFFICES ASSUME BodyInv, pc = "accepted", ~overtaken
                 PROVE  /\ isAwsChunked => reader.done
                        /\ ~CutShort
                        /\ Covered => copied = body /\ hashed = body
    BY DEF Intact
  <2>1. Types /\ Given /\ Empty /\ Answered BY <2>0 DEF BodyInv
  <2>2. /\ req \in Requests /\ WireIn(wire, req) /\ ReaderIn(reader, hashed, req, wire) BY <2>1 DEF Types
  <2>3. req.length # 0 => reader.done /\ copied = hashed BY <2>0, <2>1 DEF Answered, Given
  <2>4. isAwsChunked => reader.done
    BY <2>0, <2>1, <2>3, SignedIsFramed DEF Empty
  <2>5. req.length = 0 => copied = <<>> /\ body = <<>> /\ (~Framed(req) => hashed = <<>> /\ ~wire.torn)
    <3> SUFFICES ASSUME req.length = 0
                 PROVE  copied = <<>> /\ body = <<>> /\ (~Framed(req) => hashed = <<>> /\ ~wire.torn)
      OBVIOUS
    <3>1. req.chunks = <<>> BY <2>2, RequestFacts
    <3>2. body = <<>> BY <3>1 DEF body, FlattenSeq
    <3>3. ~Framed(req) => ~wire.torn BY <2>2 DEF WireIn, Framed
    <3>4. QED BY <2>1, <3>2, <3>3 DEF Empty
  <2>6. reader.done => AtEnd(reader, req, wire) BY <2>2 DEF ReaderIn
  <2>7. ~CutShort
    <3>1. ~wire.torn BY <2>3, <2>4, <2>5, <2>6, SignedIsFramed DEF AtEnd
    <3>2. ASSUME isAwsChunked PROVE \E i \in DOMAIN wire.frames : ~(wire.frames[i].size > 0)
      <4>1. reader.at > 0 /\ wire.frames[reader.at].size = 0
        BY <2>4, <2>6, <3>2, SignedIsFramed DEF AtEnd
      <4>2. reader.at \in Nat /\ reader.at <= Len(wire.frames) BY <2>2 DEF ReaderIn, Reader
      <4>3. reader.at \in DOMAIN wire.frames BY <2>2, <4>1, <4>2 DEF WireIn
      <4>4. QED BY <4>1, <4>3
    <3>3. QED BY <3>1, <3>2 DEF CutShort
  <2>8. body \in Bytes /\ body # NoSum
    <3>1. body \in Bytes BY <2>2, RequestFacts DEF body
    <3>2. NoSum[1] \notin Nat /\ Len(NoSum) = 1 BY DEF NoSum
    <3>3. ASSUME body = NoSum PROVE FALSE
      <4>1. NoSum \in Seq(Nat) BY <3>1, <3>3 DEF Bytes
      <4>2. 1 \in 1..Len(NoSum) BY <3>2
      <4>3. NoSum[1] \in Nat BY <4>1, <4>2
      <4>4. QED BY <3>2, <4>3
    <3>4. QED BY <3>1, <3>3
  <2>9. /\ req.digest => hashed = body
        /\ parseChecksumRequest \in {NoSum, hashed}
    BY <2>0, <2>1 DEF Answered
  <2>10. Covered => hashed = body
    <3>1. CASE signed
      <4>1. Framed(req) /\ Signed(req) BY <3>1, SignedIsFramed
      <4>2. reader.done BY <2>4, <4>1, SignedIsFramed
      <4>3. hashed = FlattenSeq(req.chunks) BY <2>2, <4>1, <4>2, WholeWhenDone
      <4>4. QED BY <4>3 DEF body
    <3>2. CASE req.digest BY <2>9, <3>2
    <3>3. CASE req.sum = "header"
      <4>1. parseChecksumRequest = body BY <3>3 DEF parseChecksumRequest
      <4>2. QED BY <2>8, <2>9, <4>1
    <3>4. CASE req.sum = "trailer" /\ reader.sum # NoSum
      <4>1. Framed(req) BY <2>2, <3>4, RequestFacts
      <4>2. reader.done BY <2>4, <4>1, SignedIsFramed
      <4>3. reader.sum = wire.trailer.sum BY <2>6, <4>1, <4>2 DEF AtEnd
      <4>4. reader.sum = hashed
        <5>1. parseChecksumRequest = reader.sum BY <3>4 DEF parseChecksumRequest
        <5>2. QED BY <2>9, <3>4, <5>1
      <4>5. wire.trailer.sum = FlattenSeq(req.chunks) \/ Data(wire) = Sent(req)
        BY <2>2, <3>4, <4>1, <4>3 DEF WireIn
      <4>6. CASE wire.trailer.sum = FlattenSeq(req.chunks) BY <4>3, <4>4, <4>6 DEF body
      <4>7. CASE Data(wire) = Sent(req)
        <5>1. hashed = FlattenSeq(req.chunks) BY <2>2, <4>1, <4>2, <4>7, WholeWhenDone
        <5>2. QED BY <5>1 DEF body
      <4>8. QED BY <4>5, <4>6, <4>7
    <3>5. QED BY <3>1, <3>2, <3>3, <3>4 DEF Covered
  <2>11. Covered => copied = body
    BY <2>3, <2>5, <2>10
  <2>12. QED BY <2>4, <2>7, <2>10, <2>11
<1>2. QED BY <1>1, BodySafe, PTL

\* Also when Bee's answer overtook the reader, what Bee holds of an accepted signed upload is
\* chunks as the client sent them and then the beginning of one frame: the error of a wrong
\* signature stops every later Read (ChunkedReader.err).
THEOREM OnlyTheLastUnchecked == Spec => []AllButTheLast
<1>1. BodyInv => AllButTheLast
  <2>0. SUFFICES ASSUME BodyInv, pc = "accepted", signed PROVE Form(copied, req, wire)
    BY DEF AllButTheLast, Form
  <2>1. Types /\ Given /\ Empty /\ Answered BY <2>0 DEF BodyInv
  <2>2. /\ req \in Requests /\ WireIn(wire, req) /\ ReaderIn(reader, hashed, req, wire) BY <2>1 DEF Types
  <2>3. Signed(req) /\ Framed(req) BY <2>0, SignedIsFramed
  <2>4. copied = <<>> \/ Form(copied, req, wire) BY <2>1, <2>3 DEF Given
  <2>5. CASE copied = <<>>
    <3>1. reader.done
      <4>1. CASE req.length = 0 BY <2>0, <2>1, <2>3, <4>1 DEF Empty
      <4>2. CASE req.length # 0
        <5>1. Len(copied) = 0 BY <2>5
        <5>2. transport = "wrote" BY <2>0, <2>1, <4>2, <5>1 DEF Answered
        <5>3. QED BY <2>1, <5>2 DEF Given
      <4>3. QED BY <4>1, <4>2
    <3>2. reader.at > 0 /\ reader.at \in Nat /\ reader.at <= Len(wire.frames)
      BY <2>2, <2>3, <3>1 DEF ReaderIn, AtEnd, Reader
    <3>3. Len(wire.frames) \in Nat BY <2>2 DEF WireIn
    <3>4. 1 \in 1..Len(wire.frames) BY <3>2, <3>3
    <3>5. 1 \in DOMAIN wire.frames BY <2>2, <3>4 DEF WireIn
    <3>6. Len(wire.frames[1].data) \in Nat BY <2>2, <3>4, FrameFacts
    <3>7. 0 \in 0..Len(wire.frames[1].data) BY <3>6
    <3>8. 0 \in 0..Len(req.chunks) BY <2>2, RequestFacts
    <3>9. <<>> = FlattenSeq(SubSeq(req.chunks, 1, 0)) \o SubSeq(wire.frames[1].data, 1, 0)
      <4>1. SubSeq(req.chunks, 1, 0) = <<>> /\ SubSeq(wire.frames[1].data, 1, 0) = <<>> BY SubSeqEmpty
      <4>2. FlattenSeq(<<>>) = <<>> BY DEF FlattenSeq
      <4>3. <<>> \o <<>> = <<>> OBVIOUS
      <4>4. QED BY <4>1, <4>2, <4>3
    <3>10. QED BY <2>5, <3>5, <3>7, <3>8, <3>9 DEF Form
  <2>6. QED BY <2>4, <2>5
<1>2. QED BY <1>1, BodySafe, PTL
=============================================================================

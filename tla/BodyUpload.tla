----------------------------- MODULE BodyUpload ------------------------------
(***************************************************************************)
(* The body of a PUT on its way to Bee. Three parties work at it at once:  *)
(* the HTTP transport, which pulls bytes through the aws-chunked reader and *)
(* the hashes; Bee, which answers when it has what it was promised; and    *)
(* uploadBody, which waits for Bee and then compares digests. What arrives *)
(* from the client may have lost, repeated, exchanged or altered pieces.   *)
(***************************************************************************)
EXTENDS Integers, Sequences, SequencesExt

CONSTANTS
  Requests  \* the uploads considered; see Request

NoSum == <<-1>>  \* no checksum: the digest of nothing that can be sent
Unknown == -1  \* the length is not announced

Kinds == {"plain", "unsigned", "signed", "signedTrailer"}  \* what x-amz-content-sha256 says
Request == [kind : Kinds,
            chunks : Seq(Seq(Nat)),               \* what the client signs and sends
            length : Nat \cup {Unknown},          \* what it announces, rightly or not; zero only rightly
            digest : BOOLEAN,                     \* a SHA-256 or Content-MD5 came along
            sum : {"none", "header", "trailer"}]  \* where its checksum is

ASSUME BodyAssumption ==
  \A u \in Requests :
    /\ u \in Request
    /\ \A i \in DOMAIN u.chunks : u.chunks[i] # <<>>
    /\ u.length = 0 => u.chunks = <<>>
    /\ u.kind = "plain" => u.length \in {Unknown, Len(FlattenSeq(u.chunks))}
    /\ u.sum = "trailer" => u.kind # "plain"

VARIABLES
  req,        \* the request
  wire,       \* what arrives of it
  reader,     \* the ChunkedReader, or the plain body
  hashed,     \* the bytes that went through the hashes and the counter
  copied,     \* the bytes handed to Bee
  transport,  \* "copy" while the body is written; then "wrote" or "failed"
  bee,        \* Bee's answer
  pc,         \* uploadBody
  overtaken   \* Bee's answer came before the body had been read to its end

vars == <<req, wire, reader, hashed, copied, transport, bee, pc, overtaken>>

body == FlattenSeq(req.chunks)
isAwsChunked == req.kind # "plain"
signed == req.kind \in {"signed", "signedTrailer"}
known == req.length # Unknown

(***************************************************************************)
(* What the client sends and what becomes of it. A signature is the chain  *)
(* of everything signed up to it; the seed, the signature of the request,  *)
(* is the empty chain.                                                     *)
(***************************************************************************)
trailerSignature(prev, sum) == [prev |-> prev, sum |-> sum]
NoTrailer == [sum |-> NoSum, sig |-> trailerSignature(<<>>, NoSum)]

FrameOf(data, sig) == [size |-> Len(data), data |-> data, sig |-> sig]

\* A client frames each chunk, ends with a chunk of size zero and adds the trailer.
Honest(u) ==
  LET whole == FlattenSeq(u.chunks)
      last == Append(u.chunks, <<>>)
      sum == IF u.sum = "trailer" THEN whole ELSE NoSum
  IN  IF u.kind = "plain"
      THEN [frames |-> IF whole = <<>> THEN <<>> ELSE <<FrameOf(whole, <<>>)>>, torn |-> FALSE,
            trailer |-> NoTrailer]
      ELSE [frames |-> [i \in DOMAIN last |-> FrameOf(last[i], SubSeq(last, 1, i))], torn |-> FALSE,
            trailer |-> [sum |-> sum, sig |-> IF u.kind = "signedTrailer" THEN trailerSignature(last, sum)
                                              ELSE NoTrailer.sig]]

\* The connection breaks inside a line or the data of frame i, or before the line that ends it.
Torn(w, i, data) ==
  [frames |-> [SubSeq(w.frames, 1, i) EXCEPT ![i].data = data], torn |-> TRUE, trailer |-> NoTrailer]

Exchanged(s, i) == [s EXCEPT ![i] = s[i + 1], ![i + 1] = s[i]]

Garbled(w, i) == [w EXCEPT !.frames[i].data = [@ EXCEPT ![1] = 0]]

\* Whole, torn or altered; frames can also be lost, repeated, exchanged or cut off.
Arrivals(u) ==
  LET w == Honest(u)
      F == DOMAIN w.frames
      Data == {i \in F : w.frames[i].size > 0}
      With(frames) == [w EXCEPT !.frames = frames]
  IN  {w} \cup {Torn(w, i, w.frames[i].data) : i \in IF u.kind = "plain" /\ u.length # Unknown THEN {} ELSE F}
          \cup {Torn(w, i, Front(w.frames[i].data)) : i \in Data}
          \cup {Garbled(w, i) : i \in Data}
          \cup IF u.kind = "plain" THEN {}
               ELSE {With(RemoveAt(w.frames, i)) : i \in F}
                    \cup {With(InsertAt(w.frames, i, w.frames[i])) : i \in F}
                    \cup {With(Exchanged(w.frames, i)) : i \in F \ {Len(w.frames)}}
                    \cup {With(SubSeq(w.frames, 1, i - 1)) : i \in F}
                    \cup {[w EXCEPT !.trailer = NoTrailer], [w EXCEPT !.trailer.sum = <<0>>]}
                    \cup {[Garbled(w, i) EXCEPT !.trailer = NoTrailer] : i \in Data}

(***************************************************************************)
(* ChunkedReader.                                                          *)
(***************************************************************************)
NewReader == [at |-> 0, left |-> 0, prev |-> <<>>, err |-> FALSE, done |-> FALSE, sum |-> NoSum]

Failed(r) == [r EXCEPT !.err = TRUE]

chunkSignature(prev, data) == Append(prev, data)

\* Mutant: the signature of a chunk is not tied to the one before it.
verifyChunkAlone(r, f) ==
  IF signed /\ Last(f.sig) # f.data THEN Failed(r) ELSE [r EXCEPT !.prev = f.sig]

verifyChunk(r, f) ==
  IF ~signed THEN r
  ELSE IF f.sig = chunkSignature(r.prev, f.data) THEN [r EXCEPT !.prev = chunkSignature(r.prev, f.data)]
  ELSE Failed(r)

\* Up to a blank line or the end of the body: a trailer lost at the end of a line is a shorter one.
readTrailer(r) ==
  LET t == wire.trailer IN
  IF wire.torn \/ (req.kind = "signedTrailer" /\ t.sig # trailerSignature(r.prev, t.sum)) THEN Failed(r)
  ELSE [r EXCEPT !.done = TRUE, !.sum = t.sum]

\* The next header. A plain body simply ends.
advance(r) ==
  LET i == r.at + 1 IN
  IF i > Len(wire.frames)
  THEN IF isAwsChunked \/ wire.torn THEN Failed(r) ELSE [r EXCEPT !.done = TRUE]
  ELSE IF wire.frames[i].size > 0 THEN [r EXCEPT !.at = i, !.left = wire.frames[i].size]
  ELSE LET v == verifyChunk([r EXCEPT !.at = i], wire.frames[i]) IN IF v.err THEN v ELSE readTrailer(v)

\* Mutant: the result of the check is not kept for the next Read.
finishChunkForgets(r) == LET v == verifyChunk(r, wire.frames[r.at]) IN [v EXCEPT !.err = FALSE]

\* The line that ends the chunk, then its signature.
finishChunk(r) ==
  IF ~isAwsChunked THEN r
  ELSE IF wire.torn /\ r.at = Len(wire.frames) THEN Failed(r)
  ELSE verifyChunk(r, wire.frames[r.at])

\* One byte, the end or an error. The last byte of a chunk is handed out by the call that
\* finds its signature wrong; the error is for the next call.
Read ==
  LET r == IF reader.err \/ reader.done \/ reader.left > 0 THEN reader ELSE advance(reader)
      f == wire.frames[r.at]
      k == f.size - r.left + 1
      s == [r EXCEPT !.left = @ - 1]
  IN  IF r.err THEN [reader |-> r, out |-> "error", bytes |-> <<>>]
      ELSE IF r.done THEN [reader |-> r, out |-> "eof", bytes |-> <<>>]
      ELSE IF k > Len(f.data) THEN [reader |-> Failed(r), out |-> "error", bytes |-> <<>>]
      ELSE [reader |-> IF s.left = 0 THEN finishChunk(s) ELSE s, out |-> "byte", bytes |-> <<f.data[k]>>]

\* Mutant: a read that also ends in an error is not counted.
countedUnlessFailed(bytes) == IF Read.reader.err THEN hashed ELSE hashed \o bytes

\* The hashes and the counter see what is read, whoever reads it.
counted(bytes) == hashed \o bytes

(***************************************************************************)
(* The transport and Bee.                                                  *)
(***************************************************************************)
\* While there is something to write: up to the announced length, or all there is.
TransportCopies ==
  /\ req.length # 0 /\ transport = "copy" /\ pc \in {"upload", "check"}
  /\ known => Len(copied) < req.length
  /\ reader' = Read.reader
  /\ hashed' = counted(Read.bytes) /\ copied' = copied \o Read.bytes
  /\ transport' = CASE Read.out = "byte" -> "copy"
                    [] Read.out = "eof" -> IF known THEN "failed" ELSE "wrote"
                    [] Read.out = "error" -> "failed"
  /\ UNCHANGED <<req, wire, bee, pc, overtaken>>

\* Then it reads on to the end of the body: more than was announced is an error.
TransportDrains ==
  /\ req.length # 0 /\ transport = "copy" /\ pc \in {"upload", "check"}
  /\ known /\ Len(copied) = req.length
  /\ reader' = Read.reader /\ hashed' = counted(Read.bytes)
  /\ transport' = CASE Read.out = "byte" -> "copy"
                    [] Read.out = "eof" -> IF Len(hashed) > req.length THEN "failed" ELSE "wrote"
                    [] Read.out = "error" -> "failed"
  /\ UNCHANGED <<req, wire, copied, bee, pc, overtaken>>

\* Bee stores the body once it has the announced bytes, or the end of a body of unknown length.
BeeStores ==
  /\ pc = "upload" /\ bee = "none"
  /\ IF known THEN Len(copied) = req.length ELSE transport = "wrote"
  /\ bee' = "stored"
  /\ UNCHANGED <<req, wire, reader, hashed, copied, transport, pc, overtaken>>

BeeRefuses ==
  /\ pc = "upload" /\ bee = "none"
  /\ bee' = "refused"
  /\ UNCHANGED <<req, wire, reader, hashed, copied, transport, pc, overtaken>>

(***************************************************************************)
(* uploadBody.                                                             *)
(***************************************************************************)
\* An announced length of zero means no upload, but the framing is still read.
Init ==
  /\ req \in Requests /\ wire \in Arrivals(req)
  /\ reader = NewReader /\ hashed = <<>> /\ copied = <<>>
  /\ transport = "copy" /\ bee = "none" /\ overtaken = FALSE
  /\ pc = IF req.length # 0 THEN "upload" ELSE IF isAwsChunked THEN "drain" ELSE "check"

\* The first of Bee's answer and a failure to write the body; either if both are there.
UploadBytes ==
  /\ pc = "upload"
  /\ \/ bee = "stored" /\ pc' = "check" /\ overtaken' = (transport # "wrote")
     \/ (bee = "refused" \/ transport = "failed") /\ pc' = "refused" /\ UNCHANGED overtaken
  /\ UNCHANGED <<req, wire, reader, hashed, copied, transport, bee>>

DrainBody ==
  /\ pc = "drain"
  /\ reader' = Read.reader /\ hashed' = counted(Read.bytes)
  /\ pc' = CASE Read.out = "byte" -> "drain" [] Read.out = "eof" -> "check" [] Read.out = "error" -> "refused"
  /\ UNCHANGED <<req, wire, copied, transport, bee, overtaken>>

\* Where the checksum to compare with is: a header, or the trailer as far as it has been read.
parseChecksumRequest ==
  CASE req.sum = "none" -> NoSum [] req.sum = "header" -> body [] req.sum = "trailer" -> reader.sum

\* The digests of what was read; an absent checksum is not compared.
Compare ==
  /\ pc = "check"
  /\ pc' = IF (req.digest => hashed = body) /\ parseChecksumRequest \in {NoSum, hashed}
           THEN "accepted" ELSE "refused"
  /\ UNCHANGED <<req, wire, reader, hashed, copied, transport, bee, overtaken>>

Next == TransportCopies \/ TransportDrains \/ BeeStores \/ BeeRefuses \/ UploadBytes \/ DrainBody \/ Compare

Spec == Init /\ [][Next]_vars

(***************************************************************************)
(* Properties.                                                             *)
(***************************************************************************)
\* Type correctness: what Bee is given has gone through the hashes first.
TypeOK ==
  /\ req \in Requests /\ hashed \in Seq(Nat) /\ IsPrefix(copied, hashed)
  /\ reader.at \in 0..Len(wire.frames) /\ reader.left \in Nat /\ {reader.err, reader.done, overtaken} \subseteq BOOLEAN
  /\ transport \in {"copy", "wrote", "failed"} /\ bee \in {"none", "stored", "refused"}
  /\ pc \in {"upload", "drain", "check", "accepted", "refused"}

\* Something of what was sent says what its bytes are.
Covered == signed \/ req.digest \/ req.sum = "header" \/ (req.sum = "trailer" /\ reader.sum # NoSum)

\* The body ends before its end.
CutShort == wire.torn \/ (isAwsChunked /\ \A i \in DOMAIN wire.frames : wire.frames[i].size > 0)

\* An upload that is accepted is whole and what the client sent: its framing was read and checked
\* to the end, and unless nothing that was sent tells, the bytes Bee holds and the bytes size and
\* ETag were computed from are the client's, whatever was lost, repeated, exchanged or altered
\* ("decoding and verifying aws-chunked framing (signed chunks and trailers) on the way"). Not
\* so if Bee answers an upload of announced length before the reader is at the end.
Intact ==
  pc = "accepted" /\ ~overtaken =>
    /\ isAwsChunked => reader.done
    /\ ~CutShort
    /\ Covered => copied = body /\ hashed = body

\* Even then only the chunk read last can be other than the client signed it: what Bee holds is
\* chunks as they were sent and after them the bytes of at most one frame (the sticky error of Read).
AllButTheLast ==
  pc = "accepted" /\ signed =>
    \E j \in 0..Len(req.chunks), i \in DOMAIN wire.frames :
      \E n \in 0..Len(wire.frames[i].data) :
        copied = FlattenSeq(SubSeq(req.chunks, 1, j)) \o SubSeq(wire.frames[i].data, 1, n)
=============================================================================

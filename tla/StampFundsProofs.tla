--------------------------- MODULE StampFundsProofs ---------------------------
(***************************************************************************)
(* Proofs about StampFunds, for every batch, wallet and threshold, any     *)
(* number of uploads and failures, and any length of time: what the        *)
(* autopilot and the keeper spend, and that a batch in use does not expire. *)
(***************************************************************************)
EXTENDS StampFunds, TLAPS

(***************************************************************************)
(* The inductive invariant.                                                *)
(***************************************************************************)
\* What an answer of Bee is compared with.
World == [now |-> now, batch |-> batch, pass |-> due.pass, faults |-> spent.faults]
BatchType == [usable : BOOLEAN, expiry : Nat, depth : Nat, fill : Nat]
Worlds == [now : Nat, batch : BatchType, pass : Nat, faults : Nat]

\* A batch only ever grows and fills.
Known(i, W) == i.depth <= W.batch.depth /\ i.fill <= W.batch.fill

\* An answer given at time t promises no more life than there is, until the batch is diluted.
Bounded(i, t, W) ==
  i.exists /\ i.depth = W.batch.depth /\ i.ttl >= 0 => i.ttl + t <= W.batch.expiry

\* It is about the batch as it is; if nothing failed it tells of all its life.
Exact(i, t, W) ==
  /\ i.depth = W.batch.depth
  /\ W.faults = 0 => i.ttl >= 0 /\ i.ttl + t >= W.batch.expiry

\* The autopilot has not acted since time t.
Since(t, W) == t + Cycle > W.pass

CacheIn(i, W) ==
  /\ i.at <= W.now /\ Known(i, W) /\ Bounded(i, i.at, W)
  /\ Since(i.at, W) => Exact(i, i.at, W)

CallIn(r, W) ==
  /\ r.pc \in {"ask", "answered"} => r.info \in Info \cup {NoInfo}
  /\ r.pc = "have" => r.info \in Info \cup {NotFound, NoAnswer}
  /\ r.info \in Info => Known(r.info, W)
  /\ r.pc = "answered" => r.got \in Stamp \cup {NotFound, NoAnswer}
  /\ r.pc = "answered" /\ r.got \in Stamp =>
       /\ Known(r.got, W) /\ Bounded(r.got, W.now, W)
       /\ Since(W.now, W) => Exact(r.got, W.now, W)

\* A pass acts on what is so, if nothing failed: there was no other since it began.
PilotIn(r, W) ==
  /\ r.pc \in {"idle", "ask", "answered", "have", "dilute", "wallet", "topup"}
  /\ r.pc # "idle" => r.for = "pass" /\ W.pass = W.now + Cycle
  /\ r.pc = "answered" /\ r.got \in Stamp => Exact(r.got, W.now, W)
  /\ r.pc = "answered" /\ r.got \notin Stamp /\ W.faults = 0 => W.now >= W.batch.expiry
  /\ r.pc \in {"have", "dilute", "wallet", "topup"} /\ W.faults = 0 /\ W.now < W.batch.expiry =>
       r.info \in Info /\ Exact(r.info, r.info.at, W) /\ Bounded(r.info, r.info.at, W)
  /\ r.pc \in {"dilute", "wallet", "topup"} => r.info \in Info
  /\ r.pc = "dilute" => RatioAtLeast(r.info, DiluteNum, DiluteDen)
  /\ r.pc \in {"wallet", "topup"} =>
       r.info.exists /\ r.info.ttl >= 0 /\ r.info.ttl - (W.now - r.info.at) < MinTTL

\* Without an autopilot nobody but the keeper takes from the wallet.
Keeping ==
  /\ ~traits.autopilot => call[Pilot].pc = "idle"
  /\ ~traits.autopilot /\ keeper.pc = "deposit" => keeper.need <= funds.wallet - Reserve

\* TypeOK, but for the calls.
Types ==
  /\ now \in Nat /\ due \in [sweep : Nat, pass : Nat]
  /\ traits \in [own : BOOLEAN, immutable : BOOLEAN, autopilot : BOOLEAN, warm : BOOLEAN, depth : Nat]
  /\ batch \in BatchType /\ cache \in Info \cup {NoInfo}
  /\ keeper \in [pc : {"idle", "wallet", "deposit"}, need : Nat]
  /\ funds \in [wallet : Nat, gas : Nat, cheque : Nat]
  /\ spent \in [puts : Nat, faults : Nat, cheques : Nat, short : BOOLEAN]

Calling ==
  /\ call \in [Callers -> Call] /\ PilotIn(call[Pilot], World)
  /\ \A c \in Callers : CallIn(call[c], World)

FundsInv ==
  /\ Types /\ Calling
  /\ cache # NoInfo => CacheIn(cache, World)
  /\ traits.autopilot => now <= due.pass
  /\ Keeping

(***************************************************************************)
(* Keeping a batch alive.                                                  *)
(***************************************************************************)
\* The premise of KeptAlive.
Kept ==
  /\ traits.autopilot /\ traits.own /\ traits.warm
  /\ spent.faults = 0 /\ ~spent.short /\ batch.depth <= traits.depth + 1

\* What is known is known to be good.
Good(r) ==
  /\ r.info \in Info => r.info.exists /\ r.info.usable
  /\ r.got \in Stamp => r.got.exists /\ r.got.usable

Sound ==
  /\ batch.usable /\ cache # NoInfo /\ cache.exists /\ cache.usable /\ batch.depth >= traits.depth
  /\ \A c \in Callers : Good(call[c])

\* A batch outlives the cycle; one that was not diluted yet outlives two when a pass begins.
Margin == IF batch.depth = traits.depth THEN 2 * Cycle + 1 ELSE 0
Lasting ==
  /\ call[Pilot].pc # "idle" => batch.expiry > now + Margin
  /\ call[Pilot].pc = "idle" /\ due.pass = 0 => batch.depth = traits.depth /\ batch.expiry > 2 * Cycle + 1
  /\ call[Pilot].pc = "idle" /\ due.pass # 0 => batch.expiry > due.pass + Margin

Alive == Sound /\ Lasting

AliveInv == Kept => Alive

(***************************************************************************)
(* How the world changes, and what stays true of answers.                  *)
(***************************************************************************)
\* Nobody acts on the batch; uploads fill it, calls fail, a pass begins.
Quiet(W, X) ==
  /\ X.now = W.now /\ X.batch.depth = W.batch.depth /\ X.batch.expiry = W.batch.expiry
  /\ X.batch.fill >= W.batch.fill /\ X.pass >= W.pass /\ X.faults >= W.faults

\* The autopilot acts on the batch.
Acts(W, X) ==
  /\ X.now = W.now /\ X.pass = W.pass /\ W.pass = W.now + Cycle /\ X.faults >= W.faults
  /\ X.batch.fill = W.batch.fill /\ X.batch.depth >= W.batch.depth
  /\ X.batch.depth = W.batch.depth => X.batch.expiry >= W.batch.expiry

\* Time passes.
Ticks(W, X) ==
  X.now = W.now + 1 /\ X.batch = W.batch /\ X.pass = W.pass /\ X.faults = W.faults

\* The world as the variables have it, before and after a step.
LEMMA WorldFields ==
  ASSUME Types
  PROVE  /\ World \in Worlds /\ World.now = now /\ World.batch = batch /\ World.pass = due.pass
         /\ World.faults = spent.faults
<1>1. now \in Nat /\ batch \in BatchType /\ due.pass \in Nat /\ spent.faults \in Nat
  BY DEF Types
<1>. QED BY <1>1 DEF World, Worlds

LEMMA WorldNext ==
  ASSUME Types'
  PROVE  /\ World' \in Worlds /\ World'.now = now' /\ World'.batch = batch'
         /\ World'.pass = due'.pass /\ World'.faults = spent'.faults
<1>1. now' \in Nat /\ batch' \in BatchType /\ due'.pass \in Nat /\ spent'.faults \in Nat
  BY DEF Types
<1>. QED BY <1>1 DEF World, Worlds

\* What is cached stays true while nobody acts.
LEMMA QuietCache ==
  ASSUME NEW W \in Worlds, NEW X \in Worlds, Quiet(W, X), NEW i \in Info, CacheIn(i, W)
  PROVE  CacheIn(i, X)
<1>1. Known(i, X) /\ Bounded(i, i.at, X) /\ i.at <= X.now
  BY DEF CacheIn, Quiet, Known, Bounded, Info, Worlds, BatchType
<1>2. Exact(i, i.at, W) => Exact(i, i.at, X)
  BY DEF Quiet, Exact, Info, Worlds, BatchType
<1>3. Since(i.at, X) => Since(i.at, W)
  <2>. Cycle \in Nat
    BY FundsAssumption
  <2>. QED BY DEF Quiet, Since, Info, Worlds
<1>. QED BY <1>1, <1>2, <1>3 DEF CacheIn

\* So does what a call knows,
LEMMA QuietCall ==
  ASSUME NEW W \in Worlds, NEW X \in Worlds, Quiet(W, X), NEW r \in Call, CallIn(r, W)
  PROVE  CallIn(r, X)
<1>1. ASSUME NEW i \in Info \cup Stamp, Known(i, W) PROVE Known(i, X)
  BY <1>1 DEF Quiet, Known, Info, Stamp, Worlds, BatchType
<1>2. ASSUME NEW i \in Stamp
      PROVE  /\ Bounded(i, W.now, W) => Bounded(i, X.now, X)
             /\ Exact(i, W.now, W) => Exact(i, X.now, X)
  BY DEF Quiet, Bounded, Exact, Stamp, Worlds, BatchType
<1>3. Since(X.now, X) => Since(W.now, W)
  BY FundsAssumption DEF Quiet, Since, Worlds
<1>. QED BY <1>1, <1>2, <1>3 DEF CallIn

\* and what the autopilot knows, while it does not begin another pass.
LEMMA QuietPilot ==
  ASSUME NEW W \in Worlds, NEW X \in Worlds, Quiet(W, X), X.pass = W.pass, NEW r \in Call,
         PilotIn(r, W)
  PROVE  PilotIn(r, X)
<1>1. ASSUME NEW i \in Stamp PROVE Exact(i, W.now, W) => Exact(i, X.now, X)
  BY DEF Quiet, Exact, Stamp, Worlds, BatchType
<1>2. ASSUME NEW i \in Info
      PROVE  /\ Bounded(i, i.at, W) => Bounded(i, i.at, X)
             /\ Exact(i, i.at, W) => Exact(i, i.at, X)
  BY DEF Quiet, Bounded, Exact, Info, Worlds, BatchType
<1>3. /\ X.now = W.now /\ X.batch.expiry = W.batch.expiry
      /\ X.faults = 0 => W.faults = 0
  BY DEF Quiet, Worlds
<1>. QED BY <1>1, <1>2, <1>3 DEF PilotIn

\* An action of the autopilot makes nothing false of what others know: it is older.
LEMMA ActsKeep ==
  ASSUME NEW W \in Worlds, NEW X \in Worlds, Acts(W, X)
  PROVE  /\ \A i \in Info : CacheIn(i, W) => CacheIn(i, X)
         /\ \A r \in Call : CallIn(r, W) => CallIn(r, X)
<1>1. ASSUME NEW i \in Info \cup Stamp, Known(i, W) PROVE Known(i, X)
  BY <1>1 DEF Acts, Known, Info, Stamp, Worlds, BatchType
<1>2. ASSUME NEW i \in Info \cup Stamp, NEW t \in Nat, Known(i, W), Bounded(i, t, W)
      PROVE  Bounded(i, t, X)
  BY <1>2 DEF Acts, Known, Bounded, Info, Stamp, Worlds, BatchType
<1>3. ASSUME NEW t \in Nat, t <= W.now PROVE ~Since(t, X)
  <2>. Cycle \in Nat
    BY FundsAssumption
  <2>. QED BY <1>3 DEF Acts, Since, Worlds
<1>4. X.now = W.now /\ W.now \in Nat /\ W.now <= W.now
  BY DEF Acts, Worlds
<1>5. ASSUME NEW i \in Info, CacheIn(i, W) PROVE CacheIn(i, X)
  <2>1. i.at \in Nat
    BY DEF Info
  <2>. QED BY <1>1, <1>2, <1>3, <1>4, <1>5, <2>1 DEF CacheIn
<1>6. ASSUME NEW r \in Call, CallIn(r, W) PROVE CallIn(r, X)
  BY <1>1, <1>2, <1>3, <1>4, <1>6 DEF CallIn
<1>. QED BY <1>5, <1>6

\* Time makes nothing false, as long as no answer is on its way.
LEMMA TicksKeep ==
  ASSUME NEW W \in Worlds, NEW X \in Worlds, Ticks(W, X)
  PROVE  /\ \A i \in Info : CacheIn(i, W) => CacheIn(i, X)
         /\ \A r \in Call : r.pc \notin {"ask", "answered", "have"} /\ CallIn(r, W) => CallIn(r, X)
         /\ \A r \in Call : r.pc = "idle" => PilotIn(r, X)
<1>1. \A i \in Info : CacheIn(i, W) => CacheIn(i, X)
  BY DEF CacheIn, Ticks, Known, Bounded, Exact, Since, Info, Worlds, BatchType
<1>2. \A r \in Call : r.pc \notin {"ask", "answered", "have"} /\ CallIn(r, W) => CallIn(r, X)
  BY DEF CallIn, Ticks, Known
<1>3. \A r \in Call : r.pc = "idle" => PilotIn(r, X)
  BY DEF PilotIn
<1>. QED BY <1>1, <1>2, <1>3

\* Of an idle caller nothing is asked.
LEMMA Idling ==
  /\ Idle \in Call /\ Idle.pc = "idle" /\ Idle.info = NoInfo /\ Idle.got = NoInfo
  /\ NoInfo \notin Info /\ NoInfo \notin Stamp
  /\ \A W : CallIn(Idle, W) /\ PilotIn(Idle, W)
<1>1. /\ Idle \in Call /\ Idle.pc = "idle" /\ Idle.info = NoInfo /\ Idle.got = NoInfo
  BY DEF Idle, Call
<1>2. NoInfo \notin Info /\ NoInfo \notin Stamp
  BY FundsAssumption
<1>. QED BY <1>1, <1>2 DEF CallIn, PilotIn

\* A step of one caller.
LEMMA CallStep ==
  ASSUME Types, Types', Calling, Quiet(World, World'),
         NEW c \in Callers, NEW r \in Call, call' = [call EXCEPT ![c] = r],
         CallIn(r, World'), c = Pilot => PilotIn(r, World'), c # Pilot => due'.pass = due.pass
  PROVE  Calling'
<1>1. World \in Worlds /\ World' \in Worlds /\ World.pass = due.pass /\ World'.pass = due'.pass
  BY WorldFields, WorldNext
<1>2. Pilot \in Callers /\ call \in [Callers -> Call]
  BY DEF Callers, Calling
<1>3. call' \in [Callers -> Call] /\ \A d \in Callers : call'[d] = IF d = c THEN r ELSE call[d]
  BY <1>2
<1>4. ASSUME NEW d \in Callers PROVE CallIn(call'[d], World')
  <2>1. CASE d = c
    BY <1>3, <2>1
  <2>2. CASE d # c
    <3>1. call'[d] = call[d] /\ call[d] \in Call /\ CallIn(call[d], World)
      BY <1>2, <1>3, <2>2 DEF Calling
    <3>. QED BY <1>1, <3>1, QuietCall
  <2>. QED BY <2>1, <2>2
<1>5. PilotIn(call'[Pilot], World')
  <2>1. CASE c = Pilot
    BY <1>2, <1>3, <2>1
  <2>2. CASE c # Pilot
    <3>1. call'[Pilot] = call[Pilot] /\ call[Pilot] \in Call /\ PilotIn(call[Pilot], World)
      BY <1>2, <1>3, <2>2 DEF Calling
    <3>. QED BY <1>1, <2>2, <3>1, QuietPilot
  <2>. QED BY <2>1, <2>2
<1>. QED BY <1>3, <1>4, <1>5 DEF Calling

\* A step of none.
LEMMA CallSame ==
  ASSUME Types, Types', Calling, Quiet(World, World'), call' = call, due'.pass = due.pass
  PROVE  Calling'
<1>1. World \in Worlds /\ World' \in Worlds /\ World.pass = due.pass /\ World'.pass = due'.pass
  BY WorldFields, WorldNext
<1>2. Pilot \in Callers /\ call \in [Callers -> Call]
  BY DEF Callers, Calling
<1>3. ASSUME NEW d \in Callers PROVE CallIn(call[d], World')
  BY <1>1, <1>2, QuietCall DEF Calling
<1>4. PilotIn(call[Pilot], World')
  BY <1>1, <1>2, QuietPilot DEF Calling
<1>. QED BY <1>2, <1>3, <1>4 DEF Calling

\* A step that leaves the cache alone.
LEMMA CacheSame ==
  ASSUME Types, Types', Quiet(World, World'), cache' = cache, cache # NoInfo => CacheIn(cache, World)
  PROVE  cache' # NoInfo => CacheIn(cache', World')
BY WorldFields, WorldNext, QuietCache DEF Types

(***************************************************************************)
(* The actions.                                                            *)
(***************************************************************************)
\* An answer is about the batch as it is at that moment, or a failure is counted.
Told(g) ==
  /\ g \in Stamp => /\ g.depth = batch.depth /\ g.fill = batch.fill
                    /\ g.exists /\ g.ttl >= 0 => g.ttl + now <= batch.expiry
                    /\ spent'.faults = 0 => g.ttl >= 0 /\ g.ttl + now >= batch.expiry
  /\ g \notin Stamp /\ spent'.faults = 0 => now >= batch.expiry
  /\ spent'.faults = 0 /\ Live => g \in Stamp /\ g.exists /\ g.usable = batch.usable

Spending == [puts : Nat, faults : Nat, cheques : Nat, short : BOOLEAN]

\* An answer of which a field is changed.
LEMMA Amended ==
  ASSUME NEW o \in Stamp
  PROVE  /\ LET g == [o EXCEPT !.exists = FALSE, !.ttl = 0] IN
              g \in Stamp /\ ~g.exists /\ g.ttl = 0 /\ g.depth = o.depth /\ g.fill = o.fill
         /\ LET g == [o EXCEPT !.ttl = -1] IN
              g \in Stamp /\ g.ttl = -1 /\ g.depth = o.depth /\ g.fill = o.fill
<1>1. ASSUME NEW e \in BOOLEAN, NEW t \in Int
      PROVE  [o EXCEPT !.exists = e, !.ttl = t] \in Stamp
  BY DEF Stamp
<1>2. 0 \in Int
  OBVIOUS
<1>3. [o EXCEPT !.exists = FALSE, !.ttl = 0] \in Stamp
  BY <1>1, <1>2, Zenon
<1>. QED BY <1>3 DEF Stamp

\* That is what Bee tells.
LEMMA Answers ==
  ASSUME Types, Calling, NEW c \in Callers, Answer(c)
  PROVE  /\ \E g \in Stamp \cup {NotFound, NoAnswer} : AnswerWith(c, g) /\ Told(g)
         /\ spent' \in Spending /\ spent'.faults >= spent.faults /\ spent'.short = spent.short
<1>1. /\ now \in Nat /\ batch \in BatchType /\ batch.expiry \in Nat /\ spent \in Spending
      /\ spent.faults \in Nat /\ NotFound \notin Stamp /\ NoAnswer \notin Stamp
  BY FundsAssumption DEF Types, BatchType, Spending
<1>2. Fault => spent' \in Spending /\ spent'.faults = spent.faults + 1 /\ spent'.short = spent.short
  BY <1>1 DEF Fault, Spending
<1>3. Fault => spent'.faults # 0 /\ spent'.faults >= spent.faults
  BY <1>1, <1>2
<1>4. UNCHANGED spent => spent' \in Spending /\ spent'.faults >= spent.faults /\ spent'.short = spent.short
  BY <1>1
<1>5. /\ Observed \in Stamp /\ Observed.exists /\ Observed.usable = batch.usable
      /\ Observed.ttl = batch.expiry - now /\ Observed.depth = batch.depth /\ Observed.fill = batch.fill
  BY <1>1 DEF Observed, Stamp, BatchType
<1>6. CASE Live /\ AnswerWith(c, Observed) /\ UNCHANGED spent
  <2>1. Observed.ttl >= 0 /\ Observed.ttl + now = batch.expiry /\ batch.expiry <= batch.expiry
    BY <1>1, <1>5, <1>6 DEF Live
  <2>2. Told(Observed)
    BY <1>5, <2>1 DEF Told
  <2>. QED BY <1>4, <1>5, <1>6, <2>2
<1>7. CASE ~Live /\ AnswerWith(c, NotFound) /\ UNCHANGED spent
  <2>1. now >= batch.expiry
    BY <1>1, <1>7 DEF Live
  <2>2. Told(NotFound)
    BY <1>1, <1>7, <2>1 DEF Told
  <2>. QED BY <1>4, <1>7, <2>2
<1>8. CASE ~Live /\ AnswerWith(c, [Observed EXCEPT !.exists = FALSE, !.ttl = 0]) /\ UNCHANGED spent
  <2> DEFINE g == [Observed EXCEPT !.exists = FALSE, !.ttl = 0]
  <2>1. g \in Stamp /\ ~g.exists /\ g.ttl = 0 /\ g.depth = batch.depth /\ g.fill = batch.fill
    BY <1>5, Amended, Zenon
  <2>. HIDE DEF g
  <2>2. AnswerWith(c, g)
    BY <1>8 DEF g
  <2>3. g.ttl >= 0 /\ g.ttl + now >= batch.expiry
    BY <1>1, <1>8, <2>1 DEF Live
  <2>4. Told(g)
    BY <1>8, <2>1, <2>3 DEF Told
  <2>. QED BY <1>4, <1>8, <2>1, <2>2, <2>4
<1>9. CASE Live /\ AnswerWith(c, [Observed EXCEPT !.ttl = -1]) /\ Fault
  <2> DEFINE g == [Observed EXCEPT !.ttl = -1]
  <2>1. g \in Stamp /\ g.ttl = -1 /\ g.depth = batch.depth /\ g.fill = batch.fill
    BY <1>5, Amended, Zenon
  <2>. HIDE DEF g
  <2>2. AnswerWith(c, g)
    BY <1>9 DEF g
  <2>3. ~(g.ttl >= 0)
    BY <2>1
  <2>4. Told(g)
    BY <1>3, <1>9, <2>1, <2>3 DEF Told
  <2>. QED BY <1>2, <1>3, <1>9, <2>1, <2>2, <2>4
<1>10. CASE AnswerWith(c, NoAnswer) /\ Fault
  <2>1. Told(NoAnswer)
    BY <1>1, <1>3, <1>10 DEF Told
  <2>. QED BY <1>2, <1>3, <1>10, <2>1
<1>. QED BY <1>6, <1>7, <1>8, <1>9, <1>10 DEF Answer

\* An answer on its way is about the batch as it is.
LEMMA AnswerKeeps ==
  ASSUME FundsInv, NEW c \in Callers, Answer(c)
  PROVE  FundsInv'
<1>1. Types /\ Calling /\ call \in [Callers -> Call] /\ Pilot \in Callers
  BY DEF FundsInv, Calling, Callers
<1>2. call[c].pc = "ask" /\ UNCHANGED <<now, traits, batch, cache, due, keeper, funds>>
  BY DEF Answer
<1>3. PICK g \in Stamp \cup {NotFound, NoAnswer} : AnswerWith(c, g) /\ Told(g)
  BY <1>1, Answers
<1>4. Types' /\ spent'.faults >= spent.faults
  BY <1>1, <1>2, Answers DEF Types, Spending
<1>5. World \in Worlds /\ World' \in Worlds
  BY <1>1, <1>4, WorldFields, WorldNext
<1>6. /\ World.now = now /\ World'.now = now /\ World.batch = batch /\ World'.batch = batch
      /\ World.pass = due.pass /\ World'.pass = due.pass
      /\ World.faults = spent.faults /\ World'.faults = spent'.faults
  BY <1>1, <1>2, <1>4, WorldFields, WorldNext
<1>7. batch.depth \in Nat /\ batch.fill \in Nat /\ batch.expiry \in Nat /\ due.pass \in Nat
  BY <1>1 DEF Types, BatchType
<1>8. Quiet(World, World')
  BY <1>4, <1>6, <1>7 DEF Quiet
<1> DEFINE r == [call[c] EXCEPT !.pc = "answered", !.got = g]
<1>9. r \in Call /\ r.pc = "answered" /\ r.got = g /\ r.info = call[c].info /\ r.for = call[c].for
  BY <1>1 DEF Call
<1>. HIDE DEF r
<1>10. call' = [call EXCEPT ![c] = r]
  BY <1>1, <1>3 DEF r, AnswerWith
<1>11. g \in Stamp => /\ Known(g, World') /\ Bounded(g, World'.now, World') /\ Exact(g, World'.now, World')
  BY <1>3, <1>6, <1>7 DEF Known, Bounded, Exact, Told
<1>12. CallIn(r, World')
  <2>1. call[c].info \in Info \cup {NoInfo} /\ (call[c].info \in Info => Known(call[c].info, World))
    BY <1>1, <1>2 DEF Calling, CallIn
  <2>2. call[c].info \in Info => Known(call[c].info, World')
    BY <1>6, <2>1 DEF Known
  <2>. QED BY <1>9, <1>11, <2>1, <2>2 DEF CallIn
<1>13. c = Pilot => PilotIn(r, World')
  <2>1. c = Pilot => r.for = "pass" /\ World.pass = World.now + Cycle
    BY <1>1, <1>2, <1>9 DEF Calling, PilotIn
  <2>. QED BY <1>3, <1>6, <1>9, <1>11, <2>1 DEF PilotIn, Told
<1>14. Calling'
  BY <1>1, <1>2, <1>4, <1>8, <1>9, <1>10, <1>12, <1>13, CallStep
<1>15. cache' # NoInfo => CacheIn(cache', World')
  BY <1>1, <1>2, <1>4, <1>8, CacheSame DEF FundsInv
<1>16. Keeping'
  <2>1. ~traits.autopilot => c # Pilot
    BY <1>2 DEF FundsInv, Keeping
  <2>. QED BY <1>1, <1>2, <1>10, <2>1 DEF FundsInv, Keeping
<1>. QED BY <1>2, <1>4, <1>14, <1>15, <1>16 DEF FundsInv

\* A step after which nobody acted on the batch and the cache is as it was.
LEMMA Calm ==
  ASSUME FundsInv, Types', Calling', Quiet(World, World'), cache' = cache,
         traits.autopilot => now <= due'.pass, now' = now, traits' = traits, Keeping'
  PROVE  FundsInv'
<1>1. cache' # NoInfo => CacheIn(cache', World')
  BY CacheSame DEF FundsInv
<1>. QED BY <1>1 DEF FundsInv

\* What a Get from the cache, or the beginning of a fetch, makes of the caller.
LEMMA Gets ==
  ASSUME cache \in Info \cup {NoInfo}, NEW c \in Callers, call \in [Callers -> Call],
         NEW for \in {"check", "header", "pass"}, Get(c, for)
  PROVE  \E r \in Call : /\ call' = [call EXCEPT ![c] = r] /\ r.pc \in {"idle", "ask", "have"}
                         /\ r.pc # "idle" => r.for = for
                         /\ r.info \in {NoInfo, cache} /\ r.got = NoInfo
                         /\ r.pc = "have" => r.info = cache /\ cache \in Info /\ now - cache.at < Interval
                         /\ for = "pass" => r.pc # "idle"
<1>1. CASE cache # NoInfo /\ now - cache.at < Interval /\ for = "header"
  <2>1. call' = [call EXCEPT ![c] = Idle]
    BY <1>1 DEF Get, Returns
  <2>. QED BY <1>1, <2>1, Idling
<1>2. CASE cache # NoInfo /\ now - cache.at < Interval /\ for # "header"
  <2> DEFINE r == [Idle EXCEPT !.pc = "have", !.for = for, !.info = cache]
  <2>1. call' = [call EXCEPT ![c] = r]
    BY <1>2 DEF Get, Returns
  <2>2. r \in Call /\ r.pc = "have" /\ r.for = for /\ r.info = cache /\ r.got = NoInfo
    BY DEF Idle, Call
  <2>. HIDE DEF r
  <2>. QED BY <1>2, <2>1, <2>2
<1>3. CASE ~(cache # NoInfo /\ now - cache.at < Interval)
  <2> DEFINE r == [Idle EXCEPT !.pc = "ask", !.for = for, !.info = cache]
  <2>1. call' = [call EXCEPT ![c] = r]
    BY <1>3 DEF Get, Fetch
  <2>2. r \in Call /\ r.pc = "ask" /\ r.for = for /\ r.info = cache /\ r.got = NoInfo
    BY DEF Idle, Call
  <2>. HIDE DEF r
  <2>. QED BY <1>3, <2>1, <2>2
<1>. QED BY <1>1, <1>2, <1>3

\* The same for an upload: what it knows is what the cache knows.
LEMMA GetCalls ==
  ASSUME FundsInv, Types', Quiet(World, World'), UNCHANGED <<now, traits, cache, due, keeper, funds>>,
         NEW p \in Puts, NEW for \in {"check", "header"}, Get(p, for)
  PROVE  FundsInv'
<1>1. Types /\ Calling /\ call \in [Callers -> Call] /\ p \in Callers /\ p # Pilot /\ Pilot \in Callers
  BY FundsAssumption DEF FundsInv, Calling, Callers
<1>2. PICK r \in Call : /\ call' = [call EXCEPT ![p] = r] /\ r.pc \in {"idle", "ask", "have"}
                        /\ r.info \in {NoInfo, cache} /\ r.got = NoInfo
                        /\ r.pc = "have" => r.info = cache /\ cache \in Info
  <2>1. cache \in Info \cup {NoInfo}
    BY <1>1 DEF Types
  <2>. QED BY <1>1, <2>1, Gets
<1>3. cache # NoInfo => CacheIn(cache, World')
  BY <1>1, CacheSame DEF FundsInv
<1>4. CallIn(r, World')
  <2>1. r.info \in Info => Known(r.info, World')
    BY <1>2, <1>3, Idling DEF CacheIn
  <2>2. r.info \in Info \cup {NoInfo}
    BY <1>1, <1>2 DEF Types
  <2>. QED BY <1>2, <2>1, <2>2 DEF CallIn
<1>5. Calling'
  BY <1>1, <1>2, <1>4, CallStep
<1>6. Keeping'
  BY <1>1, <1>2 DEF FundsInv, Keeping
<1>. QED BY <1>5, <1>6, Calm DEF FundsInv

LEMMA StartPutKeeps ==
  ASSUME FundsInv, NEW p \in Puts, StartPut(p)
  PROVE  FundsInv'
<1>1. Types /\ UNCHANGED <<now, traits, batch, cache, due, keeper, funds>> /\ Get(p, "check")
  BY DEF FundsInv, StartPut
<1>2. Types' /\ spent'.faults = spent.faults
  BY <1>1 DEF Types, StartPut
<1>3. Quiet(World, World')
  BY <1>1, <1>2, WorldFields, WorldNext DEF Quiet, Types, BatchType
<1>. QED BY <1>1, <1>2, <1>3, GetCalls

\* A refused upload, or one that may begin, knows nothing.
LEMMA CheckKeeps ==
  ASSUME FundsInv, NEW p \in Puts, Check(p)
  PROVE  FundsInv'
<1>1. /\ Types /\ Calling /\ call \in [Callers -> Call] /\ p \in Callers /\ p # Pilot /\ Pilot \in Callers
      /\ UNCHANGED <<now, traits, batch, cache, due, keeper, funds, spent>>
  BY FundsAssumption DEF FundsInv, Calling, Callers, Check
<1>2. Types'
  BY <1>1 DEF Types
<1>3. Quiet(World, World')
  BY <1>1, <1>2, WorldFields, WorldNext DEF Quiet, Types, BatchType
<1>4. PICK r \in Call : call' = [call EXCEPT ![p] = r] /\ r.pc \in {"idle", "upload"} /\ r.info = NoInfo
  <2>1. [Idle EXCEPT !.pc = "upload"] \in Call /\ [Idle EXCEPT !.pc = "upload"].pc = "upload"
        /\ [Idle EXCEPT !.pc = "upload"].info = NoInfo
    BY DEF Idle, Call
  <2>2. call' = [call EXCEPT ![p] = Idle] \/ call' = [call EXCEPT ![p] = [Idle EXCEPT !.pc = "upload"]]
    BY DEF Check
  <2>. QED BY <2>1, <2>2, Idling
<1>5. CallIn(r, World')
  BY <1>4, Idling DEF CallIn
<1>6. Calling'
  BY <1>1, <1>2, <1>3, <1>4, <1>5, CallStep
<1>7. Keeping'
  BY <1>1, <1>4 DEF FundsInv, Keeping
<1>. QED BY <1>1, <1>2, <1>3, <1>6, <1>7, Calm DEF FundsInv

\* A caller that is done.
LEMMA EndCalls ==
  ASSUME FundsInv, Types', Quiet(World, World'), UNCHANGED <<now, traits, cache, due>>,
         NEW c \in Callers, End(c), UNCHANGED <<keeper, funds>>
  PROVE  FundsInv'
<1>1. Types /\ Calling /\ call \in [Callers -> Call] /\ Pilot \in Callers
  BY DEF FundsInv, Calling, Callers
<1>2. Idle \in Call /\ CallIn(Idle, World') /\ PilotIn(Idle, World') /\ call' = [call EXCEPT ![c] = Idle]
  BY Idling DEF End
<1>3. Calling'
  BY <1>1, <1>2, CallStep
<1>4. Keeping'
  BY <1>1, <1>2, Idling DEF FundsInv, Keeping
<1>. QED BY <1>3, <1>4, Calm DEF FundsInv

\* An upload fills the batch, or nothing.
LEMMA UploadKeeps ==
  ASSUME FundsInv, NEW p \in Puts, Upload(p)
  PROVE  FundsInv'
<1>1. Types /\ UNCHANGED <<now, traits, cache, due, keeper, funds, spent>> /\ p \in Callers
  BY DEF FundsInv, Upload, Callers
<1>2. batch \in BatchType /\ batch.fill \in Nat /\ batch.depth \in Nat /\ batch.expiry \in Nat
  BY <1>1 DEF Types, BatchType
<1>3. /\ batch' \in BatchType /\ batch'.depth = batch.depth /\ batch'.expiry = batch.expiry
      /\ batch'.fill >= batch.fill
  <2>1. CASE batch' = batch
    BY <1>2, <2>1
  <2>2. CASE batch' = [batch EXCEPT !.fill = IF batch.fill < Capacity(batch.depth) THEN batch.fill + 1 ELSE batch.fill]
    BY <1>2, <2>2 DEF BatchType
  <2>. QED BY <2>1, <2>2 DEF Upload
<1>4. Types'
  BY <1>1, <1>3 DEF Types
<1>5. Quiet(World, World')
  BY <1>1, <1>3, <1>4, WorldFields, WorldNext DEF Quiet, Types
<1>6. CASE Get(p, "header")
  BY <1>1, <1>4, <1>5, <1>6, GetCalls
<1>7. CASE End(p)
  BY <1>1, <1>4, <1>5, <1>7, EndCalls
<1>. QED BY <1>6, <1>7 DEF Upload

\* A sweep asks for what is cached.
LEMMA StartSweepKeeps ==
  ASSUME FundsInv, StartSweep
  PROVE  FundsInv'
<1>1. /\ Types /\ Calling /\ call \in [Callers -> Call] /\ Sweeper \in Callers /\ Sweeper # Pilot
      /\ Pilot \in Callers /\ UNCHANGED <<now, traits, batch, cache, keeper, funds, spent>>
  BY FundsAssumption DEF FundsInv, Calling, Callers, StartSweep
<1>2. due' = [due EXCEPT !.sweep = now + Interval] /\ due \in [sweep : Nat, pass : Nat] /\ now + Interval \in Nat
  BY <1>1, FundsAssumption DEF StartSweep, Types
<1>3. due' \in [sweep : Nat, pass : Nat] /\ due'.pass = due.pass
  BY <1>2
<1>4. Types'
  BY <1>1, <1>3 DEF Types
<1>5. Quiet(World, World')
  BY <1>1, <1>3, <1>4, WorldFields, WorldNext DEF Quiet, Types, BatchType
<1>6. CASE call' = call
  <2>1. Calling'
    BY <1>1, <1>3, <1>4, <1>5, <1>6, CallSame
  <2>2. Keeping'
    BY <1>1, <1>6 DEF FundsInv, Keeping
  <2>. QED BY <1>1, <1>3, <1>4, <1>5, <2>1, <2>2, Calm DEF FundsInv
<1>7. CASE Fetch(Sweeper, "sweep", NoInfo)
  <2> DEFINE r == [Idle EXCEPT !.pc = "ask", !.for = "sweep", !.info = NoInfo]
  <2>1. r \in Call /\ r.pc = "ask" /\ r.info = NoInfo /\ r.got = NoInfo
    BY DEF Idle, Call
  <2>2. call' = [call EXCEPT ![Sweeper] = r]
    BY <1>7 DEF Fetch
  <2>. HIDE DEF r
  <2>3. CallIn(r, World')
    BY <2>1, Idling DEF CallIn
  <2>4. Calling'
    BY <1>1, <1>3, <1>4, <1>5, <2>1, <2>2, <2>3, CallStep
  <2>5. Keeping'
    BY <1>1, <2>2 DEF FundsInv, Keeping
  <2>. QED BY <1>1, <1>3, <1>4, <1>5, <2>4, <2>5, Calm DEF FundsInv
<1>. QED BY <1>6, <1>7 DEF StartSweep

\* What a fetch that is answered leaves in the cache.
LEMMA Fetched ==
  ASSUME NEW W \in Worlds, NEW g \in Stamp, Known(g, W), Bounded(g, W.now, W)
  PROVE  LET i == FetchedAt(g, W.now) IN
         /\ i \in Info /\ i.at = W.now /\ Known(i, W) /\ Bounded(i, i.at, W)
         /\ Exact(g, W.now, W) => Exact(i, i.at, W)
         /\ i.exists = g.exists /\ i.usable = g.usable
<1> DEFINE i == FetchedAt(g, W.now)
<1>1. /\ i \in Info /\ i.at = W.now /\ i.exists = g.exists /\ i.usable = g.usable /\ i.ttl = g.ttl
      /\ i.depth = g.depth /\ i.fill = g.fill
  BY DEF FetchedAt, Stamp, Info, Worlds
<1>. HIDE DEF i
<1>2. Known(i, W) /\ Bounded(i, i.at, W) /\ (Exact(g, W.now, W) => Exact(i, i.at, W))
  BY <1>1 DEF Known, Bounded, Exact
<1>. QED BY <1>1, <1>2 DEF i

\* What a Get that has its answer makes of the caller.
LEMMA Returned ==
  ASSUME NEW c \in Callers, call \in [Callers -> Call], NEW for \in {"check", "header", "sweep", "pass"},
         NEW i \in Info \cup {NotFound, NoAnswer}, Returns(c, for, i)
  PROVE  \E r \in Call : /\ call' = [call EXCEPT ![c] = r] /\ r.got = NoInfo /\ r.pc \in {"idle", "have"}
                         /\ r.pc = "idle" => r = Idle
                         /\ r.pc = "have" => r.for = for /\ r.info = i
                         /\ for = "pass" => r.pc = "have"
<1>1. CASE for \in {"sweep", "header"}
  <2>1. call' = [call EXCEPT ![c] = Idle]
    BY <1>1 DEF Returns
  <2>. QED BY <1>1, <2>1, Idling
<1>2. CASE for \notin {"sweep", "header"}
  <2> DEFINE r == [Idle EXCEPT !.pc = "have", !.for = for, !.info = i]
  <2>1. r \in Call /\ r.pc = "have" /\ r.for = for /\ r.info = i /\ r.got = NoInfo
    BY DEF Idle, Call
  <2>2. call' = [call EXCEPT ![c] = r]
    BY <1>2 DEF Returns
  <2>. HIDE DEF r
  <2>. QED BY <2>1, <2>2
<1>. QED BY <1>1, <1>2

\* The answer that arrives is what the cache and the caller know.
LEMMA ReceiveKeeps ==
  ASSUME FundsInv, NEW c \in Callers, Receive(c)
  PROVE  FundsInv'
<1>1. /\ Types /\ Calling /\ call \in [Callers -> Call] /\ Pilot \in Callers /\ call[c].pc = "answered"
      /\ UNCHANGED <<now, traits, batch, due, keeper, funds, spent>>
  BY DEF FundsInv, Calling, Callers, Receive
<1>2. World \in Worlds /\ World.now = now /\ World.batch = batch /\ World.faults = spent.faults
      /\ World.pass = due.pass /\ World' = World
  BY <1>1, WorldFields DEF World
<1>3. /\ call[c] \in Call /\ CallIn(call[c], World) /\ call[c].for \in {"check", "header", "sweep", "pass"}
      /\ call[c].info \in Info \cup {NoInfo} /\ call[c].got \in Stamp \cup {NotFound, NoAnswer}
  BY <1>1 DEF Calling, CallIn, Call
<1>4. ~traits.autopilot => c # Pilot
  BY <1>1 DEF FundsInv, Keeping
<1>5. ASSUME Types', NEW i \in Info \cup {NotFound, NoAnswer}, Returns(c, call[c].for, i),
             i \in Info => Known(i, World),
             c = Pilot /\ spent.faults = 0 /\ now < batch.expiry =>
               i \in Info /\ Exact(i, i.at, World) /\ Bounded(i, i.at, World)
      PROVE  Calling' /\ Keeping'
  <2>1. PICK r \in Call : /\ call' = [call EXCEPT ![c] = r] /\ r.got = NoInfo /\ r.pc \in {"idle", "have"}
                          /\ r.pc = "idle" => r = Idle
                          /\ r.pc = "have" => r.for = call[c].for /\ r.info = i
                          /\ call[c].for = "pass" => r.pc = "have"
    BY <1>1, <1>3, <1>5, Returned
  <2>2. CallIn(r, World)
    <3>1. CASE r.pc = "idle"
      BY <2>1, <3>1, Idling
    <3>2. CASE r.pc = "have"
      BY <1>5, <2>1, <3>2 DEF CallIn
    <3>. QED BY <2>1, <3>1, <3>2
  <2>3. c = Pilot => PilotIn(r, World)
    <3>1. c = Pilot => call[c].for = "pass" /\ World.pass = World.now + Cycle
      BY <1>1 DEF Calling, PilotIn
    <3>2. c = Pilot => r.pc = "have" /\ r.for = "pass" /\ r.info = i
      BY <2>1, <3>1
    <3>. QED BY <1>2, <1>5, <3>1, <3>2 DEF PilotIn
  <2>4. Quiet(World, World')
    BY <1>2 DEF Quiet, Worlds, BatchType
  <2>5. Calling'
    BY <1>1, <1>2, <1>5, <2>1, <2>2, <2>3, <2>4, CallStep
  <2>6. Keeping'
    BY <1>1, <1>4, <2>1 DEF FundsInv, Keeping
  <2>. QED BY <2>5, <2>6
<1>6. CASE call[c].got \in {NotFound, NoAnswer}
  <2> DEFINE i == IF call[c].info # NoInfo THEN call[c].info ELSE call[c].got
  <2>1. cache' = cache /\ Returns(c, call[c].for, i)
    BY <1>6 DEF Receive
  <2>2. i \in Info \cup {NotFound, NoAnswer} /\ (i \in Info => Known(i, World))
    <3>1. NotFound \notin Info /\ NoAnswer \notin Info
      BY FundsAssumption
    <3>. QED BY <1>3, <1>6, <3>1 DEF CallIn
  <2>. HIDE DEF i
  <2>3. Types'
    BY <1>1, <2>1 DEF Types
  <2>4. ~(c = Pilot /\ spent.faults = 0 /\ now < batch.expiry)
    <3>1. NotFound \notin Stamp /\ NoAnswer \notin Stamp
      BY FundsAssumption
    <3>2. c = Pilot /\ spent.faults = 0 => now >= batch.expiry
      BY <1>1, <1>2, <1>6, <3>1 DEF Calling, PilotIn
    <3>. QED BY <1>1, <3>2 DEF Types, BatchType
  <2>5. Calling' /\ Keeping'
    BY <1>5, <2>1, <2>2, <2>3, <2>4
  <2>. QED BY <1>1, <1>2, <2>1, <2>3, <2>5 DEF FundsInv
<1>7. CASE call[c].got \notin {NotFound, NoAnswer}
  <2>1. call[c].got \in Stamp /\ Known(call[c].got, World) /\ Bounded(call[c].got, World.now, World)
        /\ (Since(World.now, World) => Exact(call[c].got, World.now, World))
        /\ (c = Pilot => Exact(call[c].got, World.now, World))
    BY <1>1, <1>3, <1>7 DEF CallIn, Calling, PilotIn
  <2> DEFINE i == FetchedAt(call[c].got, now)
  <2>2. /\ i \in Info /\ i.at = World.now /\ Known(i, World) /\ Bounded(i, i.at, World)
        /\ Exact(call[c].got, World.now, World) => Exact(i, i.at, World)
    BY <1>2, <2>1, Fetched
  <2>3. cache' = i /\ Returns(c, call[c].for, i)
    BY <1>7 DEF Receive
  <2>. HIDE DEF i
  <2>4. Types'
    BY <1>1, <2>2, <2>3 DEF Types
  <2>5. Calling' /\ Keeping'
    BY <1>5, <2>1, <2>2, <2>3, <2>4
  <2>6. CacheIn(cache', World')
    <3>1. World.now <= World.now
      BY <1>2 DEF Worlds
    <3>. QED BY <1>2, <2>1, <2>2, <2>3, <3>1 DEF CacheIn
  <2>. QED BY <1>1, <2>4, <2>5, <2>6 DEF FundsInv
<1>. QED BY <1>6, <1>7

\* A pass that finds the cache fresh acts on what is so: nobody acted since the last pass.
LEMMA StartPassKeeps ==
  ASSUME FundsInv, StartPass
  PROVE  FundsInv'
<1>1. /\ Types /\ Calling /\ call \in [Callers -> Call] /\ Pilot \in Callers /\ traits.autopilot
      /\ call[Pilot].pc = "idle" /\ now >= due.pass /\ now \in Nat /\ due.pass \in Nat
      /\ UNCHANGED <<now, traits, batch, cache, keeper, funds>>
  BY DEF FundsInv, Calling, Callers, StartPass, Types
<1>2. Cycle \in Nat /\ Interval \in Nat /\ Interval <= Cycle /\ now + Cycle \in Nat
  BY <1>1, FundsAssumption
<1>3. due' \in [sweep : Nat, pass : Nat] /\ due'.pass = now + Cycle
  BY <1>1, <1>2 DEF StartPass, Types
<1>4. spent' \in Spending /\ spent'.faults >= spent.faults
  BY <1>1 DEF StartPass, Fault, Spending, Types
<1>5. Types'
  BY <1>1, <1>3, <1>4 DEF Types, Spending
<1>6. now <= due'.pass /\ due'.pass >= due.pass
  BY <1>1, <1>2, <1>3
<1>7. Quiet(World, World')
  BY <1>1, <1>4, <1>5, <1>6, WorldFields, WorldNext DEF Quiet, Types, BatchType
<1>8. World \in Worlds /\ World' \in Worlds /\ World'.now = now /\ World'.pass = now + Cycle
  BY <1>1, <1>3, <1>5, WorldFields, WorldNext
<1>9. cache # NoInfo => CacheIn(cache, World')
  BY <1>1, <1>5, <1>7, CacheSame DEF FundsInv
<1>10. Keeping'
  BY <1>1 DEF Keeping
<1>11. CASE call' = call
  <2>1. ASSUME NEW d \in Callers PROVE CallIn(call[d], World')
    BY <1>1, <1>7, <1>8, QuietCall DEF Calling
  <2>2. PilotIn(call[Pilot], World')
    BY <1>1 DEF PilotIn
  <2>3. Calling'
    BY <1>1, <1>11, <2>1, <2>2 DEF Calling
  <2>. QED BY <1>1, <1>5, <1>6, <1>7, <1>10, <2>3, Calm
<1>12. CASE Get(Pilot, "pass")
  <2>1. PICK r \in Call : /\ call' = [call EXCEPT ![Pilot] = r] /\ r.pc \in {"idle", "ask", "have"}
                          /\ r.pc # "idle" => r.for = "pass"
                          /\ r.info \in {NoInfo, cache} /\ r.got = NoInfo
                          /\ r.pc = "have" => r.info = cache /\ cache \in Info /\ now - cache.at < Interval
    <3>1. cache \in Info \cup {NoInfo}
      BY <1>1 DEF Types
    <3>. QED BY <1>1, <1>12, <3>1, Gets
  <2>2. CallIn(r, World')
    <3>1. r.info \in Info => Known(r.info, World')
      BY <1>9, <2>1, Idling DEF CacheIn
    <3>2. r.info \in Info \cup {NoInfo}
      BY <1>1, <2>1 DEF Types
    <3>. QED BY <2>1, <3>1, <3>2 DEF CallIn
  <2>3. r.pc = "have" => r.info \in Info /\ Exact(r.info, r.info.at, World') /\ Bounded(r.info, r.info.at, World')
    <3>. SUFFICES ASSUME r.pc = "have" PROVE Exact(cache, cache.at, World') /\ Bounded(cache, cache.at, World')
      BY <2>1
    <3>1. cache \in Info /\ cache.at \in Nat /\ now - cache.at < Interval
      BY <2>1 DEF Info
    <3>2. cache.at + Cycle > due.pass
      BY <1>1, <1>2, <3>1
    <3>3. CacheIn(cache, World) /\ World.pass = due.pass
      BY <1>1, <3>1, WorldFields, Idling DEF FundsInv
    <3>4. Exact(cache, cache.at, World)
      BY <3>2, <3>3 DEF CacheIn, Since
    <3>5. Exact(cache, cache.at, World')
      BY <1>7, <1>8, <3>1, <3>4 DEF Exact, Quiet, Info, Worlds, BatchType
    <3>. QED BY <1>9, <3>1, <3>5, Idling DEF CacheIn
  <2>4. PilotIn(r, World')
    BY <1>8, <2>1, <2>3 DEF PilotIn
  <2>5. Calling'
    BY <1>1, <1>5, <1>7, <2>1, <2>2, <2>4, CallStep
  <2>. QED BY <1>1, <1>5, <1>6, <1>7, <1>10, <2>5, Calm
<1>. QED BY <1>11, <1>12 DEF StartPass

\* What the autopilot decides to do, and that it has reason to.
LEMMA Decides ==
  ASSUME Types, NEW i \in Info \cup {NotFound, NoAnswer}
  PROVE  /\ Decision(i) \in {"idle", "dilute", "wallet"}
         /\ Decision(i) # "idle" => i \in Info /\ i.exists /\ i.usable
         /\ Decision(i) = "dilute" => RatioAtLeast(i, DiluteNum, DiluteDen)
         /\ Decision(i) = "wallet" => i.ttl >= 0 /\ i.ttl - (now - i.at) < MinTTL
<1>1. CASE i = NotFound \/ i = NoAnswer
  BY <1>1 DEF Decision
<1>2. CASE i \in Info /\ i # NotFound /\ i # NoAnswer
  <2>1. /\ i.ttl \in Int /\ i.at \in Nat /\ now \in Nat /\ MinTTL \in Nat /\ TargetTTL \in Nat
        /\ MaxTime \in Nat /\ MinTTL <= TargetTTL
    BY <1>2, FundsAssumption DEF Types, Info
  <2>2. ~(TTLRemaining(i) >= MinTTL) => i.ttl >= 0 /\ i.ttl - (now - i.at) < MinTTL
    BY <2>1 DEF TTLRemaining, Unbounded
  <2>. QED BY <1>2, <2>2 DEF Decision
<1>. QED BY <1>1, <1>2

\* A pass goes on with what it knows.
LEMMA EvaluateKeeps ==
  ASSUME FundsInv, Evaluate
  PROVE  FundsInv'
<1>1. /\ Types /\ Calling /\ call \in [Callers -> Call] /\ Pilot \in Callers
      /\ call[Pilot] \in Call /\ call[Pilot].pc = "have"
      /\ UNCHANGED <<now, traits, batch, cache, due, keeper, funds, spent>>
  BY DEF FundsInv, Calling, Callers, Evaluate
<1>2. Types'
  BY <1>1 DEF Types
<1>3. World \in Worlds /\ World.now = now /\ World.batch = batch /\ World.faults = spent.faults /\ World' = World
  BY <1>1, WorldFields DEF World
<1>4. Quiet(World, World')
  BY <1>3 DEF Quiet, Worlds, BatchType
<1>5. CASE End(Pilot)
  BY <1>1, <1>2, <1>4, <1>5, EndCalls
<1>6. CASE ~End(Pilot)
  <2> DEFINE i == call[Pilot].info
             r == [call[Pilot] EXCEPT !.pc = Decision(i)]
  <2>1. i \in Info \cup {NotFound, NoAnswer} /\ CallIn(call[Pilot], World) /\ PilotIn(call[Pilot], World)
    BY <1>1 DEF Calling, CallIn
  <2>2. Decision(i) # "idle" /\ call' = [call EXCEPT ![Pilot] = r]
    <3>1. call' = [call EXCEPT ![Pilot] = IF Decision(i) = "idle" THEN Idle ELSE r]
      BY DEF Evaluate
    <3>. QED BY <1>6, <3>1 DEF End
  <2>3. Decision(i) \in {"dilute", "wallet"}
    BY <1>1, <2>1, <2>2, Decides
  <2>4. r \in Call /\ r.pc = Decision(i) /\ r.info = i /\ r.for = call[Pilot].for
    BY <1>1, <2>3 DEF Call
  <2>. HIDE DEF r
  <2>5. CallIn(r, World')
    BY <1>3, <2>1, <2>3, <2>4 DEF CallIn
  <2>6. PilotIn(r, World')
    <3>1. /\ i \in Info /\ i.exists /\ r.pc = "dilute" => RatioAtLeast(i, DiluteNum, DiluteDen)
          /\ r.pc = "wallet" => i.ttl >= 0 /\ i.ttl - (now - i.at) < MinTTL
      BY <1>1, <2>1, <2>2, <2>4, Decides
    <3>2. i \in Info /\ i.exists
      BY <1>1, <2>1, <2>2, Decides
    <3>. QED BY <1>1, <1>3, <2>1, <2>3, <2>4, <3>1, <3>2 DEF PilotIn
  <2>7. Calling'
    BY <1>1, <1>2, <1>4, <2>2, <2>4, <2>5, <2>6, CallStep
  <2>8. Keeping'
    BY <1>1 DEF FundsInv, Keeping
  <2>. QED BY <1>1, <1>2, <1>4, <2>7, <2>8, Calm DEF FundsInv
<1>. QED BY <1>5, <1>6

\* What an action of the autopilot leaves true.
LEMMA ActKeeps ==
  ASSUME FundsInv, Types', Acts(World, World'), UNCHANGED <<now, traits, cache, due, keeper>>,
         End(Pilot), call[Pilot].pc # "idle"
  PROVE  FundsInv'
<1>1. /\ Types /\ Calling /\ call \in [Callers -> Call] /\ Pilot \in Callers /\ traits.autopilot
      /\ World \in Worlds /\ World' \in Worlds /\ cache \in Info \cup {NoInfo}
  BY WorldFields, WorldNext DEF FundsInv, Calling, Callers, Keeping, Types
<1>2. cache' # NoInfo => CacheIn(cache', World')
  BY <1>1, ActsKeep DEF FundsInv
<1>3. /\ call' \in [Callers -> Call] /\ call'[Pilot] = Idle
      /\ \A d \in Callers : call'[d] = Idle \/ call'[d] = call[d]
  BY <1>1, Idling DEF End
<1>4. ASSUME NEW d \in Callers PROVE CallIn(call'[d], World')
  <2>1. CASE call'[d] = Idle
    BY <2>1, Idling
  <2>2. CASE call'[d] = call[d]
    BY <1>1, <2>2, ActsKeep DEF Calling
  <2>. QED BY <1>3, <2>1, <2>2
<1>5. Calling'
  BY <1>3, <1>4, Idling DEF Calling
<1>6. Keeping'
  BY <1>1 DEF Keeping
<1>. QED BY <1>1, <1>2, <1>5, <1>6 DEF FundsInv

\* A pass that ends, and at most counts a failure or a shortage.
LEMMA Gives ==
  ASSUME Types, Short \/ Fault
  PROVE  spent' \in Spending /\ spent'.faults >= spent.faults
<1>1. spent \in Spending /\ spent.faults \in Nat
  BY DEF Types, Spending
<1>2. CASE Short
  <2>1. \A b \in BOOLEAN : [spent EXCEPT !.short = b] \in Spending /\ [spent EXCEPT !.short = b].faults = spent.faults
    BY <1>1 DEF Spending
  <2>2. spent' \in Spending /\ spent'.faults = spent.faults
    BY <1>2, <2>1, Zenon DEF Short
  <2>. QED BY <1>1, <2>2
<1>3. CASE Fault
  BY <1>1, <1>3 DEF Fault, Spending
<1>. QED BY <1>2, <1>3

LEMMA PassEnds ==
  ASSUME FundsInv, UNCHANGED <<now, traits, batch, cache, due, keeper, funds>>, Short \/ Fault, End(Pilot)
  PROVE  FundsInv'
<1>1. Types /\ Pilot \in Callers
  BY DEF FundsInv, Callers
<1>2. Types' /\ spent'.faults >= spent.faults
  BY <1>1, Gives DEF Types, Spending
<1>3. Quiet(World, World')
  BY <1>1, <1>2, WorldFields, WorldNext DEF Quiet, Types, BatchType
<1>. QED BY <1>1, <1>2, <1>3, EndCalls

\* A dilution: by one, of a batch that is as full as the autopilot believed, and at half the life.
Diluted ==
  /\ Live /\ call[Pilot].info \in Info /\ call[Pilot].info.depth = batch.depth
  /\ batch' \in BatchType /\ batch'.depth = batch.depth + 1 /\ batch'.fill = batch.fill
  /\ batch'.usable = batch.usable /\ batch'.expiry = now + ((batch.expiry - now) \div 2)
  /\ funds' \in [wallet : Nat, gas : Nat, cheque : Nat] /\ funds'.cheque = funds.cheque /\ UNCHANGED spent

\* A call to Bee that does nothing.
Fails == (Short \/ Fault) /\ UNCHANGED <<batch, funds>>

LEMMA Dilutes ==
  ASSUME FundsInv, DiluteBatch
  PROVE  Diluted \/ Fails
<1> DEFINE d == call[Pilot].info.depth
<1>1. /\ Types /\ Calling /\ Pilot \in Callers /\ call[Pilot].pc = "dilute" /\ batch.depth \in Nat
      /\ batch.expiry \in Nat /\ now \in Nat /\ batch \in BatchType
      /\ funds \in [wallet : Nat, gas : Nat, cheque : Nat]
  BY DEF FundsInv, Callers, DiluteBatch, Types, BatchType
<1>2. call[Pilot].info \in Info /\ d \in Nat /\ d <= batch.depth
  <2>1. call[Pilot].info \in Info /\ Known(call[Pilot].info, World)
    BY <1>1 DEF Calling, CallIn, PilotIn
  <2>. QED BY <1>1, <2>1, WorldFields DEF Known, Info
<1>3. CASE ~Fails
  <2>1. Live /\ funds.gas > 0 /\ d + 1 > batch.depth /\ UNCHANGED spent
    BY <1>3, Zenon DEF DiluteBatch, Fails
  <2>2. batch' = [batch EXCEPT !.depth = d + 1,
                    !.expiry = now + ((batch.expiry - now) \div 2^((d + 1) - batch.depth))]
    BY <1>3 DEF DiluteBatch, Fails
  <2>3. d = batch.depth /\ (d + 1) - batch.depth = 1
    BY <1>1, <1>2, <2>1
  <2>4. 2^1 = 2
    OBVIOUS
  <2> DEFINE e == now + ((batch.expiry - now) \div 2)
  <2>5. e \in Nat
    BY <1>1, <2>1 DEF Live
  <2>6. batch' = [batch EXCEPT !.depth = batch.depth + 1, !.expiry = e]
    BY <2>2, <2>3, <2>4
  <2>. HIDE DEF e
  <2>7. /\ batch' \in BatchType /\ batch'.depth = batch.depth + 1 /\ batch'.fill = batch.fill
        /\ batch'.usable = batch.usable /\ batch'.expiry = e
    <3>1. ASSUME NEW x \in Nat
          PROVE  LET b == [batch EXCEPT !.depth = x, !.expiry = e] IN
                 b \in BatchType /\ b.depth = x /\ b.expiry = e /\ b.fill = batch.fill /\ b.usable = batch.usable
      BY <1>1, <2>5 DEF BatchType
    <3>2. batch.depth + 1 \in Nat
      BY <1>1
    <3>. QED BY <2>6, <3>1, <3>2, Zenon
  <2>8. funds' \in [wallet : Nat, gas : Nat, cheque : Nat] /\ funds'.cheque = funds.cheque
    <3>1. funds' = [funds EXCEPT !.gas = funds.gas - 1]
      BY <1>3 DEF DiluteBatch, Fails
    <3>2. funds.gas - 1 \in Nat
      BY <1>1, <2>1
    <3>. QED BY <1>1, <3>1, <3>2
  <2>. QED BY <1>2, <2>1, <2>3, <2>7, <2>8 DEF Diluted, e
<1>. QED BY <1>3

LEMMA DiluteBatchKeeps ==
  ASSUME FundsInv, DiluteBatch
  PROVE  FundsInv'
<1>1. /\ Types /\ Calling /\ call[Pilot].pc = "dilute" /\ End(Pilot)
      /\ UNCHANGED <<now, traits, cache, due, keeper>>
  BY DEF FundsInv, DiluteBatch
<1>2. CASE Fails
  BY <1>1, <1>2, PassEnds DEF Fails
<1>3. CASE Diluted
  <2>1. Types'
    BY <1>1, <1>3 DEF Types, Diluted
  <2>2. World.pass = World.now + Cycle
    BY <1>1 DEF Calling, PilotIn
  <2>3. Acts(World, World')
    <3>1. batch.fill \in Nat /\ batch.depth \in Nat /\ spent.faults \in Nat
      BY <1>1 DEF Types, BatchType
    <3>. QED BY <1>1, <1>3, <2>1, <2>2, <3>1, WorldFields, WorldNext DEF Acts, Diluted
  <2>. QED BY <1>1, <2>1, <2>3, ActKeeps
<1>. QED BY <1>2, <1>3, Dilutes

\* A pass that found the wallet full enough goes on with what it knows.
LEMMA CheckWalletKeeps ==
  ASSUME FundsInv, CheckWallet
  PROVE  FundsInv'
<1>1. /\ Types /\ Calling /\ call \in [Callers -> Call] /\ Pilot \in Callers
      /\ call[Pilot] \in Call /\ call[Pilot].pc = "wallet"
      /\ UNCHANGED <<now, traits, batch, cache, due, keeper, funds>>
  BY DEF FundsInv, Calling, Callers, CheckWallet
<1>2. CASE End(Pilot) /\ (Short \/ Fault)
  BY <1>1, <1>2, PassEnds
<1>3. CASE call' = [call EXCEPT ![Pilot].pc = "topup"] /\ UNCHANGED spent
  <2> DEFINE r == [call[Pilot] EXCEPT !.pc = "topup"]
  <2>1. Types'
    BY <1>1, <1>3 DEF Types
  <2>2. World \in Worlds /\ World' = World
    BY <1>1, <1>3, WorldFields DEF World
  <2>3. Quiet(World, World')
    BY <2>2 DEF Quiet, Worlds, BatchType
  <2>4. r \in Call /\ r.pc = "topup" /\ r.info = call[Pilot].info /\ r.for = call[Pilot].for
    BY <1>1 DEF Call
  <2>5. call' = [call EXCEPT ![Pilot] = r]
    BY <1>1, <1>3
  <2>. HIDE DEF r
  <2>6. CallIn(r, World')
    BY <1>1, <2>2, <2>4 DEF Calling, CallIn
  <2>7. PilotIn(r, World')
    BY <1>1, <2>2, <2>4 DEF Calling, PilotIn
  <2>8. Calling'
    BY <1>1, <2>1, <2>3, <2>4, <2>5, <2>6, <2>7, CallStep
  <2>9. Keeping'
    BY <1>1 DEF FundsInv, Keeping
  <2>. QED BY <1>1, <2>1, <2>3, <2>8, <2>9, Calm DEF FundsInv
<1>. QED BY <1>2, <1>3 DEF CheckWallet

\* A top-up: for as many blocks as the autopilot believes to be missing.
ToppedUp ==
  LET i == call[Pilot].info
      blocks == TargetTTL - (i.ttl - (now - i.at)) + 1
  IN  /\ Live /\ i \in Info /\ i.ttl >= 0 /\ blocks \in Nat
      /\ batch' \in BatchType /\ batch'.depth = batch.depth /\ batch'.fill = batch.fill
      /\ batch'.usable = batch.usable /\ batch'.expiry = batch.expiry + blocks
      /\ funds' \in [wallet : Nat, gas : Nat, cheque : Nat] /\ funds'.cheque = funds.cheque /\ UNCHANGED spent

LEMMA TopsUp ==
  ASSUME FundsInv, TopupBatch
  PROVE  ToppedUp \/ Fails
<1> DEFINE i == call[Pilot].info
           blocks == Blocks(i)
           cost == blocks * 2^batch.depth
<1>1. /\ Types /\ Calling /\ call[Pilot].pc = "topup" /\ batch \in BatchType /\ batch.depth \in Nat
      /\ batch.expiry \in Nat /\ now \in Nat /\ funds \in [wallet : Nat, gas : Nat, cheque : Nat]
      /\ funds.wallet \in Nat /\ funds.gas \in Nat
  BY DEF FundsInv, TopupBatch, Types, BatchType
<1>2. i \in Info /\ i.ttl \in Nat /\ i.at \in Nat /\ i.ttl - (now - i.at) < MinTTL
  BY <1>1, WorldFields DEF Calling, PilotIn, Info
<1>3. blocks = TargetTTL - (i.ttl - (now - i.at)) + 1 /\ blocks \in Nat
  <2>1. TargetTTL \in Nat /\ MinTTL \in Nat /\ MinTTL <= TargetTTL
    BY FundsAssumption
  <2>. QED BY <1>1, <1>2, <2>1 DEF Blocks, TTLRemaining
<1>4. cost \in Int
  BY <1>1, <1>3
<1>5. CASE ~Fails
  <2>1. Live /\ funds.gas > 0 /\ funds.wallet >= cost /\ UNCHANGED spent
    BY <1>5, Zenon DEF TopupBatch, Fails
  <2>2. batch' = [batch EXCEPT !.expiry = batch.expiry + blocks]
    BY <1>5 DEF TopupBatch, Fails
  <2>3. funds' = [funds EXCEPT !.wallet = funds.wallet - cost, !.gas = funds.gas - 1]
    BY <1>5 DEF TopupBatch, Fails
  <2>4. funds.wallet - cost \in Nat /\ funds.gas - 1 \in Nat /\ batch.expiry + blocks \in Nat
    BY <1>1, <1>3, <1>4, <2>1
  <2>. HIDE DEF i, blocks, cost
  <2>5. /\ batch' \in BatchType /\ batch'.depth = batch.depth /\ batch'.fill = batch.fill
        /\ batch'.usable = batch.usable /\ batch'.expiry = batch.expiry + blocks
    BY <1>1, <2>2, <2>4 DEF BatchType
  <2>6. funds' \in [wallet : Nat, gas : Nat, cheque : Nat] /\ funds'.cheque = funds.cheque
    BY <1>1, <2>3, <2>4
  <2>. QED BY <1>2, <1>3, <2>1, <2>5, <2>6 DEF ToppedUp, i
<1>. QED BY <1>5

LEMMA TopupBatchKeeps ==
  ASSUME FundsInv, TopupBatch
  PROVE  FundsInv'
<1>1. /\ Types /\ Calling /\ call[Pilot].pc = "topup" /\ End(Pilot)
      /\ UNCHANGED <<now, traits, cache, due, keeper>>
  BY DEF FundsInv, TopupBatch
<1>2. CASE Fails
  BY <1>1, <1>2, PassEnds DEF Fails
<1>3. CASE ToppedUp
  <2>1. Types'
    BY <1>1, <1>3 DEF Types, ToppedUp
  <2>2. World.pass = World.now + Cycle
    BY <1>1 DEF Calling, PilotIn
  <2>3. Acts(World, World')
    <3>1. batch.fill \in Nat /\ batch.depth \in Nat /\ batch.expiry \in Nat /\ spent.faults \in Nat
      BY <1>1 DEF Types, BatchType
    <3>2. batch'.expiry >= batch.expiry /\ batch'.depth = batch.depth /\ batch'.fill = batch.fill /\ UNCHANGED spent
      BY <1>3, <3>1 DEF ToppedUp
    <3>. QED BY <1>1, <2>1, <2>2, <3>1, <3>2, WorldFields, WorldNext DEF Acts
  <2>. QED BY <1>1, <2>1, <2>3, ActKeeps
<1>. QED BY <1>2, <1>3, TopsUp

\* A step of the keeper, or of the world, that leaves the calls and the batch's life alone.
LEMMA Apart ==
  ASSUME FundsInv, Types', UNCHANGED <<now, traits, cache, call, due>>, spent'.faults >= spent.faults,
         batch'.depth = batch.depth, batch'.fill = batch.fill, batch'.expiry = batch.expiry, Keeping'
  PROVE  FundsInv'
<1>1. Types /\ Calling
  BY DEF FundsInv
<1>2. Quiet(World, World')
  BY <1>1, WorldFields, WorldNext DEF Quiet, Types, BatchType
<1>3. Calling'
  BY <1>1, <1>2, CallSame
<1>. QED BY <1>2, <1>3, Calm DEF FundsInv

LEMMA ChequebookBalanceKeeps ==
  ASSUME FundsInv, ChequebookBalance
  PROVE  FundsInv'
<1>1. Types /\ UNCHANGED <<now, traits, batch, cache, call, due, funds, spent>>
      /\ funds.cheque < ChequeMin /\ keeper' = [pc |-> "wallet", need |-> Need]
  BY DEF FundsInv, ChequebookBalance
<1>2. Need \in Nat
  BY <1>1, FundsAssumption DEF Need, Types
<1>3. Types' /\ spent'.faults >= spent.faults
  BY <1>1, <1>2 DEF Types
<1>4. Keeping'
  BY <1>1 DEF FundsInv, Keeping
<1>. QED BY <1>1, <1>3, <1>4, Apart

\* The keeper means to deposit at most what is above the reserve.
LEMMA WalletBalanceKeeps ==
  ASSUME FundsInv, WalletBalance
  PROVE  FundsInv'
<1>1. Types /\ UNCHANGED <<now, traits, batch, cache, call, due, funds>> /\ spent \in Spending
  BY DEF FundsInv, WalletBalance, Types, Spending
<1>2. spent' \in Spending /\ spent'.faults >= spent.faults
  BY <1>1 DEF WalletBalance, Fault, Spending
<1>3. /\ keeper' \in [pc : {"idle", "wallet", "deposit"}, need : Nat]
      /\ keeper'.pc = "deposit" => keeper'.need <= funds.wallet - Reserve
  <2>1. keeper.need \in Nat /\ funds.wallet \in Nat /\ Reserve \in Nat
    BY <1>1, FundsAssumption DEF Types
  <2> DEFINE need == IF keeper.need > Depositable THEN Depositable ELSE keeper.need
  <2>2. need <= funds.wallet - Reserve /\ need \in Int
    BY <2>1 DEF Depositable
  <2>. HIDE DEF need
  <2>3. CASE keeper' = [pc |-> "deposit", need |-> need] /\ need > 0
    <3>1. need \in Nat
      BY <2>2, <2>3
    <3>. QED BY <2>2, <2>3, <3>1
  <2>4. CASE keeper' = [pc |-> "idle", need |-> 0]
    BY <2>4
  <2>. QED BY <2>3, <2>4 DEF WalletBalance, need
<1>4. Types'
  BY <1>1, <1>2, <1>3 DEF Types, Spending
<1>5. Keeping'
  BY <1>1, <1>3 DEF FundsInv, Keeping
<1>. QED BY <1>1, <1>2, <1>4, <1>5, Apart

LEMMA ChequebookDepositKeeps ==
  ASSUME FundsInv, ChequebookDeposit
  PROVE  FundsInv'
<1>1. Types /\ UNCHANGED <<now, traits, batch, cache, call, due>> /\ spent \in Spending
      /\ keeper' = [pc |-> "idle", need |-> 0]
  BY DEF FundsInv, ChequebookDeposit, Types, Spending
<1>2. spent' \in Spending /\ spent'.faults >= spent.faults
  BY <1>1 DEF ChequebookDeposit, Fault, Spending
<1>3. funds' \in [wallet : Nat, gas : Nat, cheque : Nat]
  <2>1. keeper.need \in Nat /\ funds.wallet \in Nat /\ funds.gas \in Nat /\ funds.cheque \in Nat
        /\ funds \in [wallet : Nat, gas : Nat, cheque : Nat]
    BY <1>1 DEF Types
  <2>2. CASE funds' = funds
    BY <2>1, <2>2
  <2>3. CASE /\ funds.gas > 0 /\ funds.wallet >= keeper.need
             /\ funds' = [wallet |-> funds.wallet - keeper.need, gas |-> funds.gas - 1,
                          cheque |-> funds.cheque + keeper.need]
    <3>1. funds.wallet - keeper.need \in Nat /\ funds.gas - 1 \in Nat /\ funds.cheque + keeper.need \in Nat
      BY <2>1, <2>3
    <3>. QED BY <2>3, <3>1
  <2>. QED BY <2>2, <2>3 DEF ChequebookDeposit
<1>4. Types'
  BY <1>1, <1>2, <1>3 DEF Types, Spending
<1>5. Keeping'
  BY <1>1 DEF FundsInv, Keeping
<1>. QED BY <1>1, <1>2, <1>4, <1>5, Apart

LEMMA IssueKeeps ==
  ASSUME FundsInv, Issue
  PROVE  FundsInv'
<1>1. Types /\ UNCHANGED <<now, traits, batch, cache, call, due, keeper>>
  BY DEF FundsInv, Issue
<1>2. Types' /\ spent'.faults >= spent.faults /\ funds'.wallet = funds.wallet
  BY <1>1 DEF Issue, Types
<1>3. Keeping'
  BY <1>1, <1>2 DEF FundsInv, Keeping
<1>. QED BY <1>1, <1>2, <1>3, Apart

LEMMA MatureKeeps ==
  ASSUME FundsInv, Mature
  PROVE  FundsInv'
<1>1. Types /\ UNCHANGED <<now, traits, cache, call, due, keeper, funds, spent>> /\ batch \in BatchType
  BY DEF FundsInv, Mature, Types
<1>2. /\ batch' \in BatchType /\ batch'.depth = batch.depth /\ batch'.fill = batch.fill
      /\ batch'.expiry = batch.expiry
  <2>1. ASSUME NEW u \in BOOLEAN
        PROVE  LET b == [batch EXCEPT !.usable = u] IN
               b \in BatchType /\ b.depth = batch.depth /\ b.fill = batch.fill /\ b.expiry = batch.expiry
    BY <1>1 DEF BatchType
  <2>2. batch' = [batch EXCEPT !.usable = TRUE]
    BY DEF Mature
  <2>. QED BY <2>1, <2>2, Zenon
<1>3. Types' /\ spent'.faults >= spent.faults
  BY <1>1, <1>2 DEF Types
<1>4. Keeping'
  BY <1>1 DEF FundsInv, Keeping
<1>. QED BY <1>1, <1>2, <1>3, <1>4, Apart

\* Time passes only while nothing is asked or answered.
LEMMA ElapseKeeps ==
  ASSUME FundsInv, Elapse
  PROVE  FundsInv'
<1>1. /\ Types /\ Calling /\ call \in [Callers -> Call] /\ Pilot \in Callers /\ now' = now + 1
      /\ UNCHANGED <<traits, batch, cache, call, due, keeper, funds, spent>>
  BY DEF FundsInv, Calling, Callers, Elapse
<1>2. Types'
  BY <1>1 DEF Types
<1>3. World \in Worlds /\ World' \in Worlds /\ Ticks(World, World')
  BY <1>1, <1>2, WorldFields, WorldNext DEF Ticks
<1>4. call[Pilot].pc = "idle" /\ (traits.autopilot => now' <= due'.pass)
  <2>1. traits.autopilot => now < due.pass /\ call[Pilot].pc = "idle"
    BY DEF Elapse
  <2>2. now \in Nat /\ due.pass \in Nat
    BY <1>1 DEF Types
  <2>. QED BY <1>1, <2>1, <2>2 DEF FundsInv, Keeping
<1>5. cache' # NoInfo => CacheIn(cache', World')
  BY <1>1, <1>3, TicksKeep DEF FundsInv, Types
<1>6. ASSUME NEW c \in Callers PROVE CallIn(call[c], World')
  BY <1>1, <1>3, TicksKeep DEF Calling, Elapse
<1>7. PilotIn(call[Pilot], World')
  BY <1>1, <1>3, <1>4, TicksKeep
<1>8. Calling'
  BY <1>1, <1>6, <1>7 DEF Calling
<1>9. Keeping'
  BY <1>1 DEF FundsInv, Keeping
<1>. QED BY <1>1, <1>2, <1>4, <1>5, <1>8, <1>9 DEF FundsInv

\* Nothing has been asked yet, and what main cached is the batch as it is.
LEMMA InitKeeps ==
  ASSUME Init
  PROVE  FundsInv
<1>1. PICK b \in Batches, u \in BOOLEAN :
        batch = [usable |-> u, expiry |-> b.expiry, depth |-> b.depth, fill |-> b.fill]
  BY DEF Init
<1>2. /\ batch \in BatchType /\ batch.usable \in BOOLEAN /\ batch.expiry \in Nat
      /\ batch.depth \in Nat /\ batch.fill \in Nat
  BY <1>1, FundsAssumption DEF BatchType
<1>3. now = 0 /\ spent.faults = 0 /\ due.pass = 0 /\ Interval \in Nat /\ Cycle \in Nat \ {0}
  BY FundsAssumption DEF Init
<1>4. cache \in Info \cup {NoInfo} /\ (cache # NoInfo => cache = FetchedAt(Observed, 0))
  <2>1. Observed \in Stamp
    BY <1>2, <1>3 DEF Observed, Stamp
  <2>2. FetchedAt(Observed, 0) \in Info
    BY <2>1 DEF FetchedAt, Stamp, Info
  <2>. QED BY <2>2 DEF Init
<1>5. Types
  <2>1. now \in Nat /\ due \in [sweep : Nat, pass : Nat]
    BY <1>3 DEF Init
  <2>2. traits \in [own : BOOLEAN, immutable : BOOLEAN, autopilot : BOOLEAN, warm : BOOLEAN, depth : Nat]
    <3>1. traits \in [own : BOOLEAN, immutable : BOOLEAN, autopilot : BOOLEAN,
                      warm : {cache # NoInfo /\ batch.usable}, depth : {batch.depth}]
      BY DEF Init
    <3>2. (cache # NoInfo /\ batch.usable) \in BOOLEAN
      BY <1>2
    <3>. QED BY <1>2, <3>1, <3>2
  <2>3. keeper \in [pc : {"idle", "wallet", "deposit"}, need : Nat]
    BY DEF Init
  <2>4. funds \in [wallet : Nat, gas : Nat, cheque : Nat]
    BY FundsAssumption DEF Init
  <2>5. spent \in [puts : Nat, faults : Nat, cheques : Nat, short : BOOLEAN]
    BY DEF Init
  <2>. QED BY <1>2, <1>4, <2>1, <2>2, <2>3, <2>4, <2>5 DEF Types
<1>6. Pilot \in Callers /\ call = [c \in Callers |-> Idle]
  BY DEF Callers, Init
<1>7. Calling
  BY <1>6, Idling DEF Calling
<1>8. cache # NoInfo => CacheIn(cache, World)
  <2>. SUFFICES ASSUME cache # NoInfo PROVE CacheIn(cache, World)
    OBVIOUS
  <2>1. /\ cache.at = 0 /\ cache.ttl = batch.expiry - now /\ cache.depth = batch.depth
        /\ cache.fill = batch.fill
    BY <1>4 DEF FetchedAt, Observed
  <2>2. World.now = 0 /\ World.batch = batch
    BY <1>3, <1>5, WorldFields
  <2>. QED BY <1>2, <1>3, <2>1, <2>2 DEF CacheIn, Known, Bounded, Exact
<1>9. Keeping
  BY <1>6, Idling DEF Keeping, Init
<1>. QED BY <1>3, <1>5, <1>7, <1>8, <1>9 DEF FundsInv

\* Nothing changes, nothing becomes false.
LEMMA FundsStutter ==
  ASSUME FundsInv, UNCHANGED vars
  PROVE  FundsInv'
<1>1. UNCHANGED <<now, traits, batch, cache, call, due, keeper, funds, spent>>
  BY DEF vars
<1>2. World' = World
  BY <1>1 DEF World
<1>. QED BY <1>1, <1>2 DEF FundsInv, Types, Calling, Keeping

LEMMA NextKeeps ==
  ASSUME FundsInv, [Next]_vars
  PROVE  FundsInv'
<1>1. CASE UNCHANGED vars
  BY <1>1, FundsStutter
<1>2. ASSUME NEW c \in Callers, Answer(c) \/ Receive(c) PROVE FundsInv'
  BY <1>2, AnswerKeeps, ReceiveKeeps
<1>3. ASSUME NEW p \in Puts, StartPut(p) \/ Check(p) \/ Upload(p) PROVE FundsInv'
  BY <1>3, StartPutKeeps, CheckKeeps, UploadKeeps
<1>4. CASE StartSweep
  BY <1>4, StartSweepKeeps
<1>5. CASE StartPass \/ Evaluate \/ DiluteBatch \/ CheckWallet \/ TopupBatch
  BY <1>5, StartPassKeeps, EvaluateKeeps, DiluteBatchKeeps, CheckWalletKeeps, TopupBatchKeeps
<1>6. CASE ChequebookBalance \/ WalletBalance \/ ChequebookDeposit
  BY <1>6, ChequebookBalanceKeeps, WalletBalanceKeeps, ChequebookDepositKeeps
<1>7. CASE Elapse \/ Issue \/ Mature
  BY <1>7, ElapseKeeps, IssueKeeps, MatureKeeps
<1>. QED BY <1>1, <1>2, <1>3, <1>4, <1>5, <1>6, <1>7 DEF Next

(***************************************************************************)
(* The theorems.                                                           *)
(***************************************************************************)
\* FundsInv holds of everything the manager, the autopilot and the keeper do.
THEOREM FundsSafe == Spec => []FundsInv
<1>1. Init => FundsInv
  BY InitKeeps
<1>2. FundsInv /\ [Next]_vars => FundsInv'
  BY NextKeeps
<1>. QED BY <1>1, <1>2, PTL DEF Spec

\* Every variable keeps its type; no wallet is overdrawn and no deposit is negative.
THEOREM NeverOverdrawn == Spec => []TypeOK
<1>1. FundsInv => TypeOK
  BY DEF FundsInv, Types, Calling, TypeOK, BatchType
<1>. QED BY <1>1, FundsSafe, PTL

\* What uploads are told of a batch's remaining life is never more than it is (TTLRemaining).
THEOREM NeverOverstated == Spec => []EstimateHolds
<1>1. ASSUME FundsInv PROVE EstimateHolds
  <2>. SUFFICES ASSUME cache # NoInfo, cache.exists, cache.depth = batch.depth, cache.ttl >= 0
               PROVE  TTLRemaining(cache) <= batch.expiry - now
    BY DEF EstimateHolds
  <2>1. Types /\ cache \in Info /\ CacheIn(cache, World)
    BY <1>1 DEF FundsInv, Types
  <2>2. cache.ttl \in Int /\ cache.at \in Nat /\ now \in Nat /\ batch.expiry \in Nat
    BY <2>1 DEF Types, BatchType, Info
  <2>3. cache.ttl + cache.at <= batch.expiry
    BY <2>1, WorldFields DEF CacheIn, Bounded
  <2>. QED BY <2>2, <2>3 DEF TTLRemaining
<1>. QED BY <1>1, FundsSafe, PTL

\* More of one factor is more of the product.
LEMMA TimesGrows ==
  ASSUME NEW a \in Nat, NEW b \in Nat, NEW c \in Nat, b <= c
  PROVE  a * b <= a * c
<1>1. c = b + (c - b) /\ c - b \in Nat
  OBVIOUS
<1>2. a * c = a * b + a * (c - b)
  BY <1>1
<1>3. a * (c - b) \in Nat /\ a * b \in Nat
  BY <1>1
<1>4. a * c \in Nat
  OBVIOUS
<1>. QED BY <1>2, <1>3, <1>4

\* Which steps change the batch's depth, its life and the chequebook.
LEMMA Changes ==
  ASSUME FundsInv, [Next]_vars
  PROVE  /\ batch'.depth # batch.depth => DiluteBatch /\ Diluted
         /\ batch'.expiry # batch.expiry => (DiluteBatch /\ Diluted) \/ (TopupBatch /\ ToppedUp)
         /\ funds'.cheque > funds.cheque => ChequebookDeposit
<1>1. /\ Types /\ batch \in BatchType /\ funds \in [wallet : Nat, gas : Nat, cheque : Nat]
      /\ funds.cheque \in Nat
  BY DEF FundsInv, Types
<1>2. ~(funds.cheque > funds.cheque)
  BY <1>1
<1>3. ASSUME UNCHANGED <<batch, funds>> PROVE ~(batch'.depth # batch.depth) /\ ~(batch'.expiry # batch.expiry)
                                             /\ ~(funds'.cheque > funds.cheque)
  BY <1>2, <1>3
<1>4. CASE UNCHANGED vars
  BY <1>3, <1>4 DEF vars
<1>5. ASSUME NEW c \in Callers, Answer(c) \/ Receive(c) PROVE UNCHANGED <<batch, funds>>
  BY <1>5 DEF Answer, Receive
<1>6. ASSUME NEW p \in Puts, StartPut(p) \/ Check(p) PROVE UNCHANGED <<batch, funds>>
  BY <1>6 DEF StartPut, Check
<1>7. ASSUME NEW p \in Puts, Upload(p)
      PROVE  batch'.depth = batch.depth /\ batch'.expiry = batch.expiry /\ UNCHANGED funds
  <2>1. UNCHANGED funds
    BY <1>7 DEF Upload
  <2>2. CASE batch' = batch
    BY <2>1, <2>2
  <2>3. CASE batch' = [batch EXCEPT !.fill = IF batch.fill < Capacity(batch.depth) THEN batch.fill + 1 ELSE batch.fill]
    BY <1>1, <2>1, <2>3 DEF BatchType
  <2>. QED BY <1>7, <2>2, <2>3 DEF Upload
<1>8. CASE StartSweep \/ StartPass \/ Evaluate \/ CheckWallet \/ ChequebookBalance \/ WalletBalance \/ Elapse
  <2>1. UNCHANGED <<batch, funds>>
    BY <1>8 DEF StartSweep, StartPass, Evaluate, CheckWallet, ChequebookBalance, WalletBalance, Elapse
  <2>. QED BY <1>3, <2>1
<1>9. CASE DiluteBatch
  <2>1. CASE Fails
    BY <1>3, <2>1 DEF Fails
  <2>2. CASE Diluted
    <3>1. funds'.cheque = funds.cheque
      BY <2>2 DEF Diluted
    <3>. QED BY <1>2, <1>9, <2>2, <3>1
  <2>. QED BY <1>9, <2>1, <2>2, Dilutes
<1>10. CASE TopupBatch
  <2>1. CASE Fails
    BY <1>3, <2>1 DEF Fails
  <2>2. CASE ToppedUp
    <3>1. funds'.cheque = funds.cheque /\ batch'.depth = batch.depth
      BY <2>2 DEF ToppedUp
    <3>. QED BY <1>2, <1>10, <2>2, <3>1
  <2>. QED BY <1>10, <2>1, <2>2, TopsUp
<1>11. CASE ChequebookDeposit
  <2>1. UNCHANGED batch
    BY <1>11 DEF ChequebookDeposit
  <2>. QED BY <1>11, <2>1
<1>12. CASE Issue
  <2>1. UNCHANGED batch /\ funds' = [funds EXCEPT !.cheque = funds.cheque - 1]
    BY <1>12 DEF Issue
  <2>2. ~(funds'.cheque > funds.cheque)
    BY <1>1, <2>1
  <2>. QED BY <2>1, <2>2
<1>13. CASE Mature
  <2>1. UNCHANGED funds /\ batch' = [batch EXCEPT !.usable = TRUE]
    BY <1>13 DEF Mature
  <2>2. batch'.depth = batch.depth /\ batch'.expiry = batch.expiry
    BY <1>1, <2>1 DEF BatchType
  <2>. QED BY <1>2, <2>1, <2>2
<1>14. CASE Next
  BY <1>2, <1>3, <1>5, <1>6, <1>7, <1>8, <1>9, <1>10, <1>11, <1>12, <1>13, <1>14 DEF Next
<1>. QED BY <1>4, <1>14

\* A batch is diluted by one, and only while it is as full as diluteAt says: the copy the
\* autopilot decided on has the batch's depth, and no more chunks.
THEOREM DilutionJustified == Spec => DilutedWhenFull
<1>1. ASSUME FundsInv, [Next]_vars, batch'.depth # batch.depth
      PROVE  /\ batch'.depth = batch.depth + 1
             /\ DiluteDen * batch.fill >= DiluteNum * Capacity(batch.depth)
  <2> DEFINE i == call[Pilot].info
  <2>1. Types /\ Calling /\ Pilot \in Callers /\ Diluted /\ DiluteBatch
    BY <1>1, Changes DEF FundsInv, Callers
  <2>2. i \in Info /\ i.depth = batch.depth /\ batch'.depth = batch.depth + 1
    BY <2>1 DEF Diluted
  <2>3. RatioAtLeast(i, DiluteNum, DiluteDen) /\ Known(i, World)
    BY <2>1, <2>2 DEF DiluteBatch, Calling, PilotIn, CallIn
  <2>4. /\ i.fill \in Nat /\ batch.fill \in Nat /\ i.fill <= batch.fill /\ DiluteDen \in Nat
        /\ DiluteNum \in Nat /\ batch.depth \in Nat /\ BucketDepth \in Nat
    BY <2>1, <2>2, <2>3, WorldFields, FundsAssumption DEF Types, BatchType, Info, Known
  <2>5. DiluteDen * i.fill >= DiluteNum * Capacity(batch.depth)
    BY <2>2, <2>3 DEF RatioAtLeast
  <2>6. DiluteDen * i.fill <= DiluteDen * batch.fill
    BY <2>4, TimesGrows
  <2>7. DiluteDen * i.fill \in Int /\ DiluteDen * batch.fill \in Int /\ DiluteNum * Capacity(batch.depth) \in Int
    BY <2>4 DEF Capacity
  <2>. HIDE DEF i
  <2>. QED BY <2>2, <2>5, <2>6, <2>7
<1>2. FundsInv /\ [Next]_vars =>
        [batch'.depth # batch.depth => /\ batch'.depth = batch.depth + 1
                                       /\ DiluteDen * batch.fill >= DiluteNum * Capacity(batch.depth)]_vars
  BY <1>1
<1>. QED BY <1>2, FundsSafe, PTL DEF Spec, DilutedWhenFull

\* A top-up makes good what is missing and no more, unless a fetch failed: what the autopilot
\* knows tells of all the life the batch has.
THEOREM NeverToppedUpTwice == Spec => ToppedUpOnce
<1>1. ASSUME FundsInv, [Next]_vars, batch'.expiry > batch.expiry, spent.faults = 0
      PROVE  batch'.expiry - now <= TargetTTL + 1
  <2> DEFINE i == call[Pilot].info
  <2>1. /\ Types /\ Calling /\ now \in Nat /\ batch.expiry \in Nat /\ TargetTTL \in Nat
        /\ World.now = now /\ World.batch = batch /\ World.faults = 0
    BY <1>1, FundsAssumption, WorldFields DEF FundsInv, Types, BatchType
  <2>2. (DiluteBatch /\ Diluted) \/ (TopupBatch /\ ToppedUp)
    BY <1>1, <2>1, Changes
  <2>3. ~Diluted
    <3>1. ASSUME Diluted PROVE FALSE
      <4>1. batch'.expiry = now + ((batch.expiry - now) \div 2) /\ now < batch.expiry
        BY <3>1 DEF Diluted, Live
      <4>2. (batch.expiry - now) \div 2 <= batch.expiry - now
        BY <2>1, <4>1
      <4>. QED BY <1>1, <2>1, <4>1, <4>2
    <3>. QED BY <3>1
  <2>4. call[Pilot].pc = "topup" /\ now < batch.expiry /\ i \in Info /\ i.ttl \in Int /\ i.at \in Nat
        /\ batch'.expiry = batch.expiry + (TargetTTL - (i.ttl - (now - i.at)) + 1)
    BY <2>2, <2>3 DEF TopupBatch, ToppedUp, Live, Info
  <2>5. Exact(i, i.at, World)
    BY <2>1, <2>4 DEF Calling, PilotIn
  <2>6. i.ttl + i.at >= batch.expiry
    BY <2>1, <2>5 DEF Exact
  <2>. HIDE DEF i
  <2>. QED BY <2>1, <2>4, <2>6
<1>2. FundsInv /\ [Next]_vars =>
        [batch'.expiry > batch.expiry /\ spent.faults = 0 => batch'.expiry - now <= TargetTTL + 1]_vars
  BY <1>1
<1>. QED BY <1>2, FundsSafe, PTL DEF Spec, ToppedUpOnce

\* Without an autopilot nothing is spent between the keeper's look at the wallet and its
\* deposit, so that a deposit leaves the reserve (WalletBalance, ChequebookDeposit).
THEOREM ReserveKept == Spec => ReserveWithoutPilot
<1>1. ASSUME FundsInv, [Next]_vars, funds'.cheque > funds.cheque, ~traits.autopilot
      PROVE  funds'.wallet >= Reserve
  <2>1. /\ ChequebookDeposit /\ funds.wallet \in Nat /\ funds.cheque \in Nat /\ Reserve \in Nat
        /\ keeper.need \in Nat
    BY <1>1, Changes, FundsAssumption DEF FundsInv, Types
  <2>2. keeper.need <= funds.wallet - Reserve
    BY <1>1, <2>1 DEF FundsInv, Keeping, ChequebookDeposit
  <2>3. funds' # funds
    BY <1>1, <2>1
  <2>4. funds'.wallet = funds.wallet - keeper.need
    BY <2>1, <2>3 DEF ChequebookDeposit
  <2>. QED BY <2>1, <2>2, <2>4
<1>2. FundsInv /\ [Next]_vars =>
        [funds'.cheque > funds.cheque /\ ~traits.autopilot => funds'.wallet >= Reserve]_vars
  BY <1>1
<1>. QED BY <1>2, FundsSafe, PTL DEF Spec, ReserveWithoutPilot

(***************************************************************************)
(* Keeping a batch alive.                                                  *)
(***************************************************************************)
\* The thresholds leave room for a dilution (30 days and an hour, say), and no batch is about
\* to expire when the gateway starts.
Patience ==
  /\ MinTTL >= 3 * Cycle + 2
  /\ \A b \in Batches : b.expiry >= 2 * Cycle + 2

\* Once the premise fails it never holds again.
LEMMA KeptBefore ==
  ASSUME FundsInv, [Next]_vars, Kept'
  PROVE  Kept /\ traits' = traits /\ spent'.faults = 0 /\ spent'.short = FALSE
<1>1. Types /\ traits.depth \in Nat /\ batch.depth \in Nat /\ spent \in Spending /\ spent.faults \in Nat
      /\ spent.short \in BOOLEAN
  BY DEF FundsInv, Types, BatchType, Spending
<1>2. traits' = traits /\ spent'.faults = 0 /\ ~spent'.short /\ batch'.depth <= traits.depth + 1
  <2>1. traits' = traits
    BY DEF Next, vars, Answer, Receive, StartPut, Check, Upload, StartSweep, StartPass, Evaluate, DiluteBatch,
           CheckWallet, TopupBatch, ChequebookBalance, WalletBalance, ChequebookDeposit, Elapse, Issue, Mature
  <2>. QED BY <2>1 DEF Kept
<1>3. batch.depth <= batch'.depth /\ batch'.depth \in Nat
  <2>1. batch'.depth = batch.depth \/ batch'.depth = batch.depth + 1
    BY Changes DEF Diluted
  <2>. QED BY <1>1, <2>1
<1>4. spent.faults <= spent'.faults /\ (spent.short => spent'.short)
  <2>1. /\ Fault => spent'.faults = spent.faults + 1 /\ spent'.short = spent.short
        /\ Short => spent'.faults = spent.faults /\ spent'.short
        /\ UNCHANGED spent => spent'.faults = spent.faults /\ spent'.short = spent.short
    BY <1>1 DEF Fault, Short, Spending
  <2>2. CASE Fault \/ Short \/ UNCHANGED spent
    BY <1>1, <2>1, <2>2
  <2>3. CASE Issue \/ \E p \in Puts : StartPut(p)
    BY <1>1, <2>3 DEF Issue, StartPut, Spending
  <2>. QED BY <2>2, <2>3
       DEF Next, vars, Answer, Receive, Check, Upload, StartSweep, StartPass, Evaluate, DiluteBatch,
           CheckWallet, TopupBatch, ChequebookBalance, WalletBalance, ChequebookDeposit, Elapse, Mature
<1>. QED BY <1>1, <1>2, <1>3, <1>4 DEF Kept

\* The autopilot has run into nothing.
LEMMA NoFailure ==
  ASSUME Types, spent'.faults = 0, spent'.short = FALSE
  PROVE  ~Fault /\ ~Short
<1>1. spent \in Spending /\ spent.faults \in Nat
  BY DEF Types, Spending
<1>2. Fault => spent'.faults = spent.faults + 1
  BY <1>1 DEF Fault, Spending
<1>3. Short => spent'.short = TRUE
  BY <1>1 DEF Short, Spending
<1>. QED BY <1>1, <1>2, <1>3

\* A batch in use lives: until the next pass, at least.
LEMMA AliveLives ==
  ASSUME FundsInv, Kept, Alive
  PROVE  Live
<1>1. /\ now \in Nat /\ due.pass \in Nat /\ batch.expiry \in Nat /\ Cycle \in Nat /\ now <= due.pass
  BY FundsAssumption DEF FundsInv, Types, BatchType, Kept
<1>2. Margin \in Nat
  BY <1>1 DEF Margin
<1>3. CASE call[Pilot].pc # "idle"
  BY <1>1, <1>2, <1>3 DEF Alive, Lasting, Live
<1>4. CASE call[Pilot].pc = "idle" /\ due.pass = 0
  BY <1>1, <1>4 DEF Alive, Lasting, Live
<1>5. CASE call[Pilot].pc = "idle" /\ due.pass # 0
  BY <1>1, <1>2, <1>5 DEF Alive, Lasting, Live
<1>. QED BY <1>3, <1>4, <1>5

\* A step that changes neither the batch's life nor whether a pass is under way.
LEMMA LastingSame ==
  ASSUME Lasting, UNCHANGED traits, batch'.depth = batch.depth, batch'.expiry = batch.expiry,
         due'.pass = due.pass, call'[Pilot].pc = "idle" <=> call[Pilot].pc = "idle",
         now' = now \/ call[Pilot].pc = "idle"
  PROVE  Lasting'
<1>1. Margin' = Margin
  BY DEF Margin
<1>. QED BY <1>1 DEF Lasting

\* A step of one caller leaves what all others know as good as it was.
LEMMA GoodStep ==
  ASSUME call \in [Callers -> Call], NEW c \in Callers, NEW r, call' = [call EXCEPT ![c] = r], Good(r),
         \A d \in Callers : Good(call[d])
  PROVE  /\ \A d \in Callers : Good(call'[d])
         /\ \A d \in Callers : d # c => call'[d] = call[d]
         /\ call'[c] = r
OBVIOUS

LEMMA GoodIdle == Good(Idle)
BY Idling DEF Good

\* What holds when a step of the argument begins.
LEMMA AliveFacts ==
  ASSUME FundsInv, Kept, Alive
  PROVE  /\ Types /\ Calling /\ call \in [Callers -> Call] /\ Pilot \in Callers /\ Sound /\ Lasting
         /\ \A c \in Callers : Good(call[c])
         /\ now \in Nat /\ due.pass \in Nat /\ batch.expiry \in Nat /\ batch.depth \in Nat
         /\ traits.depth \in Nat /\ Cycle \in Nat /\ cache \in Info /\ spent.faults = 0
         /\ now < batch.expiry
BY AliveLives, FundsAssumption DEF FundsInv, Types, BatchType, Calling, Callers, Alive, Sound, Kept, Live

LEMMA AnswerAlive ==
  ASSUME FundsInv, Kept, Alive, spent'.faults = 0, NEW c \in Callers, Answer(c)
  PROVE  Alive'
<1>1. /\ Types /\ Calling /\ call \in [Callers -> Call] /\ Pilot \in Callers /\ Sound /\ Lasting
      /\ \A d \in Callers : Good(call[d]) /\ Live /\ call[c].pc = "ask" /\ call[c] \in Call
      /\ UNCHANGED <<now, traits, batch, cache, due>>
  BY AliveFacts, AliveLives DEF Answer
<1>2. PICK g \in Stamp \cup {NotFound, NoAnswer} : AnswerWith(c, g) /\ Told(g)
  BY <1>1, Answers
<1>3. g \in Stamp /\ g.exists /\ g.usable
  BY <1>1, <1>2 DEF Told, Sound
<1> DEFINE r == [call[c] EXCEPT !.pc = "answered", !.got = g]
<1>4. r.pc = "answered" /\ r.got = g /\ r.info = call[c].info
  BY <1>1 DEF Call
<1>5. call' = [call EXCEPT ![c] = r]
  BY <1>1, <1>2 DEF AnswerWith
<1>. HIDE DEF r
<1>6. Good(r)
  BY <1>1, <1>3, <1>4 DEF Good
<1>7. (\A d \in Callers : Good(call'[d])) /\ (\A d \in Callers : d # c => call'[d] = call[d]) /\ call'[c] = r
  BY <1>1, <1>5, <1>6, GoodStep
<1>8. call'[Pilot].pc = "idle" <=> call[Pilot].pc = "idle"
  BY <1>1, <1>4, <1>7
<1>9. Lasting'
  BY <1>1, <1>8, LastingSame
<1>. QED BY <1>1, <1>7, <1>9 DEF Alive, Sound

LEMMA ReceiveAlive ==
  ASSUME FundsInv, Kept, Alive, NEW c \in Callers, Receive(c)
  PROVE  Alive'
<1>1. /\ Types /\ Calling /\ call \in [Callers -> Call] /\ Pilot \in Callers /\ Sound /\ Lasting
      /\ \A d \in Callers : Good(call[d]) /\ call[c].pc = "answered" /\ call[c] \in Call
      /\ UNCHANGED <<now, traits, batch, due>> /\ now \in Nat
  BY AliveFacts DEF Receive
<1>2. /\ call[c].info \in Info \cup {NoInfo} /\ call[c].got \in Stamp \cup {NotFound, NoAnswer}
      /\ call[c].for \in {"check", "header", "sweep", "pass"} /\ (c = Pilot => call[c].for = "pass")
      /\ Good(call[c])
  BY <1>1 DEF Calling, CallIn, PilotIn, Call
<1>3. ASSUME NEW i \in Info \cup {NotFound, NoAnswer}, Returns(c, call[c].for, i),
             i \in Info => i.exists /\ i.usable
      PROVE  (\A d \in Callers : Good(call'[d])) /\ Lasting'
  <2>1. PICK r \in Call : /\ call' = [call EXCEPT ![c] = r] /\ r.got = NoInfo /\ r.pc \in {"idle", "have"}
                          /\ r.pc = "idle" => r = Idle
                          /\ r.pc = "have" => r.info = i
                          /\ call[c].for = "pass" => r.pc = "have"
    BY <1>1, <1>2, <1>3, Returned
  <2>2. Good(r)
    <3>1. CASE r.pc = "idle"
      BY <2>1, <3>1, GoodIdle
    <3>2. CASE r.pc = "have"
      BY <1>3, <2>1, <3>2, Idling DEF Good
    <3>. QED BY <2>1, <3>1, <3>2
  <2>3. (\A d \in Callers : Good(call'[d])) /\ (\A d \in Callers : d # c => call'[d] = call[d]) /\ call'[c] = r
    BY <1>1, <2>1, <2>2, GoodStep
  <2>4. call'[Pilot].pc = "idle" <=> call[Pilot].pc = "idle"
    BY <1>1, <1>2, <2>1, <2>3
  <2>5. Lasting'
    BY <1>1, <2>4, LastingSame
  <2>. QED BY <2>3, <2>5
<1>4. CASE call[c].got \in {NotFound, NoAnswer}
  <2> DEFINE i == IF call[c].info # NoInfo THEN call[c].info ELSE call[c].got
  <2>1. cache' = cache /\ Returns(c, call[c].for, i)
    BY <1>4 DEF Receive
  <2>2. i \in Info \cup {NotFound, NoAnswer} /\ (i \in Info => i.exists /\ i.usable)
    <3>1. NotFound \notin Info /\ NoAnswer \notin Info
      BY FundsAssumption
    <3>. QED BY <1>2, <1>4, <3>1 DEF Good
  <2>. HIDE DEF i
  <2>3. (\A d \in Callers : Good(call'[d])) /\ Lasting'
    BY <1>3, <2>1, <2>2
  <2>. QED BY <1>1, <2>1, <2>3 DEF Alive, Sound
<1>5. CASE call[c].got \notin {NotFound, NoAnswer}
  <2> DEFINE i == FetchedAt(call[c].got, now)
  <2>1. call[c].got \in Stamp /\ call[c].got.exists /\ call[c].got.usable
    BY <1>2, <1>5 DEF Good
  <2>2. i \in Info /\ i.exists /\ i.usable
    BY <1>1, <2>1 DEF FetchedAt, Stamp, Info
  <2>3. cache' = i /\ Returns(c, call[c].for, i)
    BY <1>5 DEF Receive
  <2>. HIDE DEF i
  <2>4. (\A d \in Callers : Good(call'[d])) /\ Lasting'
    BY <1>3, <2>2, <2>3
  <2>5. cache' # NoInfo
    BY <2>2, <2>3, Idling
  <2>. QED BY <1>1, <2>2, <2>3, <2>4, <2>5 DEF Alive, Sound
<1>. QED BY <1>4, <1>5

\* A caller other than the autopilot learns nothing that is not cached.
LEMMA OthersAlive ==
  ASSUME FundsInv, Kept, Alive, UNCHANGED <<now, traits, cache>>, due'.pass = due.pass,
         batch'.depth = batch.depth, batch'.expiry = batch.expiry, batch'.usable = batch.usable,
         NEW c \in Callers, c # Pilot, NEW r, call' = [call EXCEPT ![c] = r],
         r.info \in {NoInfo, cache}, r.got = NoInfo
  PROVE  Alive'
<1>1. /\ call \in [Callers -> Call] /\ Pilot \in Callers /\ Sound /\ Lasting
      /\ \A d \in Callers : Good(call[d])
  BY AliveFacts
<1>2. Good(r)
  BY <1>1, Idling DEF Good, Sound
<1>3. (\A d \in Callers : Good(call'[d])) /\ call'[Pilot] = call[Pilot]
  BY <1>1, <1>2, GoodStep
<1>4. Lasting'
  BY <1>1, <1>3, LastingSame
<1>. QED BY <1>1, <1>3, <1>4 DEF Alive, Sound

LEMMA PutAlive ==
  ASSUME FundsInv, Kept, Alive, NEW p \in Puts, StartPut(p) \/ Check(p) \/ Upload(p)
  PROVE  Alive'
<1>1. /\ Types /\ call \in [Callers -> Call] /\ p \in Callers /\ p # Pilot /\ cache \in Info \cup {NoInfo}
      /\ UNCHANGED <<now, traits, cache, due>> /\ batch \in BatchType
  BY AliveFacts, FundsAssumption DEF Callers, StartPut, Check, Upload, Types
<1>2. batch'.depth = batch.depth /\ batch'.expiry = batch.expiry /\ batch'.usable = batch.usable
  <2>1. CASE batch' = batch
    BY <2>1
  <2>2. CASE batch' = [batch EXCEPT !.fill = IF batch.fill < Capacity(batch.depth) THEN batch.fill + 1 ELSE batch.fill]
    BY <1>1, <2>2 DEF BatchType
  <2>. QED BY <2>1, <2>2 DEF StartPut, Check, Upload
<1>3. CASE Get(p, "check") \/ Get(p, "header")
  <2>1. PICK r \in Call : call' = [call EXCEPT ![p] = r] /\ r.info \in {NoInfo, cache} /\ r.got = NoInfo
    BY <1>1, <1>3, Gets
  <2>. QED BY <1>1, <1>2, <2>1, OthersAlive
<1>4. CASE End(p)
  BY <1>1, <1>2, <1>4, OthersAlive, Idling DEF End
<1>5. CASE Check(p)
  <2>1. [Idle EXCEPT !.pc = "upload"].info = NoInfo /\ [Idle EXCEPT !.pc = "upload"].got = NoInfo
    BY DEF Idle
  <2>2. call' = [call EXCEPT ![p] = Idle] \/ call' = [call EXCEPT ![p] = [Idle EXCEPT !.pc = "upload"]]
    BY <1>5 DEF Check
  <2>. QED BY <1>1, <1>2, <2>1, <2>2, OthersAlive, Idling
<1>. QED BY <1>3, <1>4, <1>5 DEF StartPut, Upload

LEMMA StartSweepAlive ==
  ASSUME FundsInv, Kept, Alive, StartSweep
  PROVE  Alive'
<1>1. /\ Types /\ Sweeper \in Callers /\ Sweeper # Pilot /\ UNCHANGED <<now, traits, cache, batch>>
  BY AliveFacts, FundsAssumption DEF Callers, StartSweep
<1>2. due'.pass = due.pass
  BY <1>1 DEF StartSweep, Types
<1>3. Fetch(Sweeper, "sweep", NoInfo)
  BY DEF StartSweep, Alive, Sound
<1> DEFINE r == [Idle EXCEPT !.pc = "ask", !.for = "sweep", !.info = NoInfo]
<1>4. r.info = NoInfo /\ r.got = NoInfo
  BY DEF Idle
<1>5. call' = [call EXCEPT ![Sweeper] = r]
  BY <1>3 DEF Fetch
<1>. HIDE DEF r
<1>. QED BY <1>1, <1>2, <1>4, <1>5, OthersAlive

\* A pass begins when it is due, and the batch was to live beyond that.
LEMMA StartPassAlive ==
  ASSUME FundsInv, Kept, Alive, spent'.faults = 0, spent'.short = FALSE, StartPass
  PROVE  Alive'
<1>1. /\ Types /\ call \in [Callers -> Call] /\ Pilot \in Callers /\ Sound /\ Lasting
      /\ \A d \in Callers : Good(call[d]) /\ cache \in Info /\ cache # NoInfo
      /\ UNCHANGED <<now, traits, batch, cache>> /\ call[Pilot].pc = "idle" /\ now >= due.pass
      /\ now \in Nat /\ due.pass \in Nat /\ batch.expiry \in Nat /\ Cycle \in Nat
  BY AliveFacts DEF StartPass, Sound
<1>2. now = due.pass
  <2>1. now <= due.pass
    BY DEF FundsInv, Kept
  <2>. QED BY <1>1, <2>1
<1>3. Get(Pilot, "pass")
  BY <1>1, NoFailure DEF StartPass, Kept
<1>4. PICK r \in Call : /\ call' = [call EXCEPT ![Pilot] = r] /\ r.info \in {NoInfo, cache}
                        /\ r.got = NoInfo /\ r.pc # "idle"
  BY <1>1, <1>3, Gets
<1>5. Good(r)
  BY <1>1, <1>4, Idling DEF Good, Sound
<1>6. (\A d \in Callers : Good(call'[d])) /\ call'[Pilot] = r
  BY <1>1, <1>4, <1>5, GoodStep
<1>7. batch.expiry > now + Margin
  <2>1. CASE due.pass = 0
    BY <1>1, <1>2, <2>1 DEF Lasting, Margin
  <2>2. CASE due.pass # 0
    BY <1>1, <1>2, <2>2 DEF Lasting
  <2>. QED BY <2>1, <2>2
<1>8. Margin' = Margin
  BY <1>1 DEF Margin
<1>9. Lasting'
  BY <1>1, <1>4, <1>6, <1>7, <1>8 DEF Lasting
<1>. QED BY <1>1, <1>6, <1>9 DEF Alive, Sound

\* What a pass knows when it decides: the batch's life to the block.
LEMMA PassKnows ==
  ASSUME FundsInv, Kept, Alive, call[Pilot].pc \in {"have", "dilute", "wallet", "topup"}
  PROVE  LET i == call[Pilot].info IN
         /\ i \in Info /\ i.exists /\ i.usable /\ i.ttl \in Nat /\ i.at \in Nat
         /\ i.ttl + i.at = batch.expiry /\ due.pass = now + Cycle
<1> DEFINE i == call[Pilot].info
<1>1. /\ Types /\ Calling /\ Pilot \in Callers /\ Good(call[Pilot]) /\ now < batch.expiry
      /\ spent.faults = 0 /\ batch.expiry \in Nat
  BY AliveFacts
<1>2. World.now = now /\ World.batch = batch /\ World.faults = 0 /\ World.pass = due.pass
  BY <1>1, WorldFields
<1>3. /\ i \in Info /\ Exact(i, i.at, World) /\ Bounded(i, i.at, World) /\ due.pass = now + Cycle
  BY <1>1, <1>2 DEF Calling, PilotIn
<1>4. i.exists /\ i.usable /\ i.ttl \in Int /\ i.at \in Nat
  BY <1>1, <1>3 DEF Good, Info
<1>5. i.ttl >= 0 /\ i.ttl + i.at >= batch.expiry /\ i.depth = batch.depth
  BY <1>2, <1>3 DEF Exact
<1>6. i.ttl + i.at <= batch.expiry
  BY <1>2, <1>3, <1>4, <1>5 DEF Bounded
<1>. HIDE DEF i
<1>7. i.ttl \in Nat /\ i.ttl + i.at = batch.expiry
  BY <1>1, <1>4, <1>5, <1>6
<1>. QED BY <1>3, <1>4, <1>7 DEF i

\* A pass leaves a batch alone only when it has MinTTL to live.
LEMMA EvaluateAlive ==
  ASSUME Patience, FundsInv, Kept, Alive, Evaluate
  PROVE  Alive'
<1> DEFINE i == call[Pilot].info
           next == Decision(i)
<1>1. /\ Types /\ call \in [Callers -> Call] /\ Pilot \in Callers /\ Sound /\ Lasting
      /\ \A d \in Callers : Good(call[d]) /\ call[Pilot] \in Call
      /\ UNCHANGED <<now, traits, batch, cache, due>> /\ call[Pilot].pc = "have"
      /\ now \in Nat /\ due.pass \in Nat /\ batch.expiry \in Nat /\ Cycle \in Nat \ {0} /\ MinTTL \in Nat
  BY AliveFacts, FundsAssumption DEF Evaluate
<1>2. /\ i \in Info /\ i.exists /\ i.usable /\ i.ttl \in Nat /\ i.at \in Nat
      /\ i.ttl + i.at = batch.expiry /\ due.pass = now + Cycle
  BY <1>1, PassKnows
<1>3. call' = [call EXCEPT ![Pilot] = IF next = "idle" THEN Idle ELSE [call[Pilot] EXCEPT !.pc = next]]
  BY DEF Evaluate
<1>4. CASE next = "idle"
  <2>1. call' = [call EXCEPT ![Pilot] = Idle]
    BY <1>3, <1>4
  <2>2. (\A d \in Callers : Good(call'[d])) /\ call'[Pilot] = Idle
    BY <1>1, <2>1, GoodIdle, GoodStep
  <2>3. TTLRemaining(i) >= MinTTL
    <3>1. i # NotFound /\ i # NoAnswer
      BY <1>2, FundsAssumption
    <3>. QED BY <1>2, <1>4, <3>1 DEF Decision
  <2>4. i.ttl - (now - i.at) >= 3 * Cycle + 2
    BY <1>1, <1>2, <2>3 DEF TTLRemaining, Patience
  <2>. HIDE DEF i, next
  <2>5. batch.expiry > due.pass + (2 * Cycle + 1) /\ due.pass # 0
    BY <1>1, <1>2, <2>4
  <2>6. batch.expiry > due.pass + Margin
    BY <1>1, <2>5 DEF Margin
  <2>7. Margin' = Margin
    BY <1>1 DEF Margin
  <2>8. Lasting'
    BY <1>1, <2>2, <2>5, <2>6, <2>7, Idling DEF Lasting
  <2>. QED BY <1>1, <2>2, <2>8 DEF Alive, Sound
<1>5. CASE next # "idle"
  <2> DEFINE r == [call[Pilot] EXCEPT !.pc = next]
  <2>1. r.pc = next /\ r.info = call[Pilot].info /\ r.got = call[Pilot].got
    BY <1>1 DEF Call
  <2>2. call' = [call EXCEPT ![Pilot] = r]
    BY <1>3, <1>5
  <2>. HIDE DEF r, next
  <2>3. Good(r)
    BY <1>1, <2>1 DEF Good
  <2>4. (\A d \in Callers : Good(call'[d])) /\ call'[Pilot] = r
    BY <1>1, <2>2, <2>3, GoodStep
  <2>5. Lasting'
    BY <1>1, <1>5, <2>1, <2>4, LastingSame
  <2>. QED BY <1>1, <2>4, <2>5 DEF Alive, Sound
<1>. QED BY <1>4, <1>5

\* A dilution halves a life of two cycles; the pass that follows finds the other half.
LEMMA DiluteAlive ==
  ASSUME FundsInv, Kept, Alive, Kept', spent'.faults = 0, spent'.short = FALSE, traits' = traits, DiluteBatch
  PROVE  Alive'
<1>1. /\ Types /\ call \in [Callers -> Call] /\ Pilot \in Callers /\ Sound /\ Lasting
      /\ \A d \in Callers : Good(call[d]) /\ UNCHANGED <<now, cache, due>> /\ call[Pilot].pc = "dilute"
      /\ now \in Nat /\ due.pass \in Nat /\ batch.expiry \in Nat /\ Cycle \in Nat \ {0}
      /\ batch.depth \in Nat /\ traits.depth \in Nat /\ End(Pilot)
  BY AliveFacts, FundsAssumption DEF DiluteBatch
<1>2. Diluted
  BY <1>1, Dilutes, NoFailure DEF Fails
<1>3. /\ batch'.depth = batch.depth + 1 /\ batch'.usable = batch.usable
      /\ batch'.expiry = now + ((batch.expiry - now) \div 2)
  BY <1>2 DEF Diluted
<1>4. batch.depth = traits.depth
  <2>1. batch'.depth <= traits.depth + 1
    BY DEF Kept
  <2>2. batch.depth >= traits.depth
    BY <1>1 DEF Sound
  <2>. QED BY <1>1, <1>3, <2>1, <2>2
<1>5. batch.expiry > now + (2 * Cycle + 1) /\ due.pass = now + Cycle
  BY <1>1, <1>4, PassKnows DEF Lasting, Margin
<1>6. (batch.expiry - now) \div 2 >= Cycle + 1 /\ (batch.expiry - now) \div 2 \in Nat
  BY <1>1, <1>5
<1>7. batch'.expiry > due.pass + 0 /\ due.pass # 0 /\ batch'.depth # traits.depth /\ batch'.depth >= traits.depth
  BY <1>1, <1>3, <1>4, <1>5, <1>6
<1>8. Margin' = 0
  BY <1>7 DEF Margin
<1>9. (\A d \in Callers : Good(call'[d])) /\ call'[Pilot] = Idle
  BY <1>1, GoodIdle, GoodStep DEF End
<1>10. Lasting'
  BY <1>1, <1>7, <1>8, <1>9, Idling DEF Lasting
<1>. QED BY <1>1, <1>3, <1>7, <1>9, <1>10 DEF Alive, Sound

\* A pass that can pay goes on to pay.
LEMMA CheckWalletAlive ==
  ASSUME FundsInv, Kept, Alive, spent'.faults = 0, spent'.short = FALSE, CheckWallet
  PROVE  Alive'
<1>1. /\ Types /\ call \in [Callers -> Call] /\ Pilot \in Callers /\ Sound /\ Lasting
      /\ \A d \in Callers : Good(call[d]) /\ call[Pilot] \in Call /\ call[Pilot].pc = "wallet"
      /\ UNCHANGED <<now, traits, batch, cache, due>>
  BY AliveFacts DEF CheckWallet
<1> DEFINE r == [call[Pilot] EXCEPT !.pc = "topup"]
<1>2. call' = [call EXCEPT ![Pilot] = r]
  BY <1>1, NoFailure DEF CheckWallet
<1>3. r.pc = "topup" /\ r.info = call[Pilot].info /\ r.got = call[Pilot].got
  BY <1>1 DEF Call
<1>. HIDE DEF r
<1>4. Good(r)
  BY <1>1, <1>3 DEF Good
<1>5. (\A d \in Callers : Good(call'[d])) /\ call'[Pilot] = r
  BY <1>1, <1>2, <1>4, GoodStep
<1>6. Lasting'
  BY <1>1, <1>3, <1>5, LastingSame
<1>. QED BY <1>1, <1>5, <1>6 DEF Alive, Sound

\* After a top-up the batch lives TargetTTL.
LEMMA TopupAlive ==
  ASSUME Patience, FundsInv, Kept, Alive, spent'.faults = 0, spent'.short = FALSE, TopupBatch
  PROVE  Alive'
<1> DEFINE i == call[Pilot].info
<1>1. /\ Types /\ call \in [Callers -> Call] /\ Pilot \in Callers /\ Sound /\ Lasting
      /\ \A d \in Callers : Good(call[d]) /\ UNCHANGED <<now, traits, cache, due>> /\ call[Pilot].pc = "topup"
      /\ now \in Nat /\ due.pass \in Nat /\ batch.expiry \in Nat /\ Cycle \in Nat \ {0} /\ End(Pilot)
      /\ MinTTL \in Nat /\ TargetTTL \in Nat /\ MinTTL <= TargetTTL
  BY AliveFacts, FundsAssumption DEF TopupBatch
<1>2. ToppedUp
  BY <1>1, TopsUp, NoFailure DEF Fails
<1>3. /\ batch'.depth = batch.depth /\ batch'.usable = batch.usable
      /\ batch'.expiry = batch.expiry + (TargetTTL - (i.ttl - (now - i.at)) + 1)
  BY <1>2 DEF ToppedUp
<1>4. i.ttl \in Nat /\ i.at \in Nat /\ i.ttl + i.at = batch.expiry /\ due.pass = now + Cycle
  BY <1>1, PassKnows
<1>. HIDE DEF i
<1>5. batch'.expiry > due.pass + (2 * Cycle + 1) /\ due.pass # 0 /\ batch'.expiry > due.pass + 0
  BY <1>1, <1>3, <1>4 DEF Patience
<1>6. Margin' \in {2 * Cycle + 1, 0}
  BY <1>1 DEF Margin
<1>7. (\A d \in Callers : Good(call'[d])) /\ call'[Pilot] = Idle
  BY <1>1, GoodIdle, GoodStep DEF End
<1>8. Lasting'
  BY <1>1, <1>5, <1>6, <1>7, Idling DEF Lasting
<1>. QED BY <1>1, <1>3, <1>7, <1>8 DEF Alive, Sound

\* Whatever else happens: a mature batch stays so, and time passes only between passes.
LEMMA RestAlive ==
  ASSUME FundsInv, Kept, Alive, \/ UNCHANGED vars \/ Elapse \/ Issue \/ Mature
                                \/ ChequebookBalance \/ WalletBalance \/ ChequebookDeposit
  PROVE  Alive'
<1>1. Sound /\ Lasting /\ batch.usable
  BY AliveFacts DEF Sound
<1>2. UNCHANGED <<traits, batch, cache, call, due>>
  BY <1>1 DEF vars, Elapse, Issue, Mature, ChequebookBalance, WalletBalance, ChequebookDeposit
<1>3. now' = now \/ call[Pilot].pc = "idle"
  BY DEF vars, Elapse, Issue, Mature, ChequebookBalance, WalletBalance, ChequebookDeposit, Kept
<1>4. Lasting'
  BY <1>1, <1>2, <1>3, LastingSame
<1>. QED BY <1>1, <1>2, <1>4 DEF Alive, Sound

\* A batch of this node that is in use never expires while calls succeed and the wallet can
\* pay, through a dilution that puts the top-up off to the next cycle.
THEOREM NeverExpires == ASSUME Patience PROVE Spec => []KeptAlive
<1>1. ASSUME Init PROVE AliveInv
  <2>. SUFFICES ASSUME Kept PROVE Alive
    BY DEF AliveInv
  <2>1. PICK b \in Batches, u \in BOOLEAN :
          batch = [usable |-> u, expiry |-> b.expiry, depth |-> b.depth, fill |-> b.fill]
    BY <1>1 DEF Init
  <2>2. /\ batch.expiry \in Nat /\ batch.expiry >= 2 * Cycle + 2 /\ batch.depth \in Nat /\ Cycle \in Nat
    BY <2>1, FundsAssumption DEF Patience
  <2>3. traits.warm = (cache # NoInfo /\ batch.usable) /\ traits.depth = batch.depth
    BY <1>1 DEF Init
  <2>4. cache # NoInfo /\ batch.usable
    BY <2>3 DEF Kept
  <2>5. cache.exists /\ cache.usable
    <3>1. cache = FetchedAt(Observed, 0)
      BY <1>1, <2>4 DEF Init
    <3>2. FetchedAt(Observed, 0).exists = TRUE /\ FetchedAt(Observed, 0).usable = batch.usable
      BY DEF FetchedAt, Observed
    <3>. QED BY <2>4, <3>1, <3>2
  <2>6. call = [c \in Callers |-> Idle] /\ Pilot \in Callers /\ due.pass = 0
    BY <1>1 DEF Init, Callers
  <2>7. \A c \in Callers : Good(call[c]) /\ call[c].pc = "idle"
    BY <2>6, GoodIdle, Idling
  <2>8. batch.depth >= traits.depth /\ batch.expiry > 2 * Cycle + 1
    BY <2>2, <2>3
  <2>. QED BY <2>3, <2>4, <2>5, <2>6, <2>7, <2>8 DEF Alive, Sound, Lasting
<1>2. ASSUME FundsInv, AliveInv, [Next]_vars PROVE AliveInv'
  <2>. SUFFICES ASSUME Kept' PROVE Alive'
    BY DEF AliveInv
  <2>1. Kept /\ Alive /\ traits' = traits /\ spent'.faults = 0 /\ spent'.short = FALSE
    BY <1>2, KeptBefore DEF AliveInv
  <2>2. ASSUME NEW c \in Callers, Answer(c) \/ Receive(c) PROVE Alive'
    BY <1>2, <2>1, <2>2, AnswerAlive, ReceiveAlive
  <2>3. ASSUME NEW p \in Puts, StartPut(p) \/ Check(p) \/ Upload(p) PROVE Alive'
    BY <1>2, <2>1, <2>3, PutAlive
  <2>4. CASE StartSweep
    BY <1>2, <2>1, <2>4, StartSweepAlive
  <2>5. CASE StartPass \/ Evaluate
    BY <1>2, <2>1, <2>5, StartPassAlive, EvaluateAlive
  <2>6. CASE DiluteBatch
    BY <1>2, <2>1, <2>6, DiluteAlive
  <2>7. CASE CheckWallet \/ TopupBatch
    BY <1>2, <2>1, <2>7, CheckWalletAlive, TopupAlive
  <2>8. CASE \/ UNCHANGED vars \/ Elapse \/ Issue \/ Mature
             \/ ChequebookBalance \/ WalletBalance \/ ChequebookDeposit
    BY <1>2, <2>1, <2>8, RestAlive
  <2>. QED BY <1>2, <2>2, <2>3, <2>4, <2>5, <2>6, <2>7, <2>8 DEF Next
<1>3. ASSUME FundsInv, AliveInv PROVE KeptAlive
  BY <1>3, AliveLives DEF AliveInv, KeptAlive, Kept
<1>. QED BY <1>1, <1>2, <1>3, FundsSafe, PTL DEF Spec
=============================================================================

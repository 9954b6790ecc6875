------------------------------ MODULE StampFunds ------------------------------
(***************************************************************************)
(* One postage batch, the manager's cached view of it, the autopilot that  *)
(* extends and grows it, and the chequebook keeper, which spends from the  *)
(* same node wallet. Every call to Bee is a step of its own and may fail;  *)
(* a fetch is two steps, Bee's answer and its arrival in the cache.        *)
(***************************************************************************)
EXTENDS Integers

CONSTANTS
  Puts,                          \* concurrent uploads
  Sweeper, Pilot,                \* the goroutines Manager.Run and Autopilot.Run
  NoInfo,                        \* nothing cached
  NotFound, NoAnswer,            \* a fetch that got a 404, or nothing
  Interval, Cycle,               \* refresh interval, autopilot interval
  MinTTL, TargetTTL,             \* thresholds of the autopilot, in blocks
  DiluteNum, DiluteDen,          \* diluteAt
  BucketDepth,                   \* collision buckets of the batch
  ChequeMin, ChequeTarget, Reserve, \* thresholds of the keeper
  Batches, Wallets, Gas, Cheque, \* what the node starts with
  MaxTime, MaxPuts, MaxFaults, MaxCheques \* bounds

Callers == Puts \cup {Sweeper, Pilot}
Stamp == [exists : BOOLEAN, usable : BOOLEAN, ttl : Int, depth : Nat, fill : Nat]
Info == [exists : BOOLEAN, usable : BOOLEAN, ttl : Int, depth : Nat, fill : Nat, at : Nat]

ASSUME FundsAssumption ==
  /\ {Interval, Cycle, MinTTL, TargetTTL, DiluteNum, DiluteDen} \subseteq Nat \ {0}
  /\ {BucketDepth, ChequeMin, ChequeTarget, Reserve, Gas, Cheque} \subseteq Nat
  /\ {MaxTime, MaxPuts, MaxFaults, MaxCheques} \subseteq Nat
  /\ ChequeMin <= ChequeTarget /\ MinTTL <= TargetTTL /\ Interval <= Cycle
  /\ Batches \subseteq [expiry : Nat \ {0}, depth : Nat, fill : Nat] /\ Wallets \subseteq Nat
  /\ Sweeper # Pilot /\ Sweeper \notin Puts /\ Pilot \notin Puts
  /\ NoInfo \notin Stamp \cup Info /\ {NotFound, NoAnswer} \cap (Stamp \cup Info \cup {NoInfo}) = {}

VARIABLES
  now,     \* time, in blocks
  traits,  \* what never changes: issued here, immutable, autopilot on, usable and cached at start, first depth
  batch,   \* the batch on the chain
  cache,   \* Manager.cache: the batch as it was last fetched, and when
  call,    \* per caller: the Get in progress and what it is for
  due,     \* when the tickers fire next
  keeper,  \* the chequebook check in progress
  funds,   \* wallet (xBZZ), gas (xDAI) and chequebook
  spent    \* uploads, failures and cheques, and whether a top-up was ever out of reach

vars == <<now, traits, batch, cache, call, due, keeper, funds, spent>>

Live == now < batch.expiry
Idle == [pc |-> "idle", for |-> "check", info |-> NoInfo, got |-> NoInfo]

\* GET /stamps/{id} for a batch that is there.
Observed == [exists |-> TRUE, usable |-> batch.usable, ttl |-> batch.expiry - now,
             depth |-> batch.depth, fill |-> batch.fill]
FetchedAt(s, t) == [exists |-> s.exists, usable |-> s.usable, ttl |-> s.ttl, depth |-> s.depth,
                    fill |-> s.fill, at |-> t]

\* main checks the default batch before it serves, so that it is cached if Bee answered. The
\* first pass and the first sweep come a little later.
Init ==
  /\ now = 0
  /\ \E b \in Batches, u \in BOOLEAN :
       batch = [usable |-> u, expiry |-> b.expiry, depth |-> b.depth, fill |-> b.fill]
  /\ cache \in {NoInfo, FetchedAt(Observed, 0)}
  /\ traits \in [own : BOOLEAN, immutable : BOOLEAN, autopilot : BOOLEAN,
                warm : {cache # NoInfo /\ batch.usable}, depth : {batch.depth}]
  /\ call = [c \in Callers |-> Idle] /\ due = [sweep |-> Interval, pass |-> 0]
  /\ keeper = [pc |-> "idle", need |-> 0]
  /\ funds \in [wallet : Wallets, gas : {Gas}, cheque : {Cheque}]
  /\ spent = [puts |-> 0, faults |-> 0, cheques |-> 0, short |-> FALSE]

Fault == spent.faults < MaxFaults /\ spent' = [spent EXCEPT !.faults = @ + 1]
Short == spent' = [spent EXCEPT !.short = TRUE]
End(c) == call' = [call EXCEPT ![c] = Idle]

(***************************************************************************)
(* The manager.                                                            *)
(***************************************************************************)
Unbounded == TargetTTL + MaxTime

\* Mutant: the time since the fetch is not taken off.
TTLAsFetched(i) == IF i.ttl < 0 THEN Unbounded ELSE i.ttl

TTLRemaining(i) == IF i.ttl < 0 THEN Unbounded ELSE i.ttl - (now - i.at)

Capacity(depth) == 2^(depth - BucketDepth)

\* Mutant: the capacity is that of one level less.
RatioAtLeastHalf(i, num, den) == i.depth > BucketDepth /\ 2 * den * i.fill >= num * Capacity(i.depth)

\* Ratio() >= num/den.
RatioAtLeast(i, num, den) == i.depth > BucketDepth /\ den * i.fill >= num * Capacity(i.depth)

\* A Get that returns i to caller c; a sweep and the x-swarm-batch-ttl header need no more.
Returns(c, for, i) ==
  call' = [call EXCEPT ![c] = IF for \in {"sweep", "header"} THEN Idle
                              ELSE [Idle EXCEPT !.pc = "have", !.for = for, !.info = i]]

Fetch(c, for, i) == call' = [call EXCEPT ![c] = [Idle EXCEPT !.pc = "ask", !.for = for, !.info = i]]

\* Get: from the cache while it is fresh, otherwise from Bee.
Get(c, for) ==
  IF cache # NoInfo /\ now - cache.at < Interval THEN Returns(c, for, cache) ELSE Fetch(c, for, cache)

AnswerWith(c, got) == call' = [call EXCEPT ![c].pc = "answered", ![c].got = got]

\* Bee answers a fetch, or does not. Of an expired batch it knows nothing, or that it is gone;
\* sometimes it cannot say how long a batch will live.
Answer(c) ==
  /\ call[c].pc = "ask"
  /\ \/ Live /\ AnswerWith(c, Observed) /\ UNCHANGED spent
     \/ ~Live /\ AnswerWith(c, NotFound) /\ UNCHANGED spent
     \/ ~Live /\ AnswerWith(c, [Observed EXCEPT !.exists = FALSE, !.ttl = 0]) /\ UNCHANGED spent
     \/ Live /\ AnswerWith(c, [Observed EXCEPT !.ttl = -1]) /\ Fault
     \/ AnswerWith(c, NoAnswer) /\ Fault
  /\ UNCHANGED <<now, traits, batch, cache, due, keeper, funds>>

\* The answer reaches the cache; when there is none, what was cached when Get began has to do.
Receive(c) ==
  LET r == call[c] IN
  /\ r.pc = "answered"
  /\ IF r.got \in {NotFound, NoAnswer}
     THEN UNCHANGED cache /\ Returns(c, r.for, IF r.info # NoInfo THEN r.info ELSE r.got)
     ELSE cache' = FetchedAt(r.got, now) /\ Returns(c, r.for, cache')
  /\ UNCHANGED <<now, traits, batch, due, keeper, funds, spent>>

\* sweep refreshes what is cached.
StartSweep ==
  /\ call[Sweeper].pc = "idle" /\ now >= due.sweep
  /\ due' = [due EXCEPT !.sweep = now + Interval]
  /\ IF cache = NoInfo THEN UNCHANGED call
     ELSE Fetch(Sweeper, "sweep", NoInfo)
  /\ UNCHANGED <<now, traits, batch, cache, keeper, funds, spent>>

(***************************************************************************)
(* Uploads.                                                                *)
(***************************************************************************)
\* Check's verdict: something is known to be wrong.
BatchError(i) ==
  \/ i = NotFound
  \/ i # NoAnswer /\ \/ ~i.exists \/ ~i.usable \/ TTLRemaining(i) <= 0
                     \/ traits.immutable /\ RatioAtLeast(i, 1, 1)

\* What Bee itself accepts.
Accepts == Live /\ batch.usable /\ ~(traits.immutable /\ batch.fill >= Capacity(batch.depth))

StartPut(p) ==
  /\ call[p].pc = "idle" /\ spent.puts < MaxPuts
  /\ spent' = [spent EXCEPT !.puts = @ + 1]
  /\ Get(p, "check")
  /\ UNCHANGED <<now, traits, batch, cache, due, keeper, funds>>

\* A batch that is known to be bad is a 402 and the end of the request.
Check(p) ==
  /\ call[p].pc = "have" /\ call[p].for = "check"
  /\ call' = [call EXCEPT ![p] = IF BatchError(call[p].info) THEN Idle ELSE [Idle EXCEPT !.pc = "upload"]]
  /\ UNCHANGED <<now, traits, batch, cache, due, keeper, funds, spent>>

\* A mutable batch that is full overwrites its oldest chunks.
Upload(p) ==
  /\ call[p].pc = "upload"
  /\ IF Accepts
     THEN /\ batch' = [batch EXCEPT !.fill = IF @ < Capacity(batch.depth) THEN @ + 1 ELSE @]
          /\ Get(p, "header")
     ELSE UNCHANGED batch /\ End(p)
  /\ UNCHANGED <<now, traits, cache, due, keeper, funds, spent>>

(***************************************************************************)
(* The autopilot.                                                          *)
(***************************************************************************)
\* pass: of the batches in the cache, those this node issued, if the node can be asked.
StartPass ==
  /\ traits.autopilot /\ call[Pilot].pc = "idle" /\ now >= due.pass
  /\ due' = [due EXCEPT !.pass = now + Cycle]
  /\ \/ Fault /\ UNCHANGED call
     \/ UNCHANGED spent /\ (IF traits.own /\ cache # NoInfo THEN Get(Pilot, "pass") ELSE UNCHANGED call)
  /\ UNCHANGED <<now, traits, batch, cache, keeper, funds>>

\* Mutant: an immutable batch near its capacity is left alone altogether.
DecisionImmutableReturns(i) ==
  IF i = NotFound \/ i = NoAnswer THEN "idle"
  ELSE IF ~i.exists \/ ~i.usable THEN "idle"
  ELSE IF RatioAtLeast(i, DiluteNum, DiluteDen) THEN (IF traits.immutable THEN "idle" ELSE "dilute")
  ELSE IF TTLRemaining(i) >= MinTTL THEN "idle"
  ELSE "wallet"

\* Capacity first, then life: one action at most.
Decision(i) ==
  IF i = NotFound \/ i = NoAnswer THEN "idle"
  ELSE IF ~i.exists \/ ~i.usable THEN "idle"
  ELSE IF RatioAtLeast(i, DiluteNum, DiluteDen) /\ ~traits.immutable THEN "dilute"
  ELSE IF TTLRemaining(i) >= MinTTL THEN "idle"
  ELSE "wallet"

Evaluate ==
  /\ call[Pilot].pc = "have"
  /\ LET next == Decision(call[Pilot].info) IN
       call' = [call EXCEPT ![Pilot] = IF next = "idle" THEN Idle ELSE [@ EXCEPT !.pc = next]]
  /\ UNCHANGED <<now, traits, batch, cache, due, keeper, funds, spent>>

\* Bee raises a depth, never lowers it; the balance spreads over twice the chunks.
DiluteBatch ==
  LET newDepth == call[Pilot].info.depth + 1 IN
  /\ call[Pilot].pc = "dilute"
  /\ \/ /\ Live /\ funds.gas > 0 /\ newDepth > batch.depth
        /\ batch' = [batch EXCEPT !.depth = newDepth,
                       !.expiry = now + ((@ - now) \div 2^(newDepth - batch.depth))]
        /\ funds' = [funds EXCEPT !.gas = @ - 1]
        /\ UNCHANGED spent
     \/ ~(Live /\ funds.gas > 0 /\ newDepth > batch.depth) /\ Short /\ UNCHANGED <<batch, funds>>
     \/ Fault /\ UNCHANGED <<batch, funds>>
  /\ End(Pilot)
  /\ UNCHANGED <<now, traits, cache, due, keeper>>

\* Mutant: the whole target is bought, not what is missing.
BlocksToTarget(i) == TargetTTL + 1

\* The blocks that buy the missing life, rounded up.
Blocks(i) == TargetTTL - TTLRemaining(i) + 1

\* ChainState and WalletBalance; the price is one per block and chunk.
CheckWallet ==
  LET i == call[Pilot].info
      afford == funds.gas > 0 /\ funds.wallet >= Blocks(i) * 2^i.depth
  IN  /\ call[Pilot].pc = "wallet"
      /\ \/ afford /\ call' = [call EXCEPT ![Pilot].pc = "topup"] /\ UNCHANGED spent
         \/ ~afford /\ End(Pilot) /\ Short
         \/ Fault /\ End(Pilot)
      /\ UNCHANGED <<now, traits, batch, cache, due, keeper, funds>>

\* The transaction fails when the wallet no longer has the amount.
TopupBatch ==
  LET blocks == Blocks(call[Pilot].info)
      cost == blocks * 2^batch.depth
      paid == Live /\ funds.gas > 0 /\ funds.wallet >= cost
  IN  /\ call[Pilot].pc = "topup"
      /\ \/ /\ paid
            /\ batch' = [batch EXCEPT !.expiry = @ + blocks]
            /\ funds' = [funds EXCEPT !.wallet = @ - cost, !.gas = @ - 1]
            /\ UNCHANGED spent
         \/ ~paid /\ Short /\ UNCHANGED <<batch, funds>>
         \/ Fault /\ UNCHANGED <<batch, funds>>
      /\ End(Pilot)
      /\ UNCHANGED <<now, traits, cache, due, keeper>>

(***************************************************************************)
(* The chequebook keeper.                                                  *)
(***************************************************************************)
Need == ChequeTarget - funds.cheque

ChequebookBalance ==
  /\ keeper.pc = "idle" /\ funds.cheque < ChequeMin
  /\ keeper' = [pc |-> "wallet", need |-> Need]
  /\ UNCHANGED <<now, traits, batch, cache, call, due, funds, spent>>

\* Mutant: postage has no priority.
DepositableAll == funds.wallet

Depositable == funds.wallet - Reserve

\* Mutant: nothing is asked of the amount.
WalletBalanceUnchecked ==
  LET need == IF keeper.need > Depositable THEN Depositable ELSE keeper.need IN
  /\ keeper.pc = "wallet"
  /\ IF funds.gas > 0
     THEN keeper' = [pc |-> "deposit", need |-> need]
     ELSE keeper' = [pc |-> "idle", need |-> 0]
  /\ UNCHANGED <<now, traits, batch, cache, call, due, funds, spent>>

\* Not more than the wallet has above the reserve; a failing call ends the check too.
WalletBalance ==
  LET need == IF keeper.need > Depositable THEN Depositable ELSE keeper.need IN
  /\ keeper.pc = "wallet"
  /\ \/ /\ keeper' = IF funds.gas > 0 /\ need > 0 THEN [pc |-> "deposit", need |-> need]
                     ELSE [pc |-> "idle", need |-> 0]
        /\ UNCHANGED spent
     \/ Fault /\ keeper' = [pc |-> "idle", need |-> 0]
  /\ UNCHANGED <<now, traits, batch, cache, call, due, funds>>

ChequebookDeposit ==
  LET paid == funds.gas > 0 /\ funds.wallet >= keeper.need IN
  /\ keeper.pc = "deposit"
  /\ \/ /\ paid /\ UNCHANGED spent
        /\ funds' = [wallet |-> funds.wallet - keeper.need, gas |-> funds.gas - 1,
                     cheque |-> funds.cheque + keeper.need]
     \/ ~paid /\ UNCHANGED <<funds, spent>>
     \/ Fault /\ UNCHANGED funds
  /\ keeper' = [pc |-> "idle", need |-> 0]
  /\ UNCHANGED <<now, traits, batch, cache, call, due>>

(***************************************************************************)
(* The world.                                                              *)
(***************************************************************************)
\* Time passes. Tickers fire when they are due; a pass and a fetch are short against a unit of
\* time, an upload and a deposit take as long as they like.
Elapse ==
  /\ now < MaxTime /\ now < due.sweep
  /\ traits.autopilot => now < due.pass /\ call[Pilot].pc = "idle"
  /\ \A c \in Callers : call[c].pc \notin {"ask", "answered", "have"}
  /\ now' = now + 1
  /\ UNCHANGED <<traits, batch, cache, call, due, keeper, funds, spent>>

\* Bandwidth is paid for by cheques.
Issue ==
  /\ funds.cheque > 0 /\ spent.cheques < MaxCheques
  /\ funds' = [funds EXCEPT !.cheque = @ - 1]
  /\ spent' = [spent EXCEPT !.cheques = @ + 1]
  /\ UNCHANGED <<now, traits, batch, cache, call, due, keeper>>

\* A batch is usable some blocks after it was bought.
Mature ==
  /\ ~batch.usable
  /\ batch' = [batch EXCEPT !.usable = TRUE]
  /\ UNCHANGED <<now, traits, cache, call, due, keeper, funds, spent>>

Next ==
  \/ \E c \in Callers : Answer(c) \/ Receive(c)
  \/ \E p \in Puts : StartPut(p) \/ Check(p) \/ Upload(p)
  \/ StartSweep
  \/ StartPass \/ Evaluate \/ DiluteBatch \/ CheckWallet \/ TopupBatch
  \/ ChequebookBalance \/ WalletBalance \/ ChequebookDeposit
  \/ Elapse \/ Issue \/ Mature

Spec == Init /\ [][Next]_vars

(***************************************************************************)
(* Properties.                                                             *)
(***************************************************************************)
Call == [pc : {"idle", "ask", "answered", "have", "upload", "dilute", "wallet", "topup"},
         for : {"check", "header", "sweep", "pass"}, info : Info \cup {NoInfo, NotFound, NoAnswer},
         got : Stamp \cup {NoInfo, NotFound, NoAnswer}]

\* Type correctness; in particular no deposit is negative and no wallet is overdrawn.
TypeOK ==
  /\ now \in Nat /\ due \in [sweep : Nat, pass : Nat]
  /\ traits \in [own : BOOLEAN, immutable : BOOLEAN, autopilot : BOOLEAN, warm : BOOLEAN, depth : Nat]
  /\ batch \in [usable : BOOLEAN, expiry : Nat, depth : Nat, fill : Nat]
  /\ cache \in Info \cup {NoInfo} /\ call \in [Callers -> Call]
  /\ keeper \in [pc : {"idle", "wallet", "deposit"}, need : Nat]
  /\ funds \in [wallet : Nat, gas : Nat, cheque : Nat]
  /\ spent \in [puts : Nat, faults : Nat, cheques : Nat, short : BOOLEAN]

\* What Check and x-swarm-batch-ttl take a batch's remaining life to be is never more than it
\* is, however old the answer, until the batch is diluted (TTLRemaining "estimates seconds of
\* batch life left").
EstimateHolds ==
  cache # NoInfo /\ cache.exists /\ cache.depth = batch.depth /\ cache.ttl >= 0 =>
    TTLRemaining(cache) <= batch.expiry - now

\* A batch is diluted by one, and only when it really is that full at that moment, though
\* the autopilot decides on a copy that may be old (DiluteBatch names the new depth).
DilutedWhenFull ==
  [][batch'.depth # batch.depth =>
       /\ batch'.depth = batch.depth + 1
       /\ DiluteDen * batch.fill >= DiluteNum * Capacity(batch.depth)]_vars

\* As long as every fetch is answered, a top-up never buys more than the target, so none is
\* made twice for the same need ("acting once and re-evaluating next cycle").
ToppedUpOnce ==
  [][batch'.expiry > batch.expiry /\ spent.faults = 0 => batch'.expiry - now <= TargetTTL + 1]_vars

\* A batch of this node that is in use never expires while calls succeed and the wallet can
\* pay, even though a dilution halves its life and puts the top-up off to the next cycle
\* ("keeps the batches the gateway actually uses alive"). Said of one dilution: a batch that is
\* full again at every cycle is only ever diluted.
KeptAlive ==
  /\ traits.autopilot /\ traits.own /\ traits.warm
  /\ spent.faults = 0 /\ ~spent.short /\ batch.depth <= traits.depth + 1
  => Live

\* Without an autopilot, a deposit takes nothing of the reserve ("wallet xBZZ never taken").
ReserveWithoutPilot ==
  [][funds'.cheque > funds.cheque /\ ~traits.autopilot => funds'.wallet >= Reserve]_vars
=============================================================================

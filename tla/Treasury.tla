------------------------------ MODULE Treasury ------------------------------
(***************************************************************************)
(* The money steps of one tick of src/bot/cycle.py against the chain: the  *)
(* claim of creator fees, its split into the counter files, the buyback,   *)
(* the stock basket, the casino draw and the SOL airdrop.                  *)
(*                                                                         *)
(* Every RPC call and every counter file that is written is a step of its  *)
(* own, so that transactions land, the process dies and deposits arrive    *)
(* between any two of them.  A submitted transaction stays in flight until *)
(* it lands or is dropped; nothing but a poll tells the bot which.         *)
(*                                                                         *)
(* Abstractions: the interval gates are flags that time sets and a marker  *)
(* clears; who is paid is left out, only amounts matter here; a percentage *)
(* is an integer (int(claimed * 0.15) is claimed * 15 \div 100).           *)
(***************************************************************************)
EXTENDS Integers, Sequences, FiniteSets, Functions

CONSTANTS
    GasFloor, MinSwap, MaxBuyback, MaxBasket, MaxSolAirdrop, MinSolPayout,
    MinCasinoDraw, MaxCasinoPayout,     \* bot.config, in lamports
    OperatorPct, AdPct, CasinoPct, SolPct, SupplyPct,  \* stocks: the rest
    StockCount,     \* len(config.STOCK_MINTS)
    DryRun,         \* config.DRY_RUN
    Vaults,         \* the creator vaults that exist: bonding curve, AMM
    Fee,            \* lamports a landed transaction costs
    ClaimPolls,     \* polls of _confirm_signatures() before its deadline
    InitialGas,     \* lamports on the wallet before the first tick
    Incomes,        \* bound: creator fees that arrive at once
    Deposits,       \* bound: transfers to the wallet that are not claims
    MaxIncome,      \* bound: fees and deposits in all
    MaxFlight,      \* bound: transactions in flight
    Crashes,        \* may the process die, or an exception end the tick?
    LostReplies,    \* may a submitted transaction look like a failed one?
    LateLanding     \* may polling stop before a transaction has landed?

Legs == {"ad", "casino", "sol", "cpm", "stock"}
Gates == {"claim", "casino", "airdrop"}
Spends == {"operator", "buyback", "basket", "prize", "share"}
Kinds == {"bonding", "amm"} \cup Spends

ASSUME TreasuryAssumption ==
    /\ {GasFloor, MinSwap, MaxBuyback, MaxBasket, MaxSolAirdrop, MinSolPayout,
        MinCasinoDraw, MaxCasinoPayout, Fee, ClaimPolls, InitialGas, MaxIncome,
        MaxFlight} \subseteq Nat
    /\ {OperatorPct, AdPct, CasinoPct, SolPct, SupplyPct} \subseteq Nat
    /\ OperatorPct + AdPct + CasinoPct + SolPct + SupplyPct <= 100
    /\ StockCount \in Nat \ {0}
    /\ {DryRun, Crashes, LostReplies, LateLanding} \subseteq BOOLEAN
    /\ Incomes \subseteq Nat /\ Deposits \subseteq Nat
    /\ Vaults \subseteq {"bonding", "amm"}

VARIABLES
    chain,      \* lamports of the wallet on chain
    vault,      \* creator fees waiting in each vault
    flight,     \* submitted transactions, neither landed nor dropped
    book,       \* the counter files, by leg, and total_distributed.json
    due,        \* the gates whose interval has elapsed since their marker
    pc,         \* the step of tick() about to run
    before,     \* balance read before the claims
    claimed,    \* measured delta of this tick
    leg,        \* the counter being booked or debited
    amount,     \* lamports of the leg being spent
    tries,      \* claims, polls, swap routes or basket legs still to try
    left,       \* lamports of the SOL airdrop not yet sent
    got,        \* claims that expired while they are polled; basket legs
                \* submitted; lamports of the airdrop confirmed
    income,     \* ghost: fees and deposits so far
    sum,        \* ghost: running totals, see Totals
    spent       \* ghost: lamports submitted by this tick, by kind

locals == <<before, claimed, leg, amount, tries, left, got>>
vars == <<chain, vault, flight, book, due, pc, locals, income, sum, spent>>

\* measured: positive deltas;  collected: what claims brought;  cut: operator
\* cuts submitted;  fed: booked to the SOL pool;  aired: airdrop shares landed;
\* burned: transaction fees.
Totals == {"measured", "collected", "cut", "fed", "aired", "burned"}

Add(f, k, x) == [f EXCEPT ![k] = @ + x]
Least(a, b) == IF a < b THEN a ELSE b
NonNeg(x) == IF x < 0 THEN 0 ELSE x

-----------------------------------------------------------------------------
(* The split of a claim *)

Pct(p, c) == (c * p) \div 100
OperatorCut(c) == Pct(OperatorPct, c)

\* Mutant: the stock pool is what the claim leaves before the operator's cut.
ShareOfGross(l, c) ==
    CASE l = "ad"     -> Pct(AdPct, c)
      [] l = "casino" -> Pct(CasinoPct, c)
      [] l = "sol"    -> Pct(SolPct, c)
      [] l = "cpm"    -> Pct(SupplyPct, c)
      [] l = "stock"  -> c - Pct(AdPct, c) - Pct(CasinoPct, c) - Pct(SolPct, c)
                           - Pct(SupplyPct, c)

Share(l, c) ==
    CASE l = "ad"     -> Pct(AdPct, c)
      [] l = "casino" -> Pct(CasinoPct, c)
      [] l = "sol"    -> Pct(SolPct, c)
      [] l = "cpm"    -> Pct(SupplyPct, c)
      [] l = "stock"  -> c - OperatorCut(c) - Pct(AdPct, c) - Pct(CasinoPct, c)
                           - Pct(SolPct, c) - Pct(SupplyPct, c)

NothingToShare(c) == \A l \in {"sol", "cpm", "stock"} : Share(l, c) <= 0

NextLeg == [ad |-> "casino", casino |-> "sol", sol |-> "cpm", cpm |-> "stock"]

-----------------------------------------------------------------------------
(* Transactions *)

Tx == [id : 1 .. MaxFlight, kind : Kinds, amt : Nat, polled : BOOLEAN]

\* Tells apart transactions of the same kind and amount.
FreeId(kind, amt) ==
    CHOOSE i \in 1 .. MaxFlight :
        \A x \in flight : x.kind = kind /\ x.amt = amt => x.id # i

\* May the bot learn the signature of what it submits?
Heard == IF LostReplies THEN {TRUE, FALSE} ELSE {TRUE}

HasRoom == Cardinality(flight) < MaxFlight

Sending(kind, amt, polled) ==
    flight \cup {[id |-> FreeId(kind, amt), kind |-> kind, amt |-> amt,
                  polled |-> polled]}

\* Nobody waits for the transactions of these kinds any more.
Unpolled(kinds) ==
    {[x EXCEPT !.polled = @ /\ x.kind \notin kinds] : x \in flight}

Awaiting(kinds) == \E x \in flight : x.kind \in kinds /\ x.polled

\* The lamports of some transactions, together.
AmountOf == [x \in Tx |-> x.amt]
Lamports(txs) == SumFunctionOnSet(AmountOf, txs)
Outgoing == Lamports(flight)

-----------------------------------------------------------------------------
Init ==
    /\ chain = InitialGas
    /\ vault = [v \in Vaults |-> 0]
    /\ flight = {}
    /\ book = [l \in Legs \cup {"total"} |-> 0]
    /\ due = [g \in Gates |-> TRUE]
    /\ pc = "idle"
    /\ before = 0 /\ claimed = 0 /\ leg = "ad" /\ amount = 0
    /\ tries = 0 /\ left = 0 /\ got = 0
    /\ income = 0
    /\ sum = [k \in Totals |-> 0]
    /\ spent = [k \in Spends |-> 0]

\* The tick is over; its local variables and this tick's spending are gone.
GoIdle ==
    /\ pc' = "idle"
    /\ before' = 0 /\ claimed' = 0 /\ leg' = "ad" /\ amount' = 0
    /\ tries' = 0 /\ left' = 0 /\ got' = 0
    /\ spent' = [k \in Spends |-> 0]

outside == <<chain, vault, income>>
files == <<book, due>>

StartTick ==
    /\ pc = "idle"
    /\ pc' = IF due["claim"] THEN "before" ELSE "casino"
    /\ UNCHANGED <<outside, files, flight, locals, sum, spent>>

(* _claim_cut_split() *)

Claims == <<"amm", "bonding">>      \* taken from the end

\* Mutant: one vault too few.
ReadBeforeOneVault ==
    /\ pc = "before"
    /\ pc' = "claim" /\ before' = chain /\ tries' = Len(Claims) - 1
    /\ UNCHANGED <<outside, files, flight, claimed, leg, amount, left, got, sum,
                   spent>>

ReadBefore ==
    /\ pc = "before"
    /\ pc' = "claim" /\ before' = chain /\ tries' = Len(Claims)
    /\ UNCHANGED <<outside, files, flight, claimed, leg, amount, left, got, sum,
                   spent>>

ReadBeforeFails ==
    /\ pc = "before"
    /\ pc' = "markClaim"
    /\ UNCHANGED <<outside, files, flight, locals, sum, spent>>

claiming == <<outside, files, pc, before, claimed, leg, amount, left, got, sum,
              spent>>

\* claim_bonding_curve(), then claim_amm().
SendClaim(v) ==
    /\ pc = "claim" /\ tries > 0 /\ Claims[tries] = v
    /\ HasRoom /\ ~DryRun
    /\ \E heard \in Heard :
          flight' = Sending(v, 0, heard)
    /\ tries' = tries - 1
    /\ UNCHANGED claiming

\* DRY_RUN, no AMM vault yet, or an RPCError.
SkipClaim ==
    /\ pc = "claim" /\ tries > 0
    /\ tries' = tries - 1
    /\ UNCHANGED <<claiming, flight>>

ClaimsSubmitted ==
    /\ pc = "claim" /\ tries = 0
    /\ pc' = "measure" /\ tries' = ClaimPolls
    /\ UNCHANGED <<outside, files, flight, before, claimed, leg, amount, left, got,
                   sum, spent>>

(* _confirm_signatures(): a claim that expires never gets a status *)

ClaimsPending == Awaiting(Vaults) \/ got > 0
polling == <<outside, files, flight, pc, before, claimed, leg, amount, left, got,
             sum, spent>>

\* Mutant: no deadline.
PollClaimsForever ==
    /\ pc = "measure" /\ ClaimsPending /\ tries > 0
    /\ UNCHANGED <<polling, tries>>

\* One poll nearer to the deadline, or an RPCError.
PollClaims ==
    /\ pc = "measure" /\ ClaimsPending /\ tries > 0
    /\ tries' \in {tries - 1, 0}
    /\ UNCHANGED polling

PollsOver ==
    /\ ClaimsPending => tries = 0
    /\ LateLanding \/ ~Awaiting(Vaults)

\* Mutant: the whole balance counts as claimed.
MeasureBalance ==
    /\ pc = "measure" /\ PollsOver
    /\ flight' = Unpolled(Vaults) /\ tries' = 0 /\ got' = 0
    /\ claimed' = chain
    /\ pc' = IF chain <= 0 THEN "markClaim" ELSE "operator"
    /\ sum' = Add(sum, "measured", chain)
    /\ UNCHANGED <<outside, files, before, leg, amount, left, spent>>

\* The second balance read and its delta.
Measure ==
    /\ pc = "measure" /\ PollsOver
    /\ flight' = Unpolled(Vaults) /\ tries' = 0 /\ got' = 0
    /\ \/ LET delta == chain - before IN
          /\ claimed' = delta
          /\ pc' = IF delta <= 0 THEN "markClaim" ELSE "operator"
          /\ sum' = Add(sum, "measured", NonNeg(delta))
       \/ pc' = "markClaim" /\ UNCHANGED <<claimed, sum>>  \* RPCError
    /\ UNCHANGED <<outside, files, before, leg, amount, left, spent>>

StartBooking == pc' = "book" /\ leg' = "ad"

SendCut(cut) ==
    /\ HasRoom
    /\ flight' = Sending("operator", cut, FALSE)
    /\ spent' = Add(spent, "operator", cut)

\* Mutant: the claim is booked even when the operator could not be paid.
PayOperatorOrNot ==
    /\ pc = "operator"
    /\ LET cut == OperatorCut(claimed) IN
       \/ cut > 0 /\ SendCut(cut) /\ sum' = Add(sum, "cut", cut)
       \/ UNCHANGED <<flight, sum, spent>>
    /\ StartBooking
    /\ UNCHANGED <<outside, files, before, claimed, amount, tries, left, got>>

PayOperator ==
    /\ pc = "operator"
    /\ LET cut == OperatorCut(claimed) IN
       IF cut = 0 \/ DryRun
       THEN StartBooking /\ UNCHANGED <<flight, sum, spent>>
       ELSE \/ SendCut(cut) /\ sum' = Add(sum, "cut", cut) /\ StartBooking
            \/ /\ pc' = "markClaim"                        \* RPCError
               /\ UNCHANGED <<flight, sum, spent, leg>>
            \/ /\ LostReplies /\ SendCut(cut)
               /\ pc' = "markClaim"
               /\ UNCHANGED <<sum, leg>>
    /\ UNCHANGED <<outside, files, before, claimed, amount, tries, left, got>>

\* One counter file at a time: ad, casino, sol, cpm, stock.
Book ==
    /\ pc = "book"
    /\ LET share == NonNeg(Share(leg, claimed)) IN
       /\ book' = Add(book, leg, share)
       /\ sum' = IF leg = "sol" THEN Add(sum, "fed", share) ELSE sum
    /\ IF leg = "casino" /\ NothingToShare(claimed)
       THEN pc' = "markClaim" /\ UNCHANGED leg
       ELSE IF leg = "stock" THEN pc' = "swap" /\ UNCHANGED leg
       ELSE leg' = NextLeg[leg] /\ UNCHANGED pc
    /\ UNCHANGED <<outside, due, flight, before, claimed, amount, tries, left,
                   got, spent>>

(* swap.buyback(): three routes, the first that answers wins *)

StartBuyback ==
    /\ pc = "swap"
    /\ IF book["cpm"] >= MinSwap
       THEN /\ pc' = "buyback"
            /\ amount' = Least(book["cpm"], MaxBuyback)
            /\ tries' = IF DryRun \/ amount' = 0 THEN 0 ELSE 3
       ELSE pc' = "basket" /\ UNCHANGED <<amount, tries>>
    /\ UNCHANGED <<outside, files, flight, before, claimed, leg, left, got, sum,
                   spent>>

\* Mutant: the next route is tried even after one has answered.
TryEveryRoute ==
    /\ pc = "buyback" /\ tries > 0
    /\ HasRoom
    /\ flight' = Sending("buyback", amount, FALSE)
    /\ spent' = Add(spent, "buyback", amount)
    /\ tries' = tries - 1
    /\ UNCHANGED <<outside, files, pc, leg, before, claimed, amount, left, got, sum>>

TryRoute ==
    /\ pc = "buyback" /\ tries > 0
    /\ \/ /\ HasRoom                                        \* submitted
          /\ flight' = Sending("buyback", amount, FALSE)
          /\ spent' = Add(spent, "buyback", amount)
          /\ pc' = "debit" /\ leg' = "cpm" /\ tries' = 0
       \/ /\ tries' = tries - 1                             \* RPCError
          /\ UNCHANGED <<flight, spent, pc, leg>>
       \/ /\ LostReplies /\ HasRoom                         \* submitted, no reply
          /\ flight' = Sending("buyback", amount, FALSE)
          /\ spent' = Add(spent, "buyback", amount)
          /\ tries' = tries - 1
          /\ UNCHANGED <<pc, leg>>
    /\ UNCHANGED <<outside, files, before, claimed, amount, left, got, sum>>

NoRouteLeft ==
    /\ pc = "buyback" /\ tries = 0
    /\ pc' = "basket" /\ amount' = 0
    /\ UNCHANGED <<outside, files, flight, before, claimed, leg, tries, left, got,
                   sum, spent>>

(* stocks.buy_basket(): every stock is tried once, the legs that answered count *)

PerStock == Least(book["stock"], MaxBasket) \div StockCount

StartBasket ==
    /\ pc = "basket"
    /\ IF book["stock"] >= MinSwap /\ PerStock > 0 /\ ~DryRun
       THEN pc' = "stocks" /\ amount' = PerStock /\ tries' = StockCount /\ got' = 0
       ELSE pc' = "markClaim" /\ UNCHANGED <<amount, tries, got>>
    /\ UNCHANGED <<outside, files, flight, before, claimed, leg, left, sum, spent>>

\* Mutant: one leg too many.
BuyStockOnceMore ==
    /\ pc = "stocks" /\ tries >= 0
    /\ tries' = tries - 1
    /\ UNCHANGED <<outside, files, flight, pc, before, claimed, leg, amount, left,
                   got, sum, spent>>

\* Mutant: a leg that has failed is tried again.
BuyStockRetried ==
    /\ pc = "stocks" /\ tries > 0
    /\ \/ /\ HasRoom
          /\ flight' = Sending("basket", amount, FALSE)
          /\ spent' = Add(spent, "basket", amount)
          /\ got' = got + 1 /\ tries' = tries - 1
       \/ UNCHANGED <<flight, spent, got, tries>>
       \/ /\ LostReplies /\ HasRoom
          /\ flight' = Sending("basket", amount, FALSE)
          /\ spent' = Add(spent, "basket", amount)
          /\ UNCHANGED <<got, tries>>
    /\ UNCHANGED <<outside, files, pc, before, claimed, leg, amount, left, sum>>

BuyStock ==
    /\ pc = "stocks" /\ tries > 0
    /\ tries' = tries - 1
    /\ \/ /\ HasRoom
          /\ flight' = Sending("basket", amount, FALSE)
          /\ spent' = Add(spent, "basket", amount)
          /\ got' = got + 1
       \/ UNCHANGED <<flight, spent, got>>
       \/ /\ LostReplies /\ HasRoom
          /\ flight' = Sending("basket", amount, FALSE)
          /\ spent' = Add(spent, "basket", amount)
          /\ UNCHANGED got
    /\ UNCHANGED <<outside, files, pc, before, claimed, leg, amount, left, sum>>

BasketBought ==
    /\ pc = "stocks" /\ tries = 0
    /\ IF got > 0
       THEN pc' = "debit" /\ leg' = "stock" /\ amount' = amount * got
       ELSE pc' = "markClaim" /\ amount' = 0 /\ UNCHANGED leg
    /\ got' = 0
    /\ UNCHANGED <<outside, files, flight, before, claimed, tries, left, sum, spent>>

(* After a spend: the counter first, then the lifetime total *)

Debit ==
    /\ pc = "debit"
    /\ book' = [book EXCEPT ![leg] = NonNeg(@ - amount)]
    /\ pc' = "count"
    /\ UNCHANGED <<outside, due, flight, locals, sum, spent>>

AfterSpend == [cpm |-> "basket", stock |-> "markClaim", casino |-> "markCasino",
               sol |-> "tokens"]

Count ==
    /\ pc = "count"
    /\ book' = Add(book, "total", amount)
    /\ pc' = AfterSpend[leg]
    /\ amount' = 0
    /\ UNCHANGED <<outside, due, flight, before, claimed, leg, tries, left, got,
                   sum, spent>>

MarkClaim ==
    /\ pc = "markClaim"
    /\ due' = [due EXCEPT !["claim"] = FALSE]
    /\ pc' = "casino" /\ before' = 0 /\ claimed' = 0
    /\ UNCHANGED <<outside, book, flight, leg, amount, tries, left, got, sum, spent>>

(* _casino_draw() *)

\* Not due, pot too small, no candidate, or the balance read failed.
SkipDraw ==
    /\ pc = "casino"
    /\ pc' = "airdrop"
    /\ UNCHANGED <<outside, files, flight, locals, sum, spent>>

Prize == Least(Least(book["casino"], MaxCasinoPayout),
               NonNeg(chain - GasFloor - book["ad"] - book["sol"]))

DrawWinner ==
    /\ pc = "casino"
    /\ due["casino"]
    /\ book["casino"] >= MinCasinoDraw
    /\ Prize > 0
    /\ ~DryRun
    /\ pc' = "draw" /\ amount' = Prize
    /\ UNCHANGED <<outside, files, flight, before, claimed, leg, tries, left, got,
                   sum, spent>>

SendPrize ==
    /\ pc = "draw"
    /\ \/ /\ HasRoom
          /\ flight' = Sending("prize", amount, FALSE)
          /\ spent' = Add(spent, "prize", amount)
          /\ pc' = "debit" /\ leg' = "casino" /\ UNCHANGED amount
       \/ pc' = "airdrop" /\ amount' = 0 /\ UNCHANGED <<flight, spent, leg>>
       \/ /\ LostReplies /\ HasRoom
          /\ flight' = Sending("prize", amount, FALSE)
          /\ spent' = Add(spent, "prize", amount)
          /\ pc' = "airdrop" /\ amount' = 0 /\ UNCHANGED leg
    /\ UNCHANGED <<outside, files, before, claimed, tries, left, got, sum>>

MarkCasino ==
    /\ pc = "markCasino"
    /\ due' = [due EXCEPT !["casino"] = FALSE]
    /\ pc' = "airdrop"
    /\ UNCHANGED <<outside, book, flight, locals, sum, spent>>

(* The SOL airdrop *)

\* Not due, or nobody to pay: the tick ends here.
SkipAirdrop ==
    /\ pc = "airdrop"
    /\ GoIdle
    /\ UNCHANGED <<outside, files, flight, sum>>

\* Mutant: the airdrop pays from the wallet, whatever its pool holds.
ToPayFromWallet == Least(MaxSolAirdrop,
                         NonNeg(chain - GasFloor - book["ad"] - book["casino"]))

ToPay == Least(Least(book["sol"], MaxSolAirdrop),
               NonNeg(chain - GasFloor - book["ad"] - book["casino"]))

StartAirdrop ==
    /\ pc = "airdrop"
    /\ due["airdrop"]
    /\ \/ /\ ToPay > 0 /\ ~DryRun
          /\ pc' = "shares" /\ left' = ToPay
       \/ pc' = "tokens" /\ UNCHANGED left      \* nothing to pay, or RPCError
    /\ got' = 0
    /\ UNCHANGED <<outside, files, flight, before, claimed, leg, amount, tries, sum,
                   spent>>

\* distribute_sol(): floor shares of at least the dust limit, in any order.
SendShare ==
    /\ pc = "shares"
    /\ \E a \in MinSolPayout .. left :
          /\ a > 0
          /\ left' = left - a
          /\ \/ /\ HasRoom
                /\ \E heard \in Heard :
                      flight' = Sending("share", a, heard)
                /\ spent' = Add(spent, "share", a)
             \/ UNCHANGED <<flight, spent>>     \* gave up, or no blockhash
    /\ UNCHANGED <<outside, files, pc, before, claimed, leg, amount, tries, got, sum>>

\* Mutant: the pool is not debited.
EndSharesForFree ==
    /\ pc = "shares"
    /\ LateLanding \/ ~Awaiting({"share"})
    /\ flight' = Unpolled({"share"})
    /\ pc' = "tokens" /\ left' = 0 /\ got' = 0
    /\ UNCHANGED <<outside, files, before, claimed, leg, amount, tries, sum, spent>>

\* _confirm() is over: what has not landed by now counts as not sent.
EndShares ==
    /\ pc = "shares"
    /\ LateLanding \/ ~Awaiting({"share"})
    /\ flight' = Unpolled({"share"})
    /\ IF got > 0 THEN pc' = "debit" /\ leg' = "sol" /\ amount' = got
                  ELSE pc' = "tokens" /\ UNCHANGED <<leg, amount>>
    /\ left' = 0 /\ got' = 0
    /\ UNCHANGED <<outside, files, before, claimed, tries, sum, spent>>

\* The $CPM and stock airdrops cost this wallet fees only; then the marker.  What
\* the transfers and the token accounts they open cost leaves at once, and the
\* choice of fees stands for every way a token leg may run or not: the stock leg
\* has an interval and a marker of its own, which nothing else reads.
TokenLegs ==
    /\ pc = "tokens"
    /\ \E fees \in {0, Fee} :
          /\ fees <= chain
          /\ ~DryRun \/ fees = 0
          /\ chain' = chain - fees
          /\ sum' = Add(sum, "burned", fees)
    /\ due' = [due EXCEPT !["airdrop"] = DryRun]
    /\ GoIdle
    /\ UNCHANGED <<vault, income, book, flight>>

\* The process dies, or an exception other than RPCError ends the tick.
Crash ==
    /\ Crashes
    /\ pc # "idle"
    /\ GoIdle
    /\ UNCHANGED <<outside, files, sum>>
    /\ flight' = Unpolled(Kinds)

Bot ==
    \/ StartTick \/ ReadBefore \/ ReadBeforeFails
    \/ (\E v \in Vaults : SendClaim(v)) \/ SkipClaim \/ ClaimsSubmitted
    \/ PollClaims \/ Measure \/ PayOperator \/ Book \/ StartBuyback \/ TryRoute \/ NoRouteLeft
    \/ StartBasket \/ BuyStock \/ BasketBought \/ Debit \/ Count \/ MarkClaim
    \/ SkipDraw \/ DrawWinner \/ SendPrize \/ MarkCasino
    \/ SkipAirdrop \/ StartAirdrop \/ SendShare \/ EndShares \/ TokenLegs

(* The world *)

\* An interval elapses.  Only between ticks: a tick reads its clock once.
Elapse(g) ==
    /\ pc = "idle" /\ ~due[g]
    /\ due' = [due EXCEPT ![g] = TRUE]
    /\ UNCHANGED <<outside, book, flight, pc, locals, sum, spent>>

Accrue(v) ==
    /\ \E i \in Incomes :
          /\ income + i <= MaxIncome
          /\ income' = income + i
          /\ vault' = Add(vault, v, i)
    /\ UNCHANGED <<chain, files, flight, pc, locals, sum, spent>>

Deposit ==
    /\ \E d \in Deposits :
          /\ income + d <= MaxIncome
          /\ income' = income + d
          /\ chain' = chain + d
    /\ UNCHANGED <<vault, files, flight, pc, locals, sum, spent>>

LandClaim(x) ==
    /\ chain + vault[x.kind] >= Fee
    /\ chain' = chain + vault[x.kind] - Fee
    /\ vault' = [vault EXCEPT ![x.kind] = 0]
    /\ sum' = Add(Add(sum, "collected", vault[x.kind]), "burned", Fee)
    /\ UNCHANGED got

\* A status that lags, or a status call that fails, hides a share that landed.
Noticed(x) == {got + x.amt} \cup (IF LateLanding THEN {got} ELSE {})

LandPayment(x) ==
    /\ x.kind \in Spends
    /\ chain >= x.amt + Fee
    /\ chain' = chain - x.amt - Fee
    /\ sum' = [sum EXCEPT !["burned"] = @ + Fee,
                          !["aired"] = @ + (IF x.kind = "share" THEN x.amt ELSE 0)]
    /\ got' \in IF x.kind = "share" /\ x.polled THEN Noticed(x) ELSE {got}
    /\ UNCHANGED vault

Settled(x) ==
    /\ flight' = flight \ {x}
    /\ UNCHANGED <<income, files, pc, before, claimed, leg, amount, tries, left, spent>>

ClaimLands(v) == \E x \in flight : x.kind = v /\ LandClaim(x) /\ Settled(x)
PaymentLands == \E x \in flight : LandPayment(x) /\ Settled(x)
Land == PaymentLands \/ \E v \in Vaults : ClaimLands(v)

\* A claim the bot polls has no status once its blockhash is too old.
Expired(x) == IF x.kind \in Vaults /\ x.polled /\ pc \in {"claim", "measure"}
              THEN got + 1 ELSE got

Drop ==
    /\ \E x \in flight :
          /\ flight' = flight \ {x}
          /\ \/ got' = Expired(x) /\ UNCHANGED <<chain, sum>>
             \/ /\ chain >= Fee                   \* failed, the fee is gone
                /\ chain' = chain - Fee
                /\ sum' = Add(sum, "burned", Fee)
                /\ UNCHANGED got
    /\ UNCHANGED <<vault, income, files, pc, before, claimed, leg, amount, tries, left,
                   spent>>

World ==
    \/ \E g \in Gates : Elapse(g)
    \/ \E v \in Vaults : Accrue(v)
    \/ Deposit \/ Land \/ Drop

Next == Bot \/ Crash \/ World

Spec == Init /\ [][Next]_vars

\* main() starts tick after tick and every call in a tick returns (timeouts);
\* the claim interval elapses; a submitted transaction lands or expires; the
\* balance read, the claim and its landing do not fail each time they are tried.
Fairness ==
    /\ WF_vars(Bot)
    /\ SF_vars(Elapse("claim"))
    /\ WF_vars(Land \/ Drop)
    /\ SF_vars(ReadBefore)
    /\ \A v \in Vaults : SF_vars(SendClaim(v)) /\ SF_vars(ClaimLands(v))

FairSpec == Spec /\ Fairness

-----------------------------------------------------------------------------
(* Properties *)

Steps == {"idle", "before", "claim", "measure", "operator", "book", "swap",
          "buyback", "basket", "stocks", "debit", "count", "markClaim", "casino",
          "draw", "markCasino", "airdrop", "shares", "tokens"}

\* Every variable keeps its type; in particular no counter file is ever
\* written from a negative share, amount or number of legs.
TypeOK ==
    /\ chain \in Nat
    /\ vault \in [Vaults -> Nat]
    /\ flight \subseteq Tx /\ IsFiniteSet(flight)
    /\ book \in [Legs \cup {"total"} -> Nat]
    /\ due \in [Gates -> BOOLEAN]
    /\ pc \in Steps
    /\ before \in Nat /\ claimed \in Int /\ leg \in Legs /\ amount \in Nat
    /\ tries \in Nat /\ left \in Nat /\ got \in Nat
    /\ income \in Nat
    /\ sum \in [Totals -> Nat]
    /\ spent \in [Spends -> Nat]

Pools == book["ad"] + book["casino"] + book["sol"] + book["cpm"] + book["stock"]

\* Everything the counter files record as set aside or spent, together with the
\* operator cuts sent, comes out of measured claim deltas: no crash, lost reply
\* or late landing makes the bot book the same lamports twice.
BooksWithinClaims == Pools + book["total"] + sum["cut"] <= sum["measured"]

\* A counter is debited only by what it holds, so the max(0, ...) of
\* _write_counter never hides an overspent pool.
DebitCovered == pc = "debit" => book[leg] >= amount

\* One tick submits at most its cap for the stock basket, the casino prize and
\* the SOL airdrop, even when replies are lost.
CapsHold ==
    /\ spent["basket"] <= MaxBasket
    /\ spent["prize"] <= MaxCasinoPayout
    /\ spent["share"] <= MaxSolAirdrop

\* The same for the buyback, whose three routes are three transactions.
BuybackWithinCap == spent["buyback"] <= MaxBuyback

\* The operator is paid first, claim by claim: the ad reserve, the casino pot or
\* any other counter grows only in a tick that has submitted, once and in full,
\* the operator's cut of the very claim it grows by.  A cut of an earlier tick
\* does not count, nor one that was tried and refused.
OperatorFirst ==
    [][\A l \in Legs : book'[l] > book[l] /\ ~DryRun =>
          claimed > 0 /\ spent["operator"] = OperatorCut(claimed)]_vars

\* Between ticks the wallet covers its initial gas, less the fees, plus every
\* pool and the payments still in flight: no lamport is promised twice.
Backed == pc = "idle" => chain + sum["burned"] >= InitialGas + Pools + Outgoing

Shares == {x \in flight : x.kind = "share"}
PolledShares == {x \in Shares : x.polled}

\* Submitted by the leg that is running, and not yet debited from its pool.
Undebited == CASE pc = "stocks" -> amount * got
               [] pc = "shares" -> got + Lamports(PolledShares)
               [] pc = "debit"  -> amount
               [] OTHER         -> 0

\* The counter files a claim still has to be written to.
LegsFrom == [ad |-> Legs, casino |-> Legs \ {"ad"}, sol |-> {"sol", "cpm", "stock"},
             cpm |-> {"cpm", "stock"}, stock |-> {"stock"}]
ToBook(l) == IF pc = "book" /\ l \in LegsFrom[leg]
             THEN NonNeg(Share(l, claimed)) ELSE 0

\* Measured, and on its way to the operator or to the counter files.
Unbooked == (IF pc = "operator" THEN claimed ELSE 0)
               + ToBook("ad") + ToBook("casino") + ToBook("sol") + ToBook("cpm")
               + ToBook("stock")

\* Promised over and above what the wallet holds: the gas, the pools and what is
\* in flight or being booked, less what the running leg has yet to debit.  While
\* claims are measured only the balance before them counts.
Wallet == IF pc \in {"claim", "measure"} THEN Least(before, chain) ELSE chain
Gap == InitialGas + Pools + Outgoing + Unbooked - Undebited - sum["burned"] - Wallet

\* What a death of the tick, a lost reply and a share noticed too late may cost.
Mishap ==
    (IF pc' = "idle" THEN Undebited ELSE 0)
       + (IF LostReplies /\ pc \in {"buyback", "stocks", "draw", "shares"}
          THEN NonNeg(Outgoing' - Outgoing) ELSE 0)
       + (IF LateLanding /\ pc = "shares"
          THEN NonNeg(Lamports(PolledShares) - Lamports(PolledShares)') ELSE 0)

\* Each mishap costs what it was about, once: the gap widens by the payments a
\* dying tick has submitted and not debited, by the one whose reply is lost and
\* by the shares that land after the last poll.  Nothing else the bot or the
\* chain does, in this tick or in a later one, spends what is promised already.
OnlyMishapsCost == [][Gap' <= Gap + Mishap]_vars

\* Airdrop shares that reached holders were booked to the SOL pool before.
AirdropOnlyPaysPool == sum["aired"] <= sum["fed"]

\* While the airdrop is being sent, what the wallet keeps after everything in
\* flight and everything left to send covers the gas floor and the reserve.
AirdropKeepsFloor ==
    pc = "shares" => chain >= GasFloor + book["ad"] + Outgoing + left

\* A successful measurement accounts for all creator fees collected so far.
Heals == pc = "measure" /\ pc' = "operator" => sum'["measured"] >= sum["collected"]
SelfHeals == [][Heals]_vars

\* No combination of failed, lost or late calls keeps a tick from ending: main()
\* gets to the next snapshot even when nothing the bot sent ever lands.
TickEnds == pc # "idle" ~> pc = "idle"

\* Creator fees do not stay in a vault: a claim that failed, expired or was
\* never submitted is made again.
FeesCollected == \A v \in Vaults : vault[v] > 0 ~> vault[v] = 0

\* Under DRY_RUN nothing is sent.
DryRunSendsNothing == DryRun => flight = {} /\ book["total"] = 0
-----------------------------------------------------------------------------
(* The inductive invariant behind TypeOK, CapsHold, OperatorFirst,           *)
(* DryRunSendsNothing and, without lost replies, BuybackWithinCap            *)

Spending(l) == pc \in {"debit", "count"} /\ leg = l

\* The steps of a tick that come before its buyback, basket, prize and airdrop
\* have been submitted.
BuybackAhead == pc \in {"idle", "before", "claim", "measure", "operator", "book",
                        "swap", "buyback"}
BasketAhead == BuybackAhead \/ pc = "basket" \/ Spending("cpm")
PrizeAhead == BasketAhead \/ pc \in {"stocks", "markClaim", "casino", "draw"}
                \/ Spending("stock")
SharesAhead == PrizeAhead \/ pc \in {"markCasino", "airdrop"} \/ Spending("casino")

\* What a leg has spent and may still spend fits its cap.
SpentInv ==
    /\ BasketAhead => spent["basket"] = 0
    /\ PrizeAhead => spent["prize"] = 0
    /\ SharesAhead => spent["share"] = 0
    /\ pc \in {"debit", "count"} => leg # "ad"
    /\ pc = "stocks" => spent["basket"] + amount * tries <= MaxBasket
    /\ pc = "draw" => amount <= MaxCasinoPayout
    /\ pc = "shares" => spent["share"] + left <= MaxSolAirdrop
    /\ CapsHold

BuybackInv ==
    /\ pc = "buyback" => amount <= MaxBuyback
    /\ ~LostReplies =>
          /\ BuybackAhead => spent["buyback"] = 0
          /\ BuybackWithinCap

\* The cut of the claim being booked has been submitted already.
OperatorInv ==
    /\ pc \in {"operator", "book"} => claimed > 0
    /\ pc \in {"idle", "before", "claim", "measure", "operator"} =>
          spent["operator"] = 0
    /\ pc = "book" /\ ~DryRun => spent["operator"] = OperatorCut(claimed)

DryRunInv ==
    DryRun =>
        /\ flight = {} /\ book["total"] = 0
        /\ pc \notin {"stocks", "draw", "shares", "debit", "count"}
        /\ pc = "buyback" => tries = 0

IInv == TypeOK /\ SpentInv /\ BuybackInv /\ OperatorInv /\ DryRunInv

-----------------------------------------------------------------------------
(* The counters: what is behind DebitCovered, BooksWithinClaims and           *)
(* OnlyMishapsCost, whatever goes wrong, and behind Backed and                *)
(* AirdropOnlyPaysPool when nothing does                                      *)

\* What a leg has spent, may still spend and may still learn to have spent is
\* in its pool until the debit.
CoverInv ==
    /\ pc # "shares" => PolledShares = {}
    /\ pc = "buyback" => amount <= book["cpm"]
    /\ pc = "stocks" => amount * (tries + got) <= book["stock"]
    /\ pc = "draw" => amount <= book["casino"]
    /\ pc = "shares" => got + left + Lamports(PolledShares) <= book["sol"]
    /\ DebitCovered

\* Debited, and on its way to the lifetime total.
Uncounted == IF pc = "count" THEN amount ELSE 0

BooksInv == Pools + book["total"] + sum["cut"] + Unbooked + Uncounted
               <= sum["measured"]

Reliable == ~Crashes /\ ~LostReplies /\ ~LateLanding

\* Nothing is promised that the wallet does not hold.
BackedInv == Gap <= 0

SolUndebited == IF pc = "shares" \/ (pc = "debit" /\ leg = "sol")
                THEN Undebited ELSE 0

\* What the SOL pool was ever fed is in the pool, in flight or with the holders.
AirdropInv ==
    sum["aired"] + Lamports(Shares) + book["sol"] <= sum["fed"] + SolUndebited

BooksIInv == IInv /\ CoverInv /\ BooksInv
ReliableInv == BooksIInv /\ BackedInv /\ AirdropInv
=============================================================================

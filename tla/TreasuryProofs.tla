--------------------------- MODULE TreasuryProofs ---------------------------
(***************************************************************************)
(* Treasury for every split, cap, fee, number of stocks and number of      *)
(* transactions in flight.  With every fault allowed: the type invariant,  *)
(* what one tick may spend, the operator's precedence, then the counters,  *)
(* that debits are covered, that the books stay within the claims and that *)
(* a mishap costs the wallet what it was about, once.  Without crashes,    *)
(* lost replies and late landing there is no mishap, so that the wallet    *)
(* backs what the counters promise and the airdrop pays from its pool.     *)
(***************************************************************************)
EXTENDS Treasury, SumLemmas, TLAPS

-----------------------------------------------------------------------------
(* The split *)

\* A percentage of lamports is a number of lamports, the larger the percentage
\* the more.
LEMMA PctFacts ==
    ASSUME NEW c \in Nat, NEW p \in Nat, NEW q \in Nat
    PROVE  /\ Pct(p, c) \in Nat
           /\ q <= p => Pct(q, c) <= Pct(p, c)
<1>1. c * p \in Nat /\ c * q \in Nat
    OBVIOUS
<1>2. q <= p => c * q <= c * p
    OBVIOUS
<1>3. \A x, y \in Nat : x \div 100 \in Nat /\ (x <= y => x \div 100 <= y \div 100)
    OBVIOUS
<1> QED
    BY <1>1, <1>2, <1>3 DEF Pct

\* Every share of a claim is an integer, and is booked as a natural number.
LEMMA ShareType ==
    ASSUME NEW c \in Nat, NEW l \in Legs
    PROVE  Share(l, c) \in Int /\ NonNeg(Share(l, c)) \in Nat
<1>1. \A p \in {OperatorPct, AdPct, CasinoPct, SolPct, SupplyPct} : Pct(p, c) \in Nat
    BY PctFacts, TreasuryAssumption
<1>2. Share(l, c) \in Int
    BY <1>1 DEF Share, Legs, OperatorCut
<1> QED
    BY <1>2 DEF NonNeg

\* The legs of a basket together stay within the cap.
LEMMA BasketWithinCap ==
    ASSUME NEW x \in Nat
    PROVE  /\ Least(x, MaxBasket) \div StockCount \in Nat
           /\ (Least(x, MaxBasket) \div StockCount) * StockCount <= MaxBasket
<1>1. Least(x, MaxBasket) \in Nat /\ Least(x, MaxBasket) <= MaxBasket
    BY TreasuryAssumption DEF Least
<1>2. ASSUME NEW a \in Nat, NEW n \in Nat \ {0}
      PROVE  a \div n \in Nat /\ (a \div n) * n <= a
    OBVIOUS
<1> DEFINE per == Least(x, MaxBasket) \div StockCount
<1>3. MaxBasket \in Nat /\ StockCount \in Nat \ {0}
    BY TreasuryAssumption
<1>4. per \in Nat /\ per * StockCount <= Least(x, MaxBasket)
    BY <1>1, <1>2, <1>3
<1>5. per * StockCount \in Nat
    BY <1>3, <1>4
<1> HIDE DEF per
<1>6. per * StockCount <= MaxBasket
    BY <1>1, <1>3, <1>4, <1>5
<1> USE DEF per
<1> QED
    BY <1>4, <1>6

-----------------------------------------------------------------------------
(* Transactions *)

\* While there is room, a free number exists: fewer transactions than numbers.
LEMMA FreeIdType ==
    ASSUME TypeOK, HasRoom, NEW kind, NEW amt
    PROVE  /\ FreeId(kind, amt) \in 1 .. MaxFlight
           /\ \A x \in flight :
                 x.kind = kind /\ x.amt = amt => x.id # FreeId(kind, amt)
<1> DEFINE alike == {x \in flight : x.kind = kind /\ x.amt = amt}
           ids == [x \in alike |-> x.id]
<1>1. MaxFlight \in Nat /\ IsFiniteSet(flight) /\ flight \subseteq Tx
    BY TreasuryAssumption DEF TypeOK
<1>2. IsFiniteSet(alike) /\ Cardinality(alike) <= Cardinality(flight)
    BY <1>1, FS_Subset
<1>3. Cardinality(alike) \in Nat /\ Cardinality(flight) \in Nat
    BY <1>1, <1>2, FS_CardinalityType
<1>4. \E i \in 1 .. MaxFlight : \A x \in alike : x.id # i
    <2> SUFFICES ASSUME \A i \in 1 .. MaxFlight : \E x \in alike : x.id = i
                 PROVE  FALSE
        OBVIOUS
    <2>1. ids \in Surjection(alike, 1 .. MaxFlight)
        BY <1>1 DEF Surjection, Tx
    <2> HIDE DEF ids
    <2>2. Cardinality(1 .. MaxFlight) <= Cardinality(alike)
        BY <2>1, <1>2, FS_Surjection
    <2>3. Cardinality(1 .. MaxFlight) = MaxFlight
        BY <1>1, FS_Interval
    <2> QED
        BY <2>2, <2>3, <1>1, <1>2, <1>3 DEF HasRoom
<1>5. \E i \in 1 .. MaxFlight :
          \A x \in flight : x.kind = kind /\ x.amt = amt => x.id # i
    BY <1>4
<1> QED
    BY <1>5 DEF FreeId

\* Submitting keeps the set of transactions in flight well formed.
LEMMA SendingType ==
    ASSUME TypeOK, HasRoom, NEW kind \in Kinds, NEW amt \in Nat,
           NEW polled \in BOOLEAN
    PROVE  Sending(kind, amt, polled) \subseteq Tx /\ IsFiniteSet(Sending(kind, amt, polled))
<1> DEFINE new == [id |-> FreeId(kind, amt), kind |-> kind, amt |-> amt,
                   polled |-> polled]
<1>1. FreeId(kind, amt) \in 1 .. MaxFlight
    BY FreeIdType
<1>2. new \in Tx
    BY <1>1 DEF Tx
<1>3. flight \subseteq Tx /\ IsFiniteSet(flight)
    BY DEF TypeOK
<1>4. IsFiniteSet(flight \cup {new})
    BY <1>3, FS_AddElement
<1> QED
    BY <1>2, <1>3, <1>4 DEF Sending

\* So does ceasing to poll, and so does the end of a transaction.
LEMMA UnpolledType ==
    ASSUME TypeOK, NEW kinds
    PROVE  Unpolled(kinds) \subseteq Tx /\ IsFiniteSet(Unpolled(kinds))
<1> DEFINE quiet == [x \in flight |-> [x EXCEPT !.polled = @ /\ x.kind \notin kinds]]
<1>1. flight \subseteq Tx /\ IsFiniteSet(flight)
    BY DEF TypeOK
<1>2. \A x \in flight : [x EXCEPT !.polled = @ /\ x.kind \notin kinds] \in Tx
    BY <1>1 DEF Tx
<1>3. quiet \in Surjection(flight, Unpolled(kinds))
    BY DEF Surjection, Unpolled
<1> HIDE DEF quiet
<1>4. IsFiniteSet(Unpolled(kinds))
    BY <1>1, <1>3, FS_Surjection
<1> QED
    BY <1>2, <1>4 DEF Unpolled

LEMMA LessType ==
    ASSUME TypeOK, NEW x
    PROVE  flight \ {x} \subseteq Tx /\ IsFiniteSet(flight \ {x})
BY FS_RemoveElement DEF TypeOK

\* The parameters one by one.
LEMMA Parameters ==
    /\ GasFloor \in Nat /\ MinSwap \in Nat /\ MaxBuyback \in Nat
    /\ MaxBasket \in Nat /\ MaxSolAirdrop \in Nat /\ MinSolPayout \in Nat
    /\ MinCasinoDraw \in Nat /\ MaxCasinoPayout \in Nat
    /\ OperatorPct \in Nat /\ AdPct \in Nat
    /\ Fee \in Nat /\ ClaimPolls \in Nat /\ InitialGas \in Nat /\ MaxIncome \in Nat
    /\ StockCount \in Nat \ {0}
    /\ {DryRun, LostReplies} \subseteq BOOLEAN
    /\ Vaults \subseteq Kinds
BY TreasuryAssumption DEF Kinds

-----------------------------------------------------------------------------
(* The type invariant *)

\* The variables other than the transactions in flight.
LEMMA InitType == Init => TypeOK
<1> SUFFICES ASSUME Init PROVE TypeOK
    OBVIOUS
<1>1. flight \subseteq Tx /\ IsFiniteSet(flight)
    BY FS_EmptySet DEF Init
<1> QED
    BY <1>1, Parameters DEF Init, TypeOK, Steps, Legs, Totals, Spends, Gates

\* Adding a natural number to one entry of a ledger keeps its type.
LEMMA AddType ==
    ASSUME NEW S, NEW f \in [S -> Nat], NEW k \in S, NEW x \in Nat
    PROVE  Add(f, k, x) \in [S -> Nat]
BY DEF Add

\* Leaving a tick.
LEMMA GoIdleType ==
    ASSUME GoIdle
    PROVE  /\ pc' \in Steps
           /\ before' \in Nat /\ claimed' \in Int /\ leg' \in Legs
           /\ amount' \in Nat /\ tries' \in Nat /\ left' \in Nat /\ got' \in Nat
           /\ spent' \in [Spends -> Nat]
BY DEF GoIdle, Steps, Legs, Spends

\* The entries of the ledgers.
LEMMA Entries ==
    /\ "measured" \in Totals /\ "collected" \in Totals /\ "cut" \in Totals
    /\ "fed" \in Totals /\ "burned" \in Totals
    /\ "buyback" \in Spends /\ "basket" \in Spends
    /\ "prize" \in Spends /\ "share" \in Spends
    /\ Spends \subseteq Kinds /\ "operator" \in Spends
BY DEF Totals, Spends, Kinds

\* Submitting one payment of a tick: the transaction and the tick's spending.
LEMMA PaymentType ==
    ASSUME TypeOK, HasRoom, NEW kind \in Spends, NEW amt \in Nat,
           NEW polled \in BOOLEAN
    PROVE  /\ Sending(kind, amt, polled) \subseteq Tx
           /\ IsFiniteSet(Sending(kind, amt, polled))
           /\ Add(spent, kind, amt) \in [Spends -> Nat]
<1>1. spent \in [Spends -> Nat] /\ kind \in Kinds
    BY Entries DEF TypeOK
<1> QED
    BY <1>1, SendingType, AddType

\* What a step that may submit one payment does to both.
LEMMA SubmittedType ==
    ASSUME TypeOK, NEW kind \in Spends, NEW amt \in Nat,
           \/ UNCHANGED <<flight, spent>>
           \/ /\ HasRoom
              /\ \E polled \in BOOLEAN : flight' = Sending(kind, amt, polled)
              /\ spent' = Add(spent, kind, amt)
    PROVE  /\ flight' \subseteq Tx /\ IsFiniteSet(flight')
           /\ spent' \in [Spends -> Nat]
<1>1. CASE UNCHANGED <<flight, spent>>
    BY <1>1 DEF TypeOK
<1>2. CASE /\ HasRoom
           /\ \E polled \in BOOLEAN : flight' = Sending(kind, amt, polled)
           /\ spent' = Add(spent, kind, amt)
    <2>1. PICK polled \in BOOLEAN : flight' = Sending(kind, amt, polled)
        BY <1>2
    <2> QED
        BY <1>2, <2>1, PaymentType
<1> QED
    BY <1>1, <1>2

LEMMA ClaimType ==
    ASSUME TypeOK, OperatorInv,
           \/ StartTick \/ ReadBefore \/ ReadBeforeFails
           \/ (\E v \in Vaults : SendClaim(v)) \/ SkipClaim \/ ClaimsSubmitted
           \/ PollClaims \/ Measure \/ PayOperator \/ Book \/ MarkClaim
    PROVE  TypeOK'
<1> USE DEF outside, files, locals, claiming
<1>1. CASE StartTick
    BY <1>1 DEF TypeOK, StartTick, Steps
<1>2. CASE ReadBefore
    BY <1>2 DEF TypeOK, ReadBefore, Steps, Claims
<1>3. CASE ReadBeforeFails
    BY <1>3 DEF TypeOK, ReadBeforeFails, Steps
<1>4. CASE \E v \in Vaults : SendClaim(v)
    <2> PICK v \in Vaults : SendClaim(v)
        BY <1>4
    <2>1. flight' \subseteq Tx /\ IsFiniteSet(flight')
        <3>1. PICK heard \in Heard : flight' = Sending(v, 0, heard)
            BY DEF SendClaim
        <3>2. heard \in BOOLEAN /\ v \in Kinds /\ HasRoom
            BY Parameters DEF Heard, SendClaim
        <3> QED
            BY <3>1, <3>2, SendingType
    <2>2. tries' \in Nat
        BY DEF SendClaim, TypeOK
    <2>3. UNCHANGED claiming
        BY DEF SendClaim
    <2> QED
        BY <2>1, <2>2, <2>3 DEF TypeOK
<1>5. CASE SkipClaim
    BY <1>5 DEF TypeOK, SkipClaim
<1>6. CASE ClaimsSubmitted
    BY <1>6, Parameters DEF TypeOK, ClaimsSubmitted, Steps
<1>6a. CASE PollClaims
    <2>1. tries' \in Nat
        BY <1>6a DEF TypeOK, PollClaims
    <2> QED
        BY <1>6a, <2>1 DEF TypeOK, PollClaims, polling
<1>7. CASE Measure
    <2>1. flight' \subseteq Tx /\ IsFiniteSet(flight')
        <3>1. flight' = Unpolled(Vaults)
            BY <1>7 DEF Measure
        <3> QED
            BY <3>1, UnpolledType
    <2>2. NonNeg(chain - before) \in Nat /\ chain - before \in Int
        BY DEF TypeOK, NonNeg
    <2>3. claimed' \in Int /\ pc' \in Steps
        BY <1>7, <2>2 DEF Measure, TypeOK, Steps
    <2>5. sum' = sum \/ sum' = Add(sum, "measured", NonNeg(chain - before))
        BY <1>7 DEF Measure
    <2>6. sum' \in [Totals -> Nat]
        <3> sum \in [Totals -> Nat]
            BY DEF TypeOK
        <3> QED
            BY <2>2, <2>5, AddType, Entries
    <2>4. /\ tries' = 0 /\ got' = 0
          /\ UNCHANGED <<outside, files, before, leg, amount, left, spent>>
        BY <1>7 DEF Measure
    <2> QED
        BY <2>1, <2>3, <2>4, <2>6 DEF TypeOK
<1>8. CASE PayOperator
    <2> DEFINE cut == OperatorCut(claimed)
    <2>1. cut \in Nat
        <3>1. claimed \in Nat
            BY <1>8 DEF TypeOK, OperatorInv, PayOperator
        <3> QED
            BY <3>1, PctFacts, Parameters DEF OperatorCut
    <2>2. UNCHANGED <<outside, files, before, claimed, amount, tries, left, got>>
        BY <1>8 DEF PayOperator
    <2>3. leg' \in Legs /\ pc' \in Steps
        BY <1>8 DEF PayOperator, StartBooking, TypeOK, Legs, Steps
    <2>4. sum' = sum \/ sum' = Add(sum, "cut", cut)
        BY <1>8 DEF PayOperator
    <2>5. sum' \in [Totals -> Nat]
        <3>1. sum \in [Totals -> Nat]
            BY DEF TypeOK
        <3> HIDE DEF cut
        <3> QED
            BY <2>1, <2>4, <3>1, AddType, Entries
    <2>6. \/ UNCHANGED <<flight, spent>>
          \/ SendCut(cut)
        BY <1>8 DEF PayOperator
    <2> HIDE DEF cut
    <2>7. /\ flight' \subseteq Tx /\ IsFiniteSet(flight')
          /\ spent' \in [Spends -> Nat]
        BY <2>1, <2>6, SubmittedType, Entries DEF SendCut
    <2> QED
        BY <2>2, <2>3, <2>5, <2>7 DEF TypeOK
<1>9. CASE Book
    <2> DEFINE share == NonNeg(Share(leg, claimed))
    <2>1. share \in Nat
        BY <1>9, ShareType DEF TypeOK, OperatorInv, Book
    <2>5. /\ book' = Add(book, leg, share)
          /\ sum' = sum \/ sum' = Add(sum, "fed", share)
        BY <1>9 DEF Book
    <2>2. book' \in [Legs \cup {"total"} -> Nat] /\ sum' \in [Totals -> Nat]
        <3> HIDE DEF share
        <3>1. book \in [Legs \cup {"total"} -> Nat] /\ leg \in Legs \cup {"total"}
            BY DEF TypeOK
        <3>2. sum \in [Totals -> Nat]
            BY DEF TypeOK
        <3>3. book' \in [Legs \cup {"total"} -> Nat]
            BY <2>1, <2>5, <3>1, AddType
        <3>4. sum' \in [Totals -> Nat]
            BY <2>1, <2>5, <3>2, AddType, Entries
        <3> QED
            BY <3>3, <3>4
    <2>3. leg' \in Legs /\ pc' \in Steps
        BY <1>9 DEF Book, TypeOK, NextLeg, Legs, Steps
    <2>4. UNCHANGED <<outside, due, flight, before, claimed, amount, tries, left,
                      got, spent>>
        BY <1>9 DEF Book
    <2> QED
        BY <2>2, <2>3, <2>4 DEF TypeOK
<1>10. CASE MarkClaim
    BY <1>10 DEF TypeOK, MarkClaim, Steps, Gates
<1> QED
    BY <1>1, <1>2, <1>3, <1>4, <1>5, <1>6, <1>6a, <1>7, <1>8, <1>9, <1>10

LEMMA SwapType ==
    ASSUME TypeOK, SpentInv,
           \/ StartBuyback \/ TryRoute \/ NoRouteLeft
           \/ StartBasket \/ BuyStock \/ BasketBought \/ Debit \/ Count
    PROVE  TypeOK'
<1> USE DEF outside, files, locals
<1>1. CASE StartBuyback
    <2>1. amount' \in Nat /\ tries' \in Nat
        BY <1>1, Parameters DEF TypeOK, StartBuyback, Least, Legs
    <2> QED
        BY <1>1, <2>1 DEF TypeOK, StartBuyback, Steps
<1>2. CASE TryRoute
    <2>1. /\ flight' \subseteq Tx /\ IsFiniteSet(flight')
          /\ spent' \in [Spends -> Nat]
        <3>1. \/ UNCHANGED <<flight, spent>>
              \/ /\ HasRoom
                 /\ flight' = Sending("buyback", amount, FALSE)
                 /\ spent' = Add(spent, "buyback", amount)
            BY <1>2 DEF TryRoute
        <3> QED
            BY <3>1, SubmittedType, Entries DEF TypeOK
    <2>2. tries' \in Nat /\ leg' \in Legs /\ pc' \in Steps
        <3>1. /\ tries > 0
              /\ \/ pc' = "debit" /\ leg' = "cpm" /\ tries' = 0
                 \/ tries' = tries - 1 /\ UNCHANGED <<pc, leg>>
            BY <1>2 DEF TryRoute
        <3> QED
            BY <3>1 DEF TypeOK, Steps, Legs
    <2>3. UNCHANGED <<outside, files, before, claimed, amount, left, got, sum>>
        BY <1>2 DEF TryRoute
    <2> QED
        BY <2>1, <2>2, <2>3 DEF TypeOK
<1>3. CASE NoRouteLeft
    BY <1>3 DEF TypeOK, NoRouteLeft, Steps
<1>4. CASE StartBasket
    <2>1. PerStock \in Nat
        BY BasketWithinCap DEF TypeOK, PerStock, Legs
    <2> QED
        BY <1>4, <2>1, Parameters DEF TypeOK, StartBasket, Steps
<1>5. CASE BuyStock
    <2>1. /\ flight' \subseteq Tx /\ IsFiniteSet(flight')
          /\ spent' \in [Spends -> Nat]
        <3>1. \/ UNCHANGED <<flight, spent>>
              \/ /\ HasRoom
                 /\ flight' = Sending("basket", amount, FALSE)
                 /\ spent' = Add(spent, "basket", amount)
            BY <1>5 DEF BuyStock
        <3> QED
            BY <3>1, SubmittedType, Entries DEF TypeOK
    <2>2. tries' \in Nat /\ got' \in Nat
        <3>1. tries > 0 /\ tries' = tries - 1 /\ got' \in {got, got + 1}
            BY <1>5 DEF BuyStock
        <3> QED
            BY <3>1 DEF TypeOK
    <2>3. UNCHANGED <<outside, files, pc, before, claimed, leg, amount, left, sum>>
        BY <1>5 DEF BuyStock
    <2> QED
        BY <2>1, <2>2, <2>3 DEF TypeOK
<1>6. CASE BasketBought
    <2>1. amount' \in Nat
        BY <1>6 DEF TypeOK, BasketBought
    <2> QED
        BY <1>6, <2>1 DEF TypeOK, BasketBought, Steps, Legs
<1>7. CASE Debit
    <2>1. book' \in [Legs \cup {"total"} -> Nat]
        BY <1>7 DEF TypeOK, Debit, NonNeg
    <2> QED
        BY <1>7, <2>1 DEF TypeOK, Debit, Steps
<1>8. CASE Count
    <2>1. book' \in [Legs \cup {"total"} -> Nat]
        BY <1>8, AddType DEF TypeOK, Count
    <2>2. pc' \in Steps
        BY <1>8 DEF TypeOK, SpentInv, Count, AfterSpend, Legs, Steps
    <2> QED
        BY <1>8, <2>1, <2>2 DEF TypeOK, Count
<1> QED
    BY <1>1, <1>2, <1>3, <1>4, <1>5, <1>6, <1>7, <1>8

LEMMA PayoutType ==
    ASSUME TypeOK,
           \/ SkipDraw \/ DrawWinner \/ SendPrize \/ MarkCasino
           \/ SkipAirdrop \/ StartAirdrop \/ SendShare \/ EndShares \/ TokenLegs
           \/ Crash
    PROVE  TypeOK'
<1> USE DEF outside, files, locals
<1>1. CASE SkipDraw
    BY <1>1 DEF TypeOK, SkipDraw, Steps
<1>2. CASE DrawWinner
    <2>1. Prize \in Nat
        BY Parameters DEF TypeOK, Prize, Least, NonNeg, Legs
    <2> QED
        BY <1>2, <2>1 DEF TypeOK, DrawWinner, Steps
<1>3. CASE SendPrize
    <2>1. /\ flight' \subseteq Tx /\ IsFiniteSet(flight')
          /\ spent' \in [Spends -> Nat]
        <3>1. \/ UNCHANGED <<flight, spent>>
              \/ /\ HasRoom
                 /\ flight' = Sending("prize", amount, FALSE)
                 /\ spent' = Add(spent, "prize", amount)
            BY <1>3 DEF SendPrize
        <3> QED
            BY <3>1, SubmittedType, Entries DEF TypeOK
    <2>2. amount' \in Nat /\ leg' \in Legs /\ pc' \in Steps
        <3>1. \/ pc' = "debit" /\ leg' = "casino" /\ UNCHANGED amount
              \/ pc' = "airdrop" /\ amount' = 0 /\ UNCHANGED leg
            BY <1>3 DEF SendPrize
        <3> QED
            BY <3>1 DEF TypeOK, Steps, Legs
    <2>3. UNCHANGED <<outside, files, before, claimed, tries, left, got, sum>>
        BY <1>3 DEF SendPrize
    <2> QED
        BY <2>1, <2>2, <2>3 DEF TypeOK
<1>4. CASE MarkCasino
    BY <1>4 DEF TypeOK, MarkCasino, Steps, Gates
<1>5. CASE SkipAirdrop
    BY <1>5, GoIdleType DEF TypeOK, SkipAirdrop
<1>6. CASE StartAirdrop
    <2>1. ToPay \in Nat
        BY Parameters DEF TypeOK, ToPay, Least, NonNeg, Legs
    <2> QED
        BY <1>6, <2>1 DEF TypeOK, StartAirdrop, Steps
<1>7. CASE SendShare
    <2>1. PICK a \in MinSolPayout .. left :
              /\ left' = left - a
              /\ \/ /\ HasRoom
                    /\ \E heard \in Heard : flight' = Sending("share", a, heard)
                    /\ spent' = Add(spent, "share", a)
                 \/ UNCHANGED <<flight, spent>>
        BY <1>7 DEF SendShare
    <2>2. a \in Nat /\ left' \in Nat
        BY <2>1, Parameters DEF TypeOK
    <2>3. \A heard \in Heard : heard \in BOOLEAN
        BY DEF Heard
    <2>4. /\ flight' \subseteq Tx /\ IsFiniteSet(flight')
          /\ spent' \in [Spends -> Nat]
        BY <2>1, <2>2, <2>3, SubmittedType, Entries
    <2>5. UNCHANGED <<outside, files, pc, before, claimed, leg, amount, tries, got,
                      sum>>
        BY <1>7 DEF SendShare
    <2> QED
        BY <2>2, <2>4, <2>5 DEF TypeOK
<1>8. CASE EndShares
    <2>1. flight' = Unpolled({"share"})
        BY <1>8 DEF EndShares
    <2>2. flight' \subseteq Tx /\ IsFiniteSet(flight')
        BY <2>1, UnpolledType
    <2>3. /\ amount' \in Nat /\ leg' \in Legs /\ pc' \in Steps
          /\ left' \in Nat /\ got' \in Nat
        BY <1>8 DEF TypeOK, EndShares, Steps, Legs
    <2>4. UNCHANGED <<outside, files, before, claimed, tries, sum, spent>>
        BY <1>8 DEF EndShares
    <2> QED
        BY <2>2, <2>3, <2>4 DEF TypeOK
<1>9. CASE TokenLegs
    <2>1. PICK fees \in {0, Fee} :
              /\ fees <= chain
              /\ chain' = chain - fees
              /\ sum' = Add(sum, "burned", fees)
        BY <1>9 DEF TokenLegs
    <2>2. fees \in Nat
        BY Parameters
    <2>3. chain' \in Nat
        BY <2>1, <2>2 DEF TypeOK
    <2>4. sum' \in [Totals -> Nat]
        BY <2>1, <2>2, AddType, Entries DEF TypeOK
    <2>5. due' \in [Gates -> BOOLEAN]
        BY <1>9, Parameters DEF TypeOK, TokenLegs
    <2>6. GoIdle /\ UNCHANGED <<vault, income, book, flight>>
        BY <1>9 DEF TokenLegs
    <2> QED
        BY <2>3, <2>4, <2>5, <2>6, GoIdleType DEF TypeOK
<1>10. CASE Crash
    <2>1. flight' = Unpolled(Kinds)
        BY <1>10 DEF Crash
    <2>2. flight' \subseteq Tx /\ IsFiniteSet(flight')
        BY <2>1, UnpolledType
    <2>3. GoIdle /\ UNCHANGED <<outside, files, sum>>
        BY <1>10 DEF Crash
    <2> QED
        BY <2>2, <2>3, GoIdleType DEF TypeOK
<1> QED
    BY <1>1, <1>2, <1>3, <1>4, <1>5, <1>6, <1>7, <1>8, <1>9, <1>10

LEMMA WorldType ==
    ASSUME TypeOK, World
    PROVE  TypeOK'
<1> USE DEF outside, files, locals
<1>1. CASE \E g \in Gates : Elapse(g)
    BY <1>1 DEF TypeOK, Elapse
<1>2. CASE \E v \in Vaults : Accrue(v)
    <2>1. PICK v \in Vaults, i \in Incomes :
              income' = income + i /\ vault' = Add(vault, v, i)
        BY <1>2 DEF Accrue
    <2>2. i \in Nat
        BY TreasuryAssumption
    <2>3. vault' \in [Vaults -> Nat] /\ income' \in Nat
        BY <2>1, <2>2, AddType DEF TypeOK
    <2> QED
        BY <1>2, <2>3 DEF TypeOK, Accrue
<1>3. CASE Deposit
    <2>1. Deposits \subseteq Nat
        BY TreasuryAssumption
    <2> QED
        BY <1>3, <2>1 DEF TypeOK, Deposit
<1>4. CASE PaymentLands
    <2>1. PICK x \in flight : LandPayment(x) /\ Settled(x)
        BY <1>4 DEF PaymentLands
    <2>2. x.amt \in Nat /\ Fee \in Nat
        BY Parameters DEF TypeOK, Tx
    <2>3. chain' \in Nat /\ got' \in Nat
        BY <2>1, <2>2 DEF TypeOK, LandPayment, Noticed
    <2>4. sum' \in [Totals -> Nat]
        <3> DEFINE aired == IF x.kind = "share" THEN x.amt ELSE 0
        <3>1. sum' = [sum EXCEPT !["burned"] = @ + Fee, !["aired"] = @ + aired]
            BY <2>1 DEF LandPayment
        <3>2. aired \in Nat
            BY <2>2
        <3> HIDE DEF aired
        <3> QED
            BY <2>2, <3>1, <3>2 DEF TypeOK, Totals
    <2>5. flight' \subseteq Tx /\ IsFiniteSet(flight')
        BY <2>1, LessType DEF Settled
    <2> QED
        BY <2>1, <2>3, <2>4, <2>5 DEF TypeOK, LandPayment, Settled
<1>5. CASE \E v \in Vaults : ClaimLands(v)
    <2>1. PICK v \in Vaults, x \in flight : x.kind = v /\ LandClaim(x) /\ Settled(x)
        BY <1>5 DEF ClaimLands
    <2>2. vault[x.kind] \in Nat /\ Fee \in Nat
        BY <2>1, Parameters DEF TypeOK
    <2>3. chain' \in Nat /\ vault' \in [Vaults -> Nat] /\ got' \in Nat
        BY <2>1, <2>2 DEF TypeOK, LandClaim
    <2>4. sum' = Add(Add(sum, "collected", vault[x.kind]), "burned", Fee)
        BY <2>1 DEF LandClaim
    <2>5. Add(sum, "collected", vault[x.kind]) \in [Totals -> Nat]
        BY <2>2, AddType, Entries DEF TypeOK
    <2>6. sum' \in [Totals -> Nat]
        BY <2>2, <2>4, <2>5, AddType, Entries
    <2>7. flight' \subseteq Tx /\ IsFiniteSet(flight')
        BY <2>1, LessType DEF Settled
    <2> QED
        BY <2>1, <2>3, <2>6, <2>7 DEF TypeOK, Settled
<1>6. CASE Drop
    <2>1. PICK x \in flight :
              /\ flight' = flight \ {x}
              /\ \/ got' = Expired(x) /\ UNCHANGED <<chain, sum>>
                 \/ /\ chain >= Fee /\ chain' = chain - Fee
                    /\ sum' = Add(sum, "burned", Fee) /\ UNCHANGED got
        BY <1>6 DEF Drop
    <2>2. chain' \in Nat /\ got' \in Nat
        BY <2>1, Parameters DEF TypeOK, Expired
    <2>3. sum' \in [Totals -> Nat]
        <3>1. sum \in [Totals -> Nat] /\ Fee \in Nat
            BY Parameters DEF TypeOK
        <3>2. sum' = sum \/ sum' = Add(sum, "burned", Fee)
            BY <2>1
        <3> QED
            BY <3>1, <3>2, AddType, Entries
    <2>4. flight' \subseteq Tx /\ IsFiniteSet(flight')
        BY <2>1, LessType
    <2> QED
        BY <1>6, <2>2, <2>3, <2>4 DEF TypeOK, Drop
<1> QED
    BY <1>1, <1>2, <1>3, <1>4, <1>5, <1>6 DEF World, Land

-----------------------------------------------------------------------------
(* What one tick spends *)

\* The claim and its split submit nothing but the operator's cut.
LEMMA ClaimQuiet ==
    ASSUME TypeOK,
           \/ StartTick \/ ReadBefore \/ ReadBeforeFails
           \/ (\E v \in Vaults : SendClaim(v)) \/ SkipClaim \/ ClaimsSubmitted
           \/ PollClaims \/ Measure \/ PayOperator \/ Book \/ MarkClaim
    PROVE  /\ UNCHANGED <<amount, left>>
           /\ \A k \in Spends \ {"operator"} : spent'[k] = spent[k]
           /\ \/ pc \in {"idle", "before", "claim", "measure", "operator", "book"}
              \/ pc = "markClaim" /\ pc' = "casino"
           /\ pc' \in {"before", "casino", "claim", "markClaim", "measure",
                       "operator", "book", "swap"}
<1>1. CASE StartTick \/ ReadBefore \/ ReadBeforeFails
    BY <1>1 DEF StartTick, ReadBefore, ReadBeforeFails, locals
<1>2. CASE \/ (\E v \in Vaults : SendClaim(v)) \/ SkipClaim \/ ClaimsSubmitted
           \/ PollClaims
    BY <1>2 DEF SendClaim, SkipClaim, ClaimsSubmitted, PollClaims, polling, claiming
<1>3. CASE Measure
    BY <1>3 DEF Measure
<1>4. CASE PayOperator
    <2>1. spent' = spent \/ spent' = Add(spent, "operator", OperatorCut(claimed))
        BY <1>4 DEF PayOperator, SendCut
    <2>2. \A k \in Spends \ {"operator"} : spent'[k] = spent[k]
        BY <2>1 DEF Add, TypeOK
    <2> QED
        BY <1>4, <2>2 DEF PayOperator, StartBooking
<1>5. CASE Book \/ MarkClaim
    BY <1>5 DEF Book, MarkClaim
<1> QED
    BY <1>1, <1>2, <1>3, <1>4, <1>5

LEMMA ClaimSpent ==
    ASSUME TypeOK, SpentInv,
           \/ StartTick \/ ReadBefore \/ ReadBeforeFails
           \/ (\E v \in Vaults : SendClaim(v)) \/ SkipClaim \/ ClaimsSubmitted
           \/ PollClaims \/ Measure \/ PayOperator \/ Book \/ MarkClaim
    PROVE  SpentInv'
BY ClaimQuiet DEF SpentInv, CapsHold, BasketAhead, PrizeAhead, SharesAhead,
                  BuybackAhead, Spending, Spends

\* Ending a tick clears what it spent.
LEMMA GoIdleSpent ==
    ASSUME GoIdle
    PROVE  SpentInv'
BY Parameters DEF GoIdle, SpentInv, CapsHold, Spends

LEMMA SwapSpent ==
    ASSUME TypeOK, SpentInv,
           \/ StartBuyback \/ TryRoute \/ NoRouteLeft
           \/ StartBasket \/ BuyStock \/ BasketBought \/ Debit \/ Count
    PROVE  SpentInv'
<1> USE DEF BasketAhead, PrizeAhead, SharesAhead, BuybackAhead, Spending, locals
<1>1. CASE StartBuyback
    BY <1>1 DEF SpentInv, CapsHold, StartBuyback
<1>2. CASE TryRoute
    <2>1. /\ spent'["basket"] = spent["basket"] /\ spent'["prize"] = spent["prize"]
          /\ spent'["share"] = spent["share"]
          /\ pc = "buyback"
          /\ pc' = pc \/ (pc' = "debit" /\ leg' = "cpm")
        BY <1>2 DEF TryRoute, Add, TypeOK, Spends
    <2> QED
        BY <2>1 DEF SpentInv, CapsHold
<1>3. CASE NoRouteLeft
    BY <1>3 DEF SpentInv, CapsHold, NoRouteLeft
<1>4. CASE StartBasket
    <2>1. PerStock * StockCount <= MaxBasket
        BY BasketWithinCap DEF PerStock, TypeOK, Legs
    <2>2. /\ UNCHANGED spent
          /\ pc = "basket"
          /\ \/ pc' = "stocks" /\ amount' = PerStock /\ tries' = StockCount
             \/ pc' = "markClaim"
        BY <1>4 DEF StartBasket
    <2>3. PerStock \in Nat /\ StockCount \in Nat
        BY BasketWithinCap, Parameters DEF PerStock, TypeOK, Legs
    <2>4. spent["basket"] = 0
        BY <2>2 DEF SpentInv
    <2>5. pc' = "stocks" => spent'["basket"] + amount' * tries' <= MaxBasket
        <3> DEFINE all == PerStock * StockCount
        <3>1. all \in Nat
            BY <2>3
        <3>2. pc' = "stocks" => amount' * tries' = all
            BY <2>2
        <3> QED
            BY <2>1, <2>2, <2>4, <3>1, <3>2
    <2> QED
        BY <2>2, <2>5 DEF SpentInv, CapsHold
<1>5. CASE BuyStock
    <2> DEFINE rest == amount * tries'
    <2>1. tries' \in Nat /\ amount \in Nat /\ tries = tries' + 1
        BY <1>5 DEF TypeOK, BuyStock
    <2>2. amount * tries = rest + amount /\ rest \in Nat
        <3>1. \A x, y \in Nat : x * (y + 1) = x * y + x /\ x * y \in Nat
            OBVIOUS
        <3> QED
            BY <2>1, <3>1
    <2>3. /\ pc = "stocks" /\ pc' = "stocks" /\ UNCHANGED <<amount, left>>
          /\ spent' = spent \/ spent' = Add(spent, "basket", amount)
        BY <1>5 DEF BuyStock
    <2>4. /\ spent'["prize"] = spent["prize"] /\ spent'["share"] = spent["share"]
          /\ spent'["basket"] \in Nat
          /\ spent'["basket"] <= spent["basket"] + amount
        BY <2>1, <2>3 DEF Add, TypeOK, Spends
    <2>5. spent["basket"] + (rest + amount) <= MaxBasket
        BY <2>2, <2>3 DEF SpentInv
    <2>6. spent["basket"] \in Nat /\ MaxBasket \in Nat
        BY Parameters DEF TypeOK, Spends
    <2> HIDE DEF rest
    <2>7. spent'["basket"] + rest <= MaxBasket
        BY <2>1, <2>2, <2>4, <2>5, <2>6
    <2>8. spent'["basket"] <= MaxBasket
        BY <2>2, <2>4, <2>6, <2>7
    <2>9. amount' * tries' = rest
        BY <2>3 DEF rest
    <2> QED
        BY <2>3, <2>4, <2>7, <2>8, <2>9 DEF SpentInv, CapsHold
<1>6. CASE BasketBought
    BY <1>6 DEF SpentInv, CapsHold, BasketBought
<1>7. CASE Debit
    BY <1>7 DEF SpentInv, CapsHold, Debit
<1>8. CASE Count
    <2>1. /\ UNCHANGED <<spent, leg>> /\ pc = "count"
          /\ pc' = AfterSpend[leg] /\ leg \in Legs \ {"ad"}
        BY <1>8 DEF SpentInv, Count, TypeOK
    <2>2. \/ leg = "cpm" /\ pc' = "basket"
          \/ leg = "stock" /\ pc' = "markClaim"
          \/ leg = "casino" /\ pc' = "markCasino"
          \/ leg = "sol" /\ pc' = "tokens"
        BY <2>1 DEF AfterSpend, Legs
    <2> QED
        BY <2>1, <2>2 DEF SpentInv, CapsHold
<1> QED
    BY <1>1, <1>2, <1>3, <1>4, <1>5, <1>6, <1>7, <1>8

LEMMA PayoutSpent ==
    ASSUME TypeOK, SpentInv,
           \/ SkipDraw \/ DrawWinner \/ SendPrize \/ MarkCasino
           \/ SkipAirdrop \/ StartAirdrop \/ SendShare \/ EndShares \/ TokenLegs
           \/ Crash
    PROVE  SpentInv'
<1> USE DEF BasketAhead, PrizeAhead, SharesAhead, BuybackAhead, Spending, locals
<1>1. CASE SkipDraw
    BY <1>1 DEF SpentInv, CapsHold, SkipDraw
<1>2. CASE DrawWinner
    <2>1. Prize <= MaxCasinoPayout
        BY Parameters DEF Prize, Least, NonNeg, TypeOK, Legs
    <2> QED
        BY <1>2, <2>1 DEF SpentInv, CapsHold, DrawWinner
<1>3. CASE SendPrize
    <2>1. /\ spent["prize"] = 0 /\ amount <= MaxCasinoPayout
          /\ spent'["basket"] = spent["basket"]
          /\ spent'["share"] = spent["share"]
          /\ spent'["prize"] \in {spent["prize"], spent["prize"] + amount}
          /\ (pc' = "debit" /\ leg' = "casino") \/ pc' = "airdrop"
        BY <1>3 DEF SpentInv, SendPrize, Add, TypeOK, Spends
    <2>2. amount \in Nat
        BY DEF TypeOK
    <2> QED
        BY <1>3, <2>1, <2>2 DEF SpentInv, CapsHold, SendPrize
<1>4. CASE MarkCasino
    BY <1>4 DEF SpentInv, CapsHold, MarkCasino
<1>5. CASE SkipAirdrop
    BY <1>5, GoIdleSpent DEF SkipAirdrop
<1>6. CASE StartAirdrop
    <2>1. ToPay <= MaxSolAirdrop
        BY Parameters DEF ToPay, Least, NonNeg, TypeOK, Legs
    <2>2. ToPay \in Nat
        BY Parameters DEF TypeOK, ToPay, Least, NonNeg, Legs
    <2> QED
        BY <1>6, <2>1, <2>2 DEF SpentInv, CapsHold, StartAirdrop
<1>7. CASE SendShare
    <2>1. PICK a \in MinSolPayout .. left :
              /\ left' = left - a
              /\ spent' \in {spent, Add(spent, "share", a)}
        BY <1>7 DEF SendShare
    <2>2. a \in Nat /\ left \in Nat
        BY <2>1, Parameters DEF TypeOK
    <2>3. /\ spent'["basket"] = spent["basket"] /\ spent'["prize"] = spent["prize"]
          /\ spent'["share"] \in {spent["share"], spent["share"] + a}
          /\ spent["share"] \in Nat
        BY <2>1 DEF Add, TypeOK, Spends
    <2>4. pc = "shares" /\ pc' = "shares"
        BY <1>7 DEF SendShare
    <2> QED
        BY <2>1, <2>2, <2>3, <2>4, Parameters DEF SpentInv, CapsHold
<1>8. CASE EndShares
    BY <1>8 DEF SpentInv, CapsHold, EndShares
<1>9. CASE TokenLegs
    BY <1>9, GoIdleSpent DEF TokenLegs
<1>10. CASE Crash
    BY <1>10, GoIdleSpent DEF Crash
<1> QED
    BY <1>1, <1>2, <1>3, <1>4, <1>5, <1>6, <1>7, <1>8, <1>9, <1>10

\* The world changes nothing that a tick's spending depends on.
LEMMA WorldKeeps ==
    ASSUME World
    PROVE  UNCHANGED <<book, pc, before, claimed, leg, amount, tries, left, spent>>
BY DEF World, Elapse, Accrue, Deposit, Land, PaymentLands, ClaimLands, Settled, Drop,
       locals, files

LEMMA WorldSpent ==
    ASSUME SpentInv, UNCHANGED <<pc, leg, amount, tries, left, spent>>
    PROVE  SpentInv'
BY DEF SpentInv, CapsHold, BasketAhead, PrizeAhead, SharesAhead, BuybackAhead, Spending

\* The buyback: one submission per tick unless a reply is lost.
LEMMA BuybackStep ==
    ASSUME TypeOK, SpentInv, BuybackInv, Next
    PROVE  BuybackInv'
<1> USE DEF BuybackInv, BuybackWithinCap, BuybackAhead, locals
<1>1. CASE \/ StartTick \/ ReadBefore \/ ReadBeforeFails
           \/ (\E v \in Vaults : SendClaim(v)) \/ SkipClaim \/ ClaimsSubmitted
           \/ PollClaims \/ Measure \/ PayOperator \/ Book \/ MarkClaim
    <2> HIDE DEF locals
    <2> QED
        BY <1>1, ClaimQuiet DEF Spends
<1>2. CASE StartBuyback
    <2>1. Least(book["cpm"], MaxBuyback) <= MaxBuyback
        BY Parameters DEF Least, TypeOK, Legs
    <2> QED
        BY <1>2, <2>1 DEF StartBuyback
<1>3. CASE TryRoute
    <2>1. /\ pc = "buyback" /\ UNCHANGED amount
          /\ \/ pc' = "debit" /\ spent' = Add(spent, "buyback", amount)
             \/ pc' = "buyback" /\ UNCHANGED spent
             \/ LostReplies /\ pc' = "buyback"
        BY <1>3 DEF TryRoute
    <2>2. Add(spent, "buyback", amount)["buyback"] = spent["buyback"] + amount
        BY DEF Add, TypeOK, Spends
    <2>3. amount \in Nat /\ MaxBuyback \in Nat
        BY Parameters DEF TypeOK
    <2> QED
        BY <2>1, <2>2, <2>3
<1>4. CASE NoRouteLeft \/ StartBasket \/ BasketBought \/ Debit
    BY <1>4 DEF NoRouteLeft, StartBasket, BasketBought, Debit
<1>5. CASE BuyStock
    <2>1. /\ pc = "stocks" /\ pc' = "stocks"
          /\ spent'["buyback"] = spent["buyback"]
        BY <1>5 DEF BuyStock, Add, TypeOK, Spends
    <2> QED
        BY <2>1
<1>6. CASE Count
    <2>1. /\ pc = "count" /\ UNCHANGED spent /\ leg \in Legs
          /\ pc' = AfterSpend[leg]
        BY <1>6 DEF Count, TypeOK
    <2>2. \/ leg = "ad"
          \/ pc' \in {"basket", "markClaim", "markCasino", "tokens"}
        BY <2>1 DEF AfterSpend, Legs
    <2> QED
        BY <2>1, <2>2 DEF SpentInv
<1>7. CASE SkipDraw \/ DrawWinner \/ MarkCasino \/ StartAirdrop \/ EndShares
    BY <1>7 DEF SkipDraw, DrawWinner, MarkCasino, StartAirdrop, EndShares
<1>8. CASE SendPrize
    <2>1. /\ pc = "draw" /\ pc' \in {"debit", "airdrop"}
          /\ spent'["buyback"] = spent["buyback"]
        BY <1>8 DEF SendPrize, Add, TypeOK, Spends
    <2> QED
        BY <2>1
<1>9. CASE SendShare
    <2>1. PICK a \in MinSolPayout .. left : spent' \in {spent, Add(spent, "share", a)}
        BY <1>9 DEF SendShare
    <2>2. spent'["buyback"] = spent["buyback"]
        BY <2>1 DEF Add, TypeOK, Spends
    <2>3. pc = "shares" /\ pc' = "shares"
        BY <1>9 DEF SendShare
    <2> QED
        BY <2>2, <2>3
<1>10. CASE GoIdle
    BY <1>10, Parameters DEF GoIdle, Spends
<1>11. CASE World
    BY <1>11, WorldKeeps
<1> QED
    BY <1>1, <1>2, <1>3, <1>4, <1>5, <1>6, <1>7, <1>8, <1>9, <1>10, <1>11
    DEF Next, Bot, SkipAirdrop, TokenLegs, Crash

-----------------------------------------------------------------------------
(* The operator is paid first *)

\* The steps before the cut, with nothing sent to the operator yet.
Uncut == {"idle", "before", "claim", "measure", "operator"}

LEMMA OperatorStep ==
    ASSUME TypeOK, SpentInv, OperatorInv, Next
    PROVE  OperatorInv'
<1> USE DEF locals, files
<1>1. CASE \/ StartTick \/ ReadBefore \/ ReadBeforeFails
           \/ (\E v \in Vaults : SendClaim(v)) \/ SkipClaim \/ ClaimsSubmitted
           \/ PollClaims
    <2>1. pc \in Uncut /\ UNCHANGED spent /\ pc' \notin {"operator", "book"}
        BY <1>1 DEF StartTick, ReadBefore, ReadBeforeFails, SendClaim, SkipClaim,
                    ClaimsSubmitted, PollClaims, polling, claiming, Uncut
    <2> QED
        BY <2>1 DEF OperatorInv, Uncut
<1>2. CASE Measure
    <2>1. /\ pc = "measure" /\ UNCHANGED spent
          /\ pc' = "operator" => claimed' > 0
          /\ pc' \in {"operator", "markClaim"}
        BY <1>2 DEF Measure, TypeOK
    <2> QED
        BY <2>1 DEF OperatorInv
<1>3. CASE PayOperator
    <2> DEFINE cut == OperatorCut(claimed)
    <2>1. /\ pc = "operator" /\ pc' \in {"book", "markClaim"} /\ UNCHANGED claimed
          /\ pc' = "book" => \/ UNCHANGED spent /\ (cut = 0 \/ DryRun)
                             \/ spent' = Add(spent, "operator", cut)
        BY <1>3 DEF PayOperator, StartBooking, SendCut
    <2>2. spent["operator"] = 0 /\ claimed \in Nat
        BY <2>1 DEF OperatorInv, TypeOK
    <2>3. cut \in Nat
        BY <2>2, PctFacts, Parameters DEF OperatorCut
    <2>4. Add(spent, "operator", cut)["operator"] = spent["operator"] + cut
        BY DEF Add, TypeOK, Spends
    <2>5. cut' = cut
        BY <2>1
    <2> HIDE DEF cut
    <2>6. pc' = "book" /\ ~DryRun => spent'["operator"] = cut
        BY <2>1, <2>2, <2>3, <2>4
    <2> QED
        BY <2>1, <2>5, <2>6 DEF OperatorInv, cut
<1>4. CASE Book
    <2>1. /\ pc = "book" /\ UNCHANGED <<claimed, spent>>
          /\ pc' \in {"book", "markClaim", "swap"}
        BY <1>4 DEF Book
    <2>2. OperatorCut(claimed)' = OperatorCut(claimed)
        BY <2>1
    <2> QED
        BY <2>1, <2>2 DEF OperatorInv
<1>5. CASE \/ MarkClaim \/ StartBuyback \/ TryRoute \/ NoRouteLeft
           \/ StartBasket \/ BuyStock \/ BasketBought
    <2>1. pc' \notin Uncut \cup {"book"}
        BY <1>5 DEF MarkClaim, StartBuyback, TryRoute, NoRouteLeft, StartBasket,
                    BuyStock, BasketBought, Uncut
    <2> QED
        BY <2>1 DEF OperatorInv, Uncut
<1>6. CASE Debit \/ Count
    <2>1. pc' \notin Uncut \cup {"book"}
        BY <1>6 DEF Debit, Count, AfterSpend, SpentInv, TypeOK, Legs, Uncut
    <2> QED
        BY <2>1 DEF OperatorInv, Uncut
<1>7. CASE \/ SkipDraw \/ DrawWinner \/ SendPrize \/ MarkCasino
           \/ StartAirdrop \/ SendShare \/ EndShares
    <2>1. pc' \notin Uncut \cup {"book"}
        BY <1>7 DEF SkipDraw, DrawWinner, SendPrize, MarkCasino, StartAirdrop,
                    SendShare, EndShares, Uncut
    <2> QED
        BY <2>1 DEF OperatorInv, Uncut
<1>8. CASE SkipAirdrop \/ TokenLegs \/ Crash
    <2>1. pc' = "idle" /\ spent'["operator"] = 0
        BY <1>8 DEF SkipAirdrop, TokenLegs, Crash, GoIdle, Spends
    <2> QED
        BY <2>1 DEF OperatorInv
<1>9. CASE World
    <2>1. UNCHANGED <<pc, claimed, spent>>
        BY <1>9, WorldKeeps
    <2>2. OperatorCut(claimed)' = OperatorCut(claimed)
        BY <2>1
    <2> QED
        BY <2>1, <2>2 DEF OperatorInv
<1> QED
    BY <1>1, <1>2, <1>3, <1>4, <1>5, <1>6, <1>7, <1>8, <1>9 DEF Next, Bot

\* Only the split of a claim adds to a counter.
LEMMA OnlyBookAdds ==
    ASSUME TypeOK, [Next]_vars, NEW l \in Legs, book'[l] > book[l]
    PROVE  Book
<1>1. book[l] \in Nat
    BY DEF TypeOK
<1>2. CASE Debit
    <2>1. book' = [book EXCEPT ![leg] = NonNeg(@ - amount)] /\ leg \in Legs
        BY <1>2 DEF Debit, TypeOK
    <2>2. book[leg] \in Nat /\ amount \in Nat
        BY DEF TypeOK
    <2>3. NonNeg(book[leg] - amount) <= book[leg]
        BY <2>2 DEF NonNeg
    <2>4. book'[l] = IF l = leg THEN NonNeg(book[leg] - amount) ELSE book[l]
        BY <2>1 DEF TypeOK
    <2>5. book'[l] <= book[l]
        BY <1>1, <2>3, <2>4
    <2>6. book'[l] \in Nat
        BY <1>1, <2>2, <2>4 DEF NonNeg
    <2> QED
        BY <1>1, <2>5, <2>6
<1>3. CASE Count
    <2>1. book'[l] = book[l]
        BY <1>3 DEF Count, Add, TypeOK, Legs
    <2> QED
        BY <1>1, <2>1
<1>4. CASE UNCHANGED book
    BY <1>1, <1>4
<1>5. CASE World \/ UNCHANGED vars
    <2>1. UNCHANGED book
        BY <1>5, WorldKeeps DEF vars
    <2> QED
        BY <1>4, <2>1
<1>6. CASE Next /\ ~(Book \/ Debit \/ Count \/ World)
    <2>1. UNCHANGED book
        BY <1>6 DEF Next, Bot, files, StartTick, ReadBefore, ReadBeforeFails,
                    SendClaim, SkipClaim, ClaimsSubmitted, PollClaims, Measure,
                    PayOperator, StartBuyback, TryRoute, NoRouteLeft, StartBasket,
                    BuyStock, BasketBought, MarkClaim, SkipDraw, DrawWinner,
                    SendPrize, MarkCasino, SkipAirdrop, StartAirdrop, SendShare,
                    EndShares, TokenLegs, Crash, claiming, polling
    <2> QED
        BY <1>4, <2>1
<1> QED
    BY <1>2, <1>3, <1>5, <1>6

-----------------------------------------------------------------------------
(* DRY_RUN *)

LEMMA DryRunStep ==
    ASSUME TypeOK, DryRunInv, Next
    PROVE  DryRunInv'
<1> SUFFICES ASSUME DryRun PROVE DryRunInv'
    BY DEF DryRunInv
<1> USE DEF locals, files, outside
<1>0. /\ flight = {} /\ book["total"] = 0
      /\ pc \notin {"stocks", "draw", "shares", "debit", "count"}
      /\ pc = "buyback" => tries = 0
    BY DEF DryRunInv
<1>1. \A kinds : Unpolled(kinds) = {}
    BY <1>0 DEF Unpolled
<1>2. CASE \/ StartTick \/ ReadBefore \/ ReadBeforeFails \/ SkipClaim
           \/ ClaimsSubmitted \/ PollClaims \/ MarkClaim
    BY <1>0, <1>2 DEF DryRunInv, StartTick, ReadBefore, ReadBeforeFails, SkipClaim,
                      ClaimsSubmitted, PollClaims, MarkClaim, claiming, polling
<1>3. CASE \E v \in Vaults : SendClaim(v)
    BY <1>3 DEF SendClaim
<1>4. CASE Measure
    BY <1>0, <1>1, <1>4 DEF DryRunInv, Measure
<1>5. CASE PayOperator
    BY <1>0, <1>5 DEF DryRunInv, PayOperator, StartBooking
<1>6. CASE Book
    <2>1. /\ UNCHANGED <<flight, tries>>
          /\ pc' \in {"book", "markClaim", "swap"}
          /\ book' = Add(book, leg, NonNeg(Share(leg, claimed)))
        BY <1>6 DEF Book
    <2>2. book'["total"] = book["total"]
        BY <2>1 DEF Add, TypeOK, Legs
    <2> QED
        BY <1>0, <2>1, <2>2 DEF DryRunInv
<1>7. CASE StartBuyback \/ NoRouteLeft \/ StartBasket
    BY <1>0, <1>7 DEF DryRunInv, StartBuyback, NoRouteLeft, StartBasket
<1>8. CASE TryRoute
    <2>1. pc = "buyback" /\ tries > 0
        BY <1>8 DEF TryRoute
    <2> QED
        BY <1>0, <2>1
<1>8a. CASE BuyStock \/ BasketBought \/ Debit \/ Count
    <2>1. pc \in {"stocks", "debit", "count"}
        BY <1>8a DEF BuyStock, BasketBought, Debit, Count
    <2> QED
        BY <1>0, <2>1
<1>9. CASE SkipDraw \/ DrawWinner \/ MarkCasino \/ StartAirdrop
    BY <1>0, <1>9 DEF DryRunInv, SkipDraw, DrawWinner, MarkCasino, StartAirdrop
<1>10. CASE SendPrize \/ SendShare \/ EndShares
    BY <1>0, <1>10 DEF SendPrize, SendShare, EndShares
<1>11. CASE SkipAirdrop \/ TokenLegs \/ Crash
    BY <1>0, <1>1, <1>11 DEF DryRunInv, SkipAirdrop, TokenLegs, Crash, GoIdle
<1>12. CASE World
    <2>1. UNCHANGED <<book, pc, tries>>
        BY <1>12, WorldKeeps
    <2>2. UNCHANGED flight
        BY <1>0, <1>12 DEF World, Elapse, Accrue, Deposit, Land, PaymentLands,
                           ClaimLands, Drop
    <2> QED
        BY <1>0, <2>1, <2>2 DEF DryRunInv
<1> QED
    BY <1>2, <1>3, <1>4, <1>5, <1>6, <1>7, <1>8, <1>8a, <1>9, <1>10,
       <1>11, <1>12 DEF Next, Bot

-----------------------------------------------------------------------------
(* The inductive invariant and the theorems *)

LEMMA InitInv == Init => IInv
<1> SUFFICES ASSUME Init PROVE IInv
    OBVIOUS
<1>1. TypeOK
    BY InitType
<1>2. spent = [k \in Spends |-> 0] /\ pc = "idle" /\ flight = {}
    BY DEF Init
<1>3. SpentInv /\ BuybackInv
    BY <1>2, Parameters DEF SpentInv, CapsHold, BuybackInv, BuybackWithinCap, Spends
<1>4. OperatorInv
    BY DEF Init, OperatorInv, Spends
<1>5. DryRunInv
    BY DEF Init, DryRunInv
<1> QED
    BY <1>1, <1>3, <1>4, <1>5 DEF IInv

LEMMA NextInv == IInv /\ [Next]_vars => IInv'
<1> SUFFICES ASSUME IInv, [Next]_vars PROVE IInv'
    OBVIOUS
<1> USE DEF IInv
<1>1. CASE Next
    <2>1. TypeOK'
        BY <1>1, ClaimType, SwapType, PayoutType, WorldType DEF Next, Bot
    <2>2. SpentInv'
        BY <1>1, ClaimSpent, SwapSpent, PayoutSpent, WorldSpent, WorldKeeps
        DEF Next, Bot
    <2>3. BuybackInv' /\ OperatorInv' /\ DryRunInv'
        BY <1>1, BuybackStep, OperatorStep, DryRunStep
    <2> QED
        BY <2>1, <2>2, <2>3
<1>2. CASE UNCHANGED vars
    BY <1>2 DEF vars, locals, TypeOK, SpentInv, CapsHold, BasketAhead, PrizeAhead,
                SharesAhead, BuybackAhead, Spending, BuybackInv, BuybackWithinCap,
                OperatorInv, DryRunInv
<1> QED
    BY <1>1, <1>2

LEMMA InvAlways == Spec => []IInv
BY InitInv, NextInv, PTL DEF Spec

\* The counter files, local amounts and ledgers stay natural numbers, and what
\* is in flight stays well formed, for every split, cap and schedule of faults.
THEOREM TypeCorrect == Spec => []TypeOK
<1>1. IInv => TypeOK
    BY DEF IInv
<1> QED
    BY <1>1, InvAlways, PTL

\* One tick never submits more than its caps for the basket, the prize and the
\* airdrop, whatever replies are lost and whatever it has read before.
THEOREM CapsAlways == Spec => []CapsHold
<1>1. IInv => CapsHold
    BY DEF IInv, SpentInv
<1> QED
    BY <1>1, InvAlways, PTL

\* The cap on the buyback holds as long as no reply is lost.
THEOREM BuybackCapped == ~LostReplies => (Spec => []BuybackWithinCap)
<1> SUFFICES ASSUME ~LostReplies PROVE Spec => []BuybackWithinCap
    OBVIOUS
<1>1. IInv => BuybackWithinCap
    BY DEF IInv, BuybackInv
<1> QED
    BY <1>1, InvAlways, PTL

\* Every lamport that is added to the reserve, the pot or another counter comes
\* out of a claim whose operator cut this very tick has submitted, once.
THEOREM OperatorPaidFirst == Spec => OperatorFirst
<1>1. IInv /\ [Next]_vars =>
          [\A l \in Legs : book'[l] > book[l] /\ ~DryRun =>
              claimed > 0 /\ spent["operator"] = OperatorCut(claimed)]_vars
    <2> SUFFICES ASSUME IInv, [Next]_vars,
                        NEW l \in Legs, book'[l] > book[l], ~DryRun
                 PROVE  claimed > 0 /\ spent["operator"] = OperatorCut(claimed)
        OBVIOUS
    <2>1. Book
        BY OnlyBookAdds DEF IInv
    <2> QED
        BY <2>1 DEF Book, IInv, OperatorInv
<1> QED
    BY <1>1, InvAlways, PTL DEF Spec, OperatorFirst

\* Under DRY_RUN no transaction is ever submitted and nothing counts as spent.
THEOREM DryRunSafe == Spec => []DryRunSendsNothing
<1>1. IInv => DryRunSendsNothing
    BY DEF IInv, DryRunInv, DryRunSendsNothing
<1> QED
    BY <1>1, InvAlways, PTL

-----------------------------------------------------------------------------
(* Lamports in flight *)

LEMMA AmountType == \A x \in Tx : AmountOf[x] = x.amt /\ AmountOf[x] \in Nat
BY DEF AmountOf, Tx

LEMMA LamportsType ==
    ASSUME NEW txs \in SUBSET Tx, IsFiniteSet(txs)
    PROVE  Lamports(txs) \in Nat
BY AmountType, SumType DEF Lamports

LEMMA LamportsAdd ==
    ASSUME NEW txs \in SUBSET Tx, IsFiniteSet(txs), NEW x \in Tx, x \notin txs
    PROVE  Lamports(txs \cup {x}) = Lamports(txs) + x.amt
<1>1. Lamports(txs \cup {x}) = AmountOf[x] + Lamports(txs)
    BY AmountType, SumAdd DEF Lamports
<1>2. Lamports(txs) \in Nat /\ AmountOf[x] = x.amt /\ AmountOf[x] \in Nat
    BY AmountType, LamportsType
<1> QED
    BY <1>1, <1>2

LEMMA LamportsRemove ==
    ASSUME NEW txs \in SUBSET Tx, IsFiniteSet(txs), NEW x \in txs
    PROVE  /\ Lamports(txs \ {x}) \in Nat
           /\ Lamports(txs) = Lamports(txs \ {x}) + x.amt
<1>1. /\ Lamports(txs \ {x}) \in Nat
      /\ Lamports(txs) = AmountOf[x] + Lamports(txs \ {x})
    BY AmountType, SumRemove DEF Lamports
<1>2. AmountOf[x] = x.amt /\ AmountOf[x] \in Nat
    BY AmountType
<1> QED
    BY <1>1, <1>2

LEMMA LamportsNone == Lamports({}) = 0
BY SumEmpty DEF Lamports

\* The three sets whose lamports matter.
LEMMA InFlightType ==
    ASSUME TypeOK
    PROVE  /\ flight \in SUBSET Tx /\ IsFiniteSet(flight)
           /\ Shares \in SUBSET Tx /\ IsFiniteSet(Shares)
           /\ PolledShares \in SUBSET Tx /\ IsFiniteSet(PolledShares)
           /\ Outgoing \in Nat
           /\ Lamports(Shares) \in Nat
           /\ Lamports(PolledShares) \in Nat
<1>1. flight \in SUBSET Tx /\ IsFiniteSet(flight)
    BY DEF TypeOK
<1>2. Shares \in SUBSET flight /\ PolledShares \in SUBSET flight
    BY DEF Shares, PolledShares
<1>3. IsFiniteSet(Shares) /\ IsFiniteSet(PolledShares)
    BY <1>1, <1>2, FS_Subset
<1> QED
    BY <1>1, <1>2, <1>3, LamportsType DEF Outgoing

LEMMA SameFlight ==
    ASSUME UNCHANGED flight
    PROVE  /\ Outgoing' = Outgoing
           /\ Shares' = Shares /\ PolledShares' = PolledShares
           /\ Lamports(Shares)' = Lamports(Shares)
           /\ Lamports(PolledShares)' = Lamports(PolledShares)
BY DEF Outgoing, Shares, PolledShares, Lamports

\* Submitting adds the amount: the transaction is a new one.
LEMMA SendingAdds ==
    ASSUME TypeOK, HasRoom, NEW kind \in Kinds, NEW amt \in Nat,
           NEW polled \in BOOLEAN, flight' = Sending(kind, amt, polled)
    PROVE  /\ Outgoing' = Outgoing + amt
           /\ Lamports(Shares)'
                 = Lamports(Shares) + (IF kind = "share" THEN amt ELSE 0)
           /\ Lamports(PolledShares)'
                 = Lamports(PolledShares)
                     + (IF kind = "share" /\ polled THEN amt ELSE 0)
           /\ kind # "share" => PolledShares' = PolledShares
<1> DEFINE new == [id |-> FreeId(kind, amt), kind |-> kind, amt |-> amt,
                   polled |-> polled]
<1>1. new \in Tx /\ new \notin flight /\ new.amt = amt
    BY FreeIdType DEF Tx
<1>2. flight' = flight \cup {new} /\ new.kind = kind /\ new.polled = polled
    BY DEF Sending
<1> HIDE DEF new
<1>3. Shares' = IF kind = "share" THEN Shares \cup {new} ELSE Shares
    BY <1>2 DEF Shares
<1>4. PolledShares' = IF kind = "share" /\ polled THEN PolledShares \cup {new}
                                                 ELSE PolledShares
    BY <1>2, <1>3 DEF PolledShares
<1>5. new \notin Shares /\ new \notin PolledShares
    BY <1>1 DEF Shares, PolledShares
<1>6. Outgoing' = Outgoing + amt
    BY <1>1, <1>2, InFlightType, LamportsAdd DEF Outgoing
<1>7. Lamports(Shares') = Lamports(Shares) + (IF kind = "share" THEN amt ELSE 0)
    BY <1>1, <1>3, <1>5, InFlightType, LamportsAdd
<1>8. Lamports(PolledShares')
          = Lamports(PolledShares) + (IF kind = "share" /\ polled THEN amt ELSE 0)
    BY <1>1, <1>4, <1>5, InFlightType, LamportsAdd
<1> QED
    BY <1>4, <1>6, <1>7, <1>8

\* The end of a transaction takes its amount away.
LEMMA EndingRemoves ==
    ASSUME TypeOK, NEW x \in flight, flight' = flight \ {x}
    PROVE  /\ x.amt \in Nat
           /\ Outgoing = Outgoing' + x.amt /\ Outgoing' \in Nat
           /\ Lamports(Shares)
                 = Lamports(Shares)' + (IF x.kind = "share" THEN x.amt ELSE 0)
           /\ Lamports(Shares)' \in Nat
           /\ Lamports(PolledShares)
                 = Lamports(PolledShares)'
                     + (IF x.kind = "share" /\ x.polled THEN x.amt ELSE 0)
           /\ Lamports(PolledShares)' \in Nat
           /\ PolledShares' \subseteq PolledShares
<1>1. Shares' = IF x.kind = "share" THEN Shares \ {x} ELSE Shares
    BY DEF Shares
<1>2. PolledShares' = IF x.kind = "share" /\ x.polled THEN PolledShares \ {x}
                                                     ELSE PolledShares
    BY <1>1 DEF PolledShares
<1>3. /\ x.kind = "share" => x \in Shares
      /\ x.kind = "share" /\ x.polled => x \in PolledShares
    BY DEF Shares, PolledShares
<1>4. x.amt \in Nat
    BY DEF TypeOK, Tx
<1>5. Outgoing = Outgoing' + x.amt /\ Outgoing' \in Nat
    BY InFlightType, LamportsRemove DEF Outgoing
<1>6. /\ Lamports(Shares) = Lamports(Shares') + (IF x.kind = "share" THEN x.amt ELSE 0)
      /\ Lamports(Shares') \in Nat
    BY <1>1, <1>3, InFlightType, LamportsRemove
<1>7. /\ Lamports(PolledShares)
            = Lamports(PolledShares')
                + (IF x.kind = "share" /\ x.polled THEN x.amt ELSE 0)
      /\ Lamports(PolledShares') \in Nat
    BY <1>2, <1>3, InFlightType, LamportsRemove
<1> QED
    BY <1>2, <1>4, <1>5, <1>6, <1>7

\* Ceasing to poll leaves nothing polled, and when all polls had been answered
\* it changes nothing.
LEMMA UnpolledShares ==
    ASSUME TypeOK, NEW kinds, flight' = Unpolled(kinds)
    PROVE  /\ "share" \in kinds \/ PolledShares = {} => PolledShares' = {}
           /\ ~Awaiting(kinds) => flight' = flight
<1>1. ASSUME NEW y \in PolledShares', "share" \in kinds \/ PolledShares = {}
      PROVE  FALSE
    <2>1. PICK x \in flight : y = [x EXCEPT !.polled = @ /\ x.kind \notin kinds]
        BY <1>1 DEF PolledShares, Shares, Unpolled
    <2>2. x \in Tx
        BY DEF TypeOK
    <2>3. y.kind = x.kind /\ y.polled = (x.polled /\ x.kind \notin kinds)
        BY <2>1, <2>2 DEF Tx
    <2>4. y.kind = "share" /\ y.polled
        BY <1>1 DEF PolledShares, Shares
    <2> QED
        BY <1>1, <2>3, <2>4 DEF PolledShares, Shares
<1>2. ASSUME ~Awaiting(kinds), NEW x \in flight
      PROVE  [x EXCEPT !.polled = @ /\ x.kind \notin kinds] = x
    <2>1. x \in Tx
        BY DEF TypeOK
    <2>2. (x.polled /\ x.kind \notin kinds) = x.polled
        BY <1>2, <2>1 DEF Awaiting, Tx
    <2> QED
        BY <2>1, <2>2 DEF Tx
<1>3. ~Awaiting(kinds) => Unpolled(kinds) = flight
    BY <1>2 DEF Unpolled
<1> QED
    BY <1>1, <1>3

-----------------------------------------------------------------------------
(* A counter is debited only by what it holds *)

\* A step that leaves the pools, the swap and payout steps and every polled share
\* alone.
LEMMA CoverElsewhere ==
    ASSUME CoverInv, pc # "shares",
           PolledShares' = {},
           pc' \notin {"buyback", "stocks", "draw", "shares", "debit"}
    PROVE  CoverInv'
BY DEF CoverInv, DebitCovered

LEMMA ClaimCovered ==
    ASSUME TypeOK, CoverInv,
           \/ StartTick \/ ReadBefore \/ ReadBeforeFails
           \/ (\E v \in Vaults : SendClaim(v)) \/ SkipClaim \/ ClaimsSubmitted
           \/ PollClaims \/ Measure \/ PayOperator \/ Book \/ MarkClaim
    PROVE  CoverInv'
<1>1. /\ pc # "shares"
      /\ pc' \notin {"buyback", "stocks", "draw", "shares", "debit"}
    BY ClaimQuiet
<1>2. PolledShares = {}
    BY <1>1 DEF CoverInv
<1>3. PolledShares' = {}
    <2>1. CASE UNCHANGED flight
        BY <2>1, <1>2, SameFlight
    <2>2. CASE \E v \in Vaults : SendClaim(v)
        <3>1. PICK v \in Vaults, heard \in Heard :
                  HasRoom /\ flight' = Sending(v, 0, heard)
            BY <2>2 DEF SendClaim
        <3>2. v \in Kinds /\ heard \in BOOLEAN /\ v # "share"
            BY Parameters, TreasuryAssumption DEF Heard
        <3> QED
            BY <1>2, <3>1, <3>2, SendingAdds
    <2>3. CASE Measure
        <3>1. flight' = Unpolled(Vaults)
            BY <2>3 DEF Measure
        <3> QED
            BY <1>2, <3>1, UnpolledShares
    <2>4. CASE PayOperator /\ HasRoom /\ flight' = Sending("operator", OperatorCut(claimed), FALSE)
        <3>1. flight' = flight \cup {[id |-> FreeId("operator", OperatorCut(claimed)),
                                      kind |-> "operator", amt |-> OperatorCut(claimed),
                                      polled |-> FALSE]}
            BY <2>4 DEF Sending
        <3> QED
            BY <1>2, <3>1 DEF PolledShares, Shares
    <2> QED
        BY <2>1, <2>2, <2>3, <2>4
        DEF StartTick, ReadBefore, ReadBeforeFails, SkipClaim, ClaimsSubmitted,
            PollClaims, PayOperator, SendCut, Book, MarkClaim, claiming, polling
<1> QED
    BY <1>1, <1>3, CoverElsewhere

LEMMA SwapCovered ==
    ASSUME TypeOK, SpentInv, CoverInv,
           \/ StartBuyback \/ TryRoute \/ NoRouteLeft
           \/ StartBasket \/ BuyStock \/ BasketBought \/ Debit \/ Count
    PROVE  CoverInv'
<1>1. /\ pc # "shares" /\ PolledShares = {}
    BY DEF CoverInv, StartBuyback, TryRoute, NoRouteLeft, StartBasket, BuyStock,
           BasketBought, Debit, Count
<1>2. PolledShares' = {}
    <2>1. \/ UNCHANGED flight
          \/ \E kind \in {"buyback", "basket"} :
                HasRoom /\ flight' = Sending(kind, amount, FALSE)
        BY DEF StartBuyback, TryRoute, NoRouteLeft, StartBasket, BuyStock,
               BasketBought, Debit, Count
    <2>2. ASSUME NEW kind \in {"buyback", "basket"}, HasRoom,
                 flight' = Sending(kind, amount, FALSE)
          PROVE  PolledShares' = {}
        <3>1. kind \in Kinds /\ kind # "share" /\ amount \in Nat
            BY Entries DEF TypeOK
        <3> QED
            BY <1>1, <2>2, <3>1, SendingAdds
    <2> QED
        BY <1>1, <2>1, <2>2, SameFlight
<1>3. CASE StartBuyback
    <2>1. Least(book["cpm"], MaxBuyback) <= book["cpm"]
        BY Parameters DEF Least, TypeOK, Legs
    <2> QED
        BY <1>1, <1>2, <1>3, <2>1 DEF CoverInv, DebitCovered, StartBuyback, files
<1>4. CASE TryRoute
    <2>1. /\ pc = "buyback" /\ UNCHANGED <<book, amount>>
          /\ \/ pc' = "debit" /\ leg' = "cpm"
             \/ pc' = "buyback"
        BY <1>4 DEF TryRoute, files
    <2> QED
        BY <1>1, <1>2, <2>1 DEF CoverInv, DebitCovered
<1>5. CASE NoRouteLeft \/ Count
    <2>1. pc' \notin {"buyback", "stocks", "draw", "shares", "debit"}
        BY <1>5 DEF NoRouteLeft, Count, AfterSpend, TypeOK, Legs, SpentInv
    <2> QED
        BY <1>1, <1>2, <2>1, CoverElsewhere
<1>6. CASE StartBasket
    <2>1. CASE pc' = "stocks"
        <3> DEFINE pool == Least(book["stock"], MaxBasket)
                   per == pool \div StockCount
        <3>1. pool \in Nat /\ pool <= book["stock"] /\ book["stock"] \in Nat
            BY Parameters DEF Least, TypeOK, Legs
        <3>2. ASSUME NEW a \in Nat, NEW n \in Nat \ {0}
              PROVE  a \div n \in Nat /\ (a \div n) * n <= a
            OBVIOUS
        <3>3. StockCount \in Nat \ {0}
            BY Parameters
        <3>4. per \in Nat /\ per * StockCount <= pool
            <4> HIDE DEF pool
            <4> QED
                BY <3>1, <3>2, <3>3
        <3>5. amount' = per /\ tries' = StockCount /\ got' = 0
            BY <1>6, <2>1 DEF StartBasket, PerStock
        <3>6. UNCHANGED book
            BY <1>6 DEF StartBasket, files
        <3> HIDE DEF per, pool
        <3>7. tries' + got' = StockCount
            BY <3>3, <3>5
        <3>8. per * StockCount \in Nat
            BY <3>3, <3>4
        <3>9. amount' * (tries' + got') <= book'["stock"]
            BY <3>1, <3>4, <3>5, <3>6, <3>7, <3>8
        <3> QED
            BY <1>2, <2>1, <3>9 DEF CoverInv, DebitCovered
    <2>2. CASE pc' = "markClaim"
        BY <1>1, <1>2, <2>2, CoverElsewhere
    <2> QED
        BY <1>6, <2>1, <2>2 DEF StartBasket
<1>7. CASE BuyStock
    <2>1. /\ pc = "stocks" /\ pc' = "stocks" /\ UNCHANGED <<book, amount>>
          /\ tries > 0 /\ tries' = tries - 1 /\ (got' = got \/ got' = got + 1)
        BY <1>7 DEF BuyStock, files
    <2>2. tries \in Nat /\ got \in Nat /\ amount \in Nat /\ book["stock"] \in Nat
        BY DEF TypeOK, Legs
    <2>3. ASSUME NEW a \in Nat, NEW m \in Nat, NEW n \in Nat, m <= n
          PROVE  a * m <= a * n /\ a * m \in Nat /\ a * n \in Nat
        BY <2>3
    <2>4. tries' + got' \in Nat /\ tries + got \in Nat /\ tries' + got' <= tries + got
        BY <2>1, <2>2
    <2>5. amount * (tries' + got') <= book["stock"]
        <3> DEFINE m == tries' + got'
                   n == tries + got
        <3>1. amount * n <= book["stock"]
            BY <2>1 DEF CoverInv
        <3>2. m \in Nat /\ n \in Nat /\ m <= n
            BY <2>4
        <3> HIDE DEF m, n
        <3>3. amount * m <= amount * n /\ amount * m \in Nat /\ amount * n \in Nat
            BY <2>2, <2>3, <3>2
        <3>4. amount * m <= book["stock"]
            BY <2>2, <3>1, <3>3
        <3> QED
            BY <3>4 DEF m
    <2> QED
        BY <1>2, <2>1, <2>5 DEF CoverInv, DebitCovered
<1>8. CASE BasketBought
    <2>1. /\ pc = "stocks" /\ tries = 0 /\ UNCHANGED book
          /\ \/ pc' = "debit" /\ leg' = "stock" /\ amount' = amount * got
             \/ pc' = "markClaim"
        BY <1>8 DEF BasketBought, files
    <2>2. amount * got <= book["stock"]
        <3>1. tries + got = got
            BY <2>1 DEF TypeOK
        <3> QED
            BY <2>1, <3>1 DEF CoverInv
    <2> QED
        BY <1>2, <2>1, <2>2 DEF CoverInv, DebitCovered
<1>9. CASE Debit
    <2>1. pc' = "count"
        BY <1>9 DEF Debit
    <2> QED
        BY <1>1, <1>2, <2>1, CoverElsewhere
<1> QED
    BY <1>3, <1>4, <1>5, <1>6, <1>7, <1>8, <1>9

LEMMA PayoutCovered ==
    ASSUME TypeOK, CoverInv,
           \/ SkipDraw \/ DrawWinner \/ SendPrize \/ MarkCasino
           \/ SkipAirdrop \/ StartAirdrop \/ SendShare \/ EndShares \/ TokenLegs
           \/ Crash
    PROVE  CoverInv'
<1>1. CASE SkipDraw \/ MarkCasino \/ SkipAirdrop \/ TokenLegs
    <2>1. /\ pc # "shares" /\ UNCHANGED flight
          /\ pc' \notin {"buyback", "stocks", "draw", "shares", "debit"}
        BY <1>1 DEF SkipDraw, MarkCasino, SkipAirdrop, TokenLegs, GoIdle
    <2>2. PolledShares' = {}
        BY <2>1, SameFlight DEF CoverInv
    <2> QED
        BY <2>1, <2>2, CoverElsewhere
<1>2. CASE DrawWinner
    <2>1. Prize <= book["casino"]
        BY Parameters DEF Prize, Least, NonNeg, TypeOK, Legs
    <2>2. /\ pc = "casino" /\ pc' = "draw" /\ amount' = Prize
          /\ UNCHANGED <<book, flight>>
        BY <1>2 DEF DrawWinner, files
    <2>3. PolledShares' = {}
        BY <2>2, SameFlight DEF CoverInv
    <2> QED
        BY <2>1, <2>2, <2>3 DEF CoverInv, DebitCovered
<1>3. CASE SendPrize
    <2>1. /\ pc = "draw" /\ UNCHANGED book
          /\ \/ pc' = "debit" /\ leg' = "casino" /\ UNCHANGED amount
             \/ pc' = "airdrop"
          /\ \/ UNCHANGED flight
             \/ HasRoom /\ flight' = Sending("prize", amount, FALSE)
        BY <1>3 DEF SendPrize, files
    <2>2. PolledShares = {}
        BY <2>1 DEF CoverInv
    <2>3. "prize" \in Kinds /\ "prize" # "share" /\ amount \in Nat
        BY Entries DEF TypeOK
    <2>4. PolledShares' = {}
        BY <2>1, <2>2, <2>3, SameFlight, SendingAdds
    <2> QED
        BY <2>1, <2>4 DEF CoverInv, DebitCovered
<1>4. CASE StartAirdrop
    <2>1. ToPay <= book["sol"] /\ ToPay \in Nat
        BY Parameters DEF ToPay, Least, NonNeg, TypeOK, Legs
    <2>2. /\ pc = "airdrop" /\ got' = 0 /\ UNCHANGED <<book, flight>>
          /\ \/ pc' = "shares" /\ left' = ToPay
             \/ pc' = "tokens"
        BY <1>4 DEF StartAirdrop, files
    <2>3. PolledShares' = {}
        BY <2>2, SameFlight DEF CoverInv
    <2>4. Lamports(PolledShares') = 0
        BY <2>3, LamportsNone
    <2> QED
        BY <2>1, <2>2, <2>3, <2>4 DEF CoverInv, DebitCovered
<1>5. CASE SendShare
    <2>1. PICK a \in MinSolPayout .. left :
              /\ left' = left - a
              /\ \/ /\ HasRoom
                    /\ \E heard \in Heard : flight' = Sending("share", a, heard)
                 \/ UNCHANGED flight
        BY <1>5 DEF SendShare
    <2>2. a \in Nat /\ left' \in Nat /\ got \in Nat /\ book["sol"] \in Nat
        BY <2>1, Parameters DEF TypeOK, Legs
    <2>3. pc = "shares" /\ pc' = "shares" /\ UNCHANGED <<book, got>>
        BY <1>5 DEF SendShare, files
    <2>4. Lamports(PolledShares)' \in {Lamports(PolledShares),
                                       Lamports(PolledShares) + a}
        <3>1. \A heard \in Heard : heard \in BOOLEAN
            BY DEF Heard
        <3>2. Lamports(PolledShares) \in Nat
            BY InFlightType
        <3> QED
            BY <2>1, <2>2, <3>1, <3>2, SameFlight, SendingAdds, Entries
    <2>5. got + left + Lamports(PolledShares) <= book["sol"]
        BY <2>3 DEF CoverInv
    <2>6. Lamports(PolledShares) \in Nat /\ left \in Nat
        BY InFlightType DEF TypeOK
    <2>7. got' + left' + Lamports(PolledShares)' <= book'["sol"]
        BY <2>1, <2>2, <2>3, <2>4, <2>5, <2>6
    <2> QED
        BY <2>3, <2>7 DEF CoverInv, DebitCovered
<1>6. CASE EndShares
    <2>1. /\ pc = "shares" /\ UNCHANGED book /\ flight' = Unpolled({"share"})
          /\ \/ pc' = "debit" /\ leg' = "sol" /\ amount' = got
             \/ pc' = "tokens"
        BY <1>6 DEF EndShares, files
    <2>2. PolledShares' = {}
        BY <2>1, UnpolledShares
    <2>3. got <= book["sol"]
        <3>1. got + left + Lamports(PolledShares) <= book["sol"]
            BY <2>1 DEF CoverInv
        <3> QED
            BY <3>1, InFlightType DEF TypeOK, Legs
    <2> QED
        BY <2>1, <2>2, <2>3 DEF CoverInv, DebitCovered
<1>7. CASE Crash
    <2>1. pc' = "idle" /\ flight' = Unpolled(Kinds)
        BY <1>7 DEF Crash, GoIdle
    <2>2. PolledShares' = {}
        BY <2>1, UnpolledShares, Entries
    <2> QED
        BY <2>1, <2>2 DEF CoverInv, DebitCovered
<1> QED
    BY <1>1, <1>2, <1>3, <1>4, <1>5, <1>6, <1>7

LEMMA WorldCovered ==
    ASSUME TypeOK, CoverInv, World
    PROVE  CoverInv'
<1>1. UNCHANGED <<book, pc, leg, amount, tries, left>>
    BY WorldKeeps
<1>2. CASE UNCHANGED <<flight, got>>
    BY <1>1, <1>2, SameFlight DEF CoverInv, DebitCovered
<1>3. ASSUME NEW x \in flight, flight' = flight \ {x},
             \/ UNCHANGED got
             \/ x.kind = "share" /\ x.polled /\ got' = got + x.amt
             \/ pc \in {"claim", "measure"}
      PROVE  CoverInv'
    <2>1. /\ x.amt \in Nat /\ PolledShares' \subseteq PolledShares
          /\ Lamports(PolledShares)
                = Lamports(PolledShares)'
                    + (IF x.kind = "share" /\ x.polled THEN x.amt ELSE 0)
          /\ Lamports(PolledShares)' \in Nat
        BY <1>3, EndingRemoves
    <2>2. CASE pc = "shares"
        <3>1. got + left + Lamports(PolledShares) <= book["sol"]
            BY <2>2 DEF CoverInv
        <3>4. UNCHANGED got \/ (x.kind = "share" /\ x.polled /\ got' = got + x.amt)
            BY <1>3, <2>2
        <3>2. got' + left + Lamports(PolledShares)' <= book["sol"]
            BY <2>1, <3>1, <3>4 DEF TypeOK, Legs
        <3> QED
            BY <1>1, <2>2, <3>2 DEF CoverInv, DebitCovered
    <2>3. CASE pc # "shares"
        <3>1. PolledShares = {}
            BY <2>3 DEF CoverInv
        <3>2. ~(x.kind = "share" /\ x.polled)
                 /\ (UNCHANGED got \/ pc \in {"claim", "measure"})
            BY <1>3, <3>1 DEF PolledShares, Shares
        <3> QED
            BY <1>1, <1>3, <2>1, <2>3, <3>1, <3>2 DEF CoverInv, DebitCovered
    <2> QED
        BY <2>2, <2>3
<1>4. CASE (\E g \in Gates : Elapse(g)) \/ (\E v \in Vaults : Accrue(v)) \/ Deposit
    BY <1>2, <1>4 DEF Elapse, Accrue, Deposit, locals
<1>5. CASE PaymentLands
    BY <1>3, <1>5 DEF PaymentLands, LandPayment, Settled, Noticed
<1>6. CASE \E v \in Vaults : ClaimLands(v)
    BY <1>3, <1>6 DEF ClaimLands, LandClaim, Settled
<1>7. CASE Drop
    BY <1>3, <1>7 DEF Drop, locals, Expired
<1> QED
    BY <1>4, <1>5, <1>6, <1>7 DEF World, Land

-----------------------------------------------------------------------------
(* The counters record what was measured *)

\* The operator's cut and the five shares are the claim, to the lamport.
LEMMA SplitIsExact ==
    ASSUME NEW c \in Nat
    PROVE  /\ OperatorCut(c) \in Nat
           /\ \A l \in Legs : NonNeg(Share(l, c)) \in Nat
           /\ OperatorCut(c) + NonNeg(Share("ad", c)) + NonNeg(Share("casino", c))
                 + NonNeg(Share("sol", c)) + NonNeg(Share("cpm", c))
                 + NonNeg(Share("stock", c)) = c
<1> DEFINE p1 == Pct(OperatorPct, c)
           p2 == Pct(AdPct, c)
           p3 == Pct(CasinoPct, c)
           p4 == Pct(SolPct, c)
           p5 == Pct(SupplyPct, c)
<1>1. /\ OperatorPct \in Nat /\ AdPct \in Nat /\ CasinoPct \in Nat
      /\ SolPct \in Nat /\ SupplyPct \in Nat
      /\ OperatorPct + AdPct + CasinoPct + SolPct + SupplyPct <= 100
    BY TreasuryAssumption
<1>2. ASSUME NEW p \in Nat
      PROVE  /\ Pct(p, c) \in Nat /\ c * p \in Nat
             /\ 100 * Pct(p, c) <= c * p
    <2>1. c * p \in Nat
        OBVIOUS
    <2>2. ASSUME NEW x \in Nat PROVE x \div 100 \in Nat /\ 100 * (x \div 100) <= x
        OBVIOUS
    <2> QED
        BY <2>1, <2>2 DEF Pct
<1>3. p1 + p2 + p3 + p4 + p5 <= c
    <2>1. c * (OperatorPct + AdPct + CasinoPct + SolPct + SupplyPct)
             = c * OperatorPct + c * AdPct + c * CasinoPct + c * SolPct + c * SupplyPct
        BY <1>1
    <2>2. ASSUME NEW s \in Nat, s <= 100 PROVE c * s <= c * 100
        BY <2>2
    <2>3. c * (OperatorPct + AdPct + CasinoPct + SolPct + SupplyPct) <= c * 100
        BY <1>1, <2>2
    <2>4. /\ 100 * p1 <= c * OperatorPct /\ 100 * p2 <= c * AdPct
          /\ 100 * p3 <= c * CasinoPct /\ 100 * p4 <= c * SolPct
          /\ 100 * p5 <= c * SupplyPct
        BY <1>1, <1>2
    <2>5. /\ p1 \in Nat /\ p2 \in Nat /\ p3 \in Nat /\ p4 \in Nat /\ p5 \in Nat
          /\ c * OperatorPct \in Nat /\ c * AdPct \in Nat /\ c * CasinoPct \in Nat
          /\ c * SolPct \in Nat /\ c * SupplyPct \in Nat
        BY <1>1, <1>2
    <2> HIDE DEF p1, p2, p3, p4, p5
    <2>6. 100 * p1 + 100 * p2 + 100 * p3 + 100 * p4 + 100 * p5 <= c * 100
        BY <2>1, <2>3, <2>4, <2>5
    <2> QED
        BY <2>5, <2>6
<1>4. p1 \in Nat /\ p2 \in Nat /\ p3 \in Nat /\ p4 \in Nat /\ p5 \in Nat
    BY <1>1, <1>2
<1>5. /\ OperatorCut(c) = p1 /\ Share("ad", c) = p2 /\ Share("casino", c) = p3
      /\ Share("sol", c) = p4 /\ Share("cpm", c) = p5
      /\ Share("stock", c) = c - p1 - p2 - p3 - p4 - p5
    BY DEF OperatorCut, Share
<1> HIDE DEF p1, p2, p3, p4, p5
<1>6. Share("stock", c) >= 0 /\ Share("stock", c) \in Int
    BY <1>3, <1>4, <1>5
<1>7. /\ NonNeg(Share("ad", c)) = p2 /\ NonNeg(Share("casino", c)) = p3
      /\ NonNeg(Share("sol", c)) = p4 /\ NonNeg(Share("cpm", c)) = p5
      /\ NonNeg(Share("stock", c)) = c - p1 - p2 - p3 - p4 - p5
    BY <1>4, <1>5, <1>6 DEF NonNeg
<1>8. \A l \in Legs : NonNeg(Share(l, c)) \in Nat
    BY ShareType
<1> QED
    BY <1>4, <1>5, <1>7, <1>8

\* One counter file is rewritten.
LEMMA PoolsWritten ==
    ASSUME TypeOK, NEW l \in Legs, NEW y \in Nat, book' = [book EXCEPT ![l] = y]
    PROVE  /\ Pools' = Pools - book[l] + y
           /\ book'["total"] = book["total"]
           /\ book'["sol"] = IF l = "sol" THEN y ELSE book["sol"]
           /\ book'["cpm"] = IF l = "cpm" THEN y ELSE book["cpm"]
BY DEF Pools, TypeOK, Legs

LEMMA PoolsType == ASSUME TypeOK PROVE Pools \in Nat /\ book["total"] \in Nat
BY DEF Pools, TypeOK, Legs

LEMMA TotalsType ==
    ASSUME TypeOK
    PROVE  /\ sum["measured"] \in Nat /\ sum["collected"] \in Nat
           /\ sum["cut"] \in Nat /\ sum["fed"] \in Nat /\ sum["aired"] \in Nat
           /\ sum["burned"] \in Nat
BY DEF TypeOK, Totals

LEMMA ToBookType ==
    ASSUME TypeOK, OperatorInv
    PROVE  /\ \A l \in Legs : ToBook(l) \in Nat
           /\ Unbooked \in Nat /\ Uncounted \in Nat
           /\ pc \notin {"operator", "book"} => Unbooked = 0
           /\ pc # "count" => Uncounted = 0
<1>1. ASSUME NEW l \in Legs PROVE ToBook(l) \in Nat
    BY ShareType DEF ToBook, TypeOK, OperatorInv
<1>2. (IF pc = "operator" THEN claimed ELSE 0) \in Nat
    BY DEF TypeOK, OperatorInv
<1>3. Unbooked \in Nat
    BY <1>1, <1>2 DEF Unbooked, Legs
<1>4. pc \notin {"operator", "book"} => Unbooked = 0
    BY DEF Unbooked, ToBook
<1> QED
    BY <1>1, <1>3, <1>4 DEF Uncounted, TypeOK

\* Writing a counter file settles its share of the claim and adds to no other.
LEMMA BookedRest ==
    ASSUME TypeOK, OperatorInv, Book
    PROVE  /\ NonNeg(Share(leg, claimed)) \in Nat
           /\ Unbooked' \in Nat
           /\ NonNeg(Share(leg, claimed)) + Unbooked' <= Unbooked
<1> DEFINE share == NonNeg(Share(leg, claimed))
           now(l) == ToBook(l)
           then(l) == ToBook(l)'
<1>1. pc = "book" /\ claimed \in Nat /\ claimed' = claimed /\ leg \in Legs
    BY DEF Book, OperatorInv, TypeOK
<1>2. \/ pc' \in {"markClaim", "swap"}
      \/ pc' = "book" /\ leg # "stock" /\ leg' = NextLeg[leg]
    BY <1>1 DEF Book
<1>3. \A l \in Legs : NonNeg(Share(l, claimed)) \in Nat
    BY <1>1, SplitIsExact
<1>4. \A l \in Legs : l = leg => now(l) = share /\ then(l) = 0
    BY <1>1, <1>2 DEF ToBook, LegsFrom, NextLeg, Legs
<1>5. \A l \in Legs : now(l) \in Nat /\ then(l) \in Nat /\ then(l) <= now(l)
    BY <1>1, <1>2, <1>3 DEF ToBook, LegsFrom, NextLeg, Legs
<1>6. /\ Unbooked = now("ad") + now("casino") + now("sol") + now("cpm") + now("stock")
      /\ Unbooked' = then("ad") + then("casino") + then("sol") + then("cpm")
                       + then("stock")
    <2>1. \A l \in Legs : ToBook(l) \in Nat /\ ToBook(l)' \in Nat
        BY <1>5
    <2> QED
        BY <1>1, <1>2, <2>1 DEF Unbooked, Legs
<1> HIDE DEF share, now, then
<1>7. share \in Nat /\ Unbooked' \in Nat /\ share + Unbooked' <= Unbooked
    BY <1>1, <1>4, <1>5, <1>6 DEF Legs
<1> QED
    BY <1>7 DEF share

\* All of a claim but the cut is still to be booked when the operator is done.
LEMMA BookingStarts ==
    ASSUME TypeOK, OperatorInv, pc = "operator", UNCHANGED claimed,
           pc' = "book", leg' = "ad"
    PROVE  /\ OperatorCut(claimed) \in Nat
           /\ Unbooked' \in Nat
           /\ Unbooked' + OperatorCut(claimed) <= Unbooked
<1> DEFINE B(l) == NonNeg(Share(l, claimed))
<1>1. claimed \in Nat
    BY DEF OperatorInv, TypeOK
<1>2. /\ B("ad") \in Nat /\ B("casino") \in Nat /\ B("sol") \in Nat
      /\ B("cpm") \in Nat /\ B("stock") \in Nat /\ OperatorCut(claimed) \in Nat
      /\ OperatorCut(claimed) + B("ad") + B("casino") + B("sol") + B("cpm")
           + B("stock") = claimed
    BY <1>1, SplitIsExact DEF Legs
<1>3. /\ ToBook("ad")' = B("ad") /\ ToBook("casino")' = B("casino")
      /\ ToBook("sol")' = B("sol") /\ ToBook("cpm")' = B("cpm")
      /\ ToBook("stock")' = B("stock")
    BY DEF ToBook, LegsFrom, Legs
<1>4. Unbooked = claimed
    BY <1>1 DEF Unbooked, ToBook
<1> HIDE DEF B
<1>5. Unbooked' = B("ad") + B("casino") + B("sol") + B("cpm") + B("stock")
    BY <1>2, <1>3 DEF Unbooked
<1> QED
    BY <1>1, <1>2, <1>4, <1>5

\* A step that leaves the counters and their ledger alone.
LEMMA BooksKept ==
    ASSUME TypeOK, OperatorInv, BooksInv,
           UNCHANGED book, sum'["cut"] = sum["cut"],
           sum'["measured"] = sum["measured"],
           \/ pc' \notin {"operator", "book", "count"}
           \/ UNCHANGED <<pc, leg, claimed, amount>>
    PROVE  BooksInv'
<1>1. Pools' = Pools
    BY DEF Pools
<1>2. Unbooked \in Nat /\ Uncounted \in Nat
    BY ToBookType
<1>3. \/ Unbooked' = 0 /\ Uncounted' = 0
      \/ Unbooked' = Unbooked /\ Uncounted' = Uncounted
    BY DEF Unbooked, ToBook, Uncounted
<1> QED
    BY <1>1, <1>2, <1>3, PoolsType, TotalsType DEF BooksInv

\* The ledger entries a step of the world leaves alone.
LEMMA WorldLedger ==
    ASSUME TypeOK, World
    PROVE  /\ sum'["cut"] = sum["cut"] /\ sum'["measured"] = sum["measured"]
           /\ sum'["fed"] = sum["fed"]
<1>1. CASE (\E g \in Gates : Elapse(g)) \/ (\E v \in Vaults : Accrue(v)) \/ Deposit
    BY <1>1 DEF Elapse, Accrue, Deposit
<1>2. CASE \E v \in Vaults : ClaimLands(v)
    BY <1>2 DEF ClaimLands, LandClaim, Add, TypeOK, Totals
<1>3. CASE PaymentLands
    BY <1>3 DEF PaymentLands, LandPayment, TypeOK, Totals
<1>4. CASE Drop
    BY <1>4 DEF Drop, Add, TypeOK, Totals
<1> QED
    BY <1>1, <1>2, <1>3, <1>4 DEF World, Land

LEMMA BooksStep ==
    ASSUME TypeOK, SpentInv, OperatorInv, CoverInv, BooksInv, Next
    PROVE  BooksInv'
<1> USE DEF files, locals
<1>1. CASE \/ StartTick \/ ReadBefore \/ ReadBeforeFails
           \/ (\E v \in Vaults : SendClaim(v)) \/ SkipClaim \/ ClaimsSubmitted
           \/ PollClaims \/ MarkClaim
    <2> /\ UNCHANGED <<book, sum>> /\ pc' \notin {"operator", "book", "count"}
        BY <1>1 DEF StartTick, ReadBefore, ReadBeforeFails, SendClaim, SkipClaim,
                    ClaimsSubmitted, PollClaims, MarkClaim, claiming, polling
    <2> QED
        BY BooksKept
<1>2. CASE Measure
    <2> DEFINE delta == chain - before
    <2>1. /\ pc = "measure" /\ UNCHANGED book
          /\ \/ /\ claimed' = delta
                /\ pc' = IF delta <= 0 THEN "markClaim" ELSE "operator"
                /\ sum' = Add(sum, "measured", NonNeg(delta))
             \/ pc' = "markClaim" /\ UNCHANGED sum
        BY <1>2 DEF Measure
    <2>2. CASE pc' = "markClaim" /\ UNCHANGED sum
        BY <2>1, <2>2, BooksKept
    <2>3. CASE /\ claimed' = delta
               /\ pc' = IF delta <= 0 THEN "markClaim" ELSE "operator"
               /\ sum' = Add(sum, "measured", NonNeg(delta))
        <3>1. delta \in Int
            BY DEF TypeOK
        <3>2. /\ sum'["measured"] = sum["measured"] + NonNeg(delta)
              /\ sum'["cut"] = sum["cut"]
            BY <2>3 DEF Add, TypeOK, Totals
        <3>3. Pools' = Pools /\ book'["total"] = book["total"]
            BY <2>1 DEF Pools
        <3> HIDE DEF delta
        <3>4. Unbooked' = NonNeg(delta) /\ NonNeg(delta) \in Nat /\ Uncounted' = 0
            BY <2>3, <3>1 DEF Unbooked, ToBook, Uncounted, NonNeg
        <3>5. Unbooked = 0 /\ Uncounted = 0
            BY <2>1, ToBookType
        <3> QED
            BY <3>2, <3>3, <3>4, <3>5, PoolsType, TotalsType DEF BooksInv
    <2> QED
        BY <2>1, <2>2, <2>3
<1>3. CASE PayOperator
    <2> DEFINE cut == OperatorCut(claimed)
    <2>1. /\ pc = "operator" /\ UNCHANGED <<book, claimed>>
          /\ \/ pc' = "book" /\ leg' = "ad" /\ sum' \in {sum, Add(sum, "cut", cut)}
             \/ pc' = "markClaim" /\ UNCHANGED sum
        BY <1>3 DEF PayOperator, StartBooking
    <2>2. CASE pc' = "markClaim" /\ UNCHANGED sum
        BY <2>1, <2>2, BooksKept
    <2>3. CASE pc' = "book" /\ leg' = "ad" /\ sum' \in {sum, Add(sum, "cut", cut)}
        <3>1. cut \in Nat /\ Unbooked' \in Nat /\ Unbooked' + cut <= Unbooked
            BY <2>1, <2>3, BookingStarts
        <3> HIDE DEF cut
        <3>2. /\ sum'["measured"] = sum["measured"]
              /\ sum'["cut"] = sum["cut"] \/ sum'["cut"] = sum["cut"] + cut
            BY <2>3 DEF Add, TypeOK, Totals
        <3>3. Pools' = Pools /\ book'["total"] = book["total"]
            BY <2>1 DEF Pools
        <3>4. Uncounted' = 0 /\ Uncounted = 0
            BY <2>1, <2>3 DEF Uncounted
        <3> QED
            BY <3>1, <3>2, <3>3, <3>4, PoolsType, TotalsType, ToBookType DEF BooksInv
    <2> QED
        BY <2>1, <2>2, <2>3
<1>4. CASE Book
    <2> DEFINE share == NonNeg(Share(leg, claimed))
    <2>1. share \in Nat /\ Unbooked' \in Nat /\ share + Unbooked' <= Unbooked
        BY <1>4, BookedRest
    <2>2. /\ pc = "book" /\ pc' # "count"
          /\ book' = Add(book, leg, share)
          /\ sum' \in {sum, Add(sum, "fed", share)}
        BY <1>4 DEF Book
    <2> HIDE DEF share
    <2>3. sum'["measured"] = sum["measured"] /\ sum'["cut"] = sum["cut"]
        BY <2>2 DEF Add, TypeOK, Totals
    <2>4. Pools' = Pools + share /\ book'["total"] = book["total"]
        <3>1. book[leg] \in Nat /\ leg \in Legs /\ book[leg] + share \in Nat
            BY <2>1 DEF TypeOK, Legs
        <3>2. book' = [book EXCEPT ![leg] = book[leg] + share]
            BY <2>2 DEF Add
        <3>3. /\ Pools' = Pools - book[leg] + (book[leg] + share)
              /\ book'["total"] = book["total"]
            BY <2>1, <3>1, <3>2, PoolsWritten
        <3> QED
            BY <2>1, <3>1, <3>3, PoolsType
    <2>5. Uncounted = 0 /\ Uncounted' = 0
        BY <2>2 DEF Uncounted
    <2> QED
        BY <2>1, <2>3, <2>4, <2>5, PoolsType, TotalsType, ToBookType DEF BooksInv
<1>5. CASE \/ StartBuyback \/ TryRoute \/ NoRouteLeft
           \/ StartBasket \/ BuyStock \/ BasketBought
    <2> /\ UNCHANGED <<book, sum>> /\ pc' \notin {"operator", "book", "count"}
        BY <1>5 DEF StartBuyback, TryRoute, NoRouteLeft, StartBasket, BuyStock,
                    BasketBought
    <2> QED
        BY BooksKept
<1>6. CASE Debit
    <2>1. /\ pc = "debit" /\ pc' = "count" /\ UNCHANGED <<amount, sum>>
          /\ book' = [book EXCEPT ![leg] = NonNeg(book[leg] - amount)]
        BY <1>6 DEF Debit
    <2>2. leg \in Legs /\ book[leg] \in Nat /\ amount \in Nat /\ book[leg] >= amount
        BY <2>1 DEF TypeOK, CoverInv, DebitCovered, Legs
    <2>3. NonNeg(book[leg] - amount) = book[leg] - amount /\ book[leg] - amount \in Nat
        BY <2>2 DEF NonNeg
    <2>4. Pools' = Pools - amount /\ book'["total"] = book["total"]
        <3>1. /\ Pools' = Pools - book[leg] + (book[leg] - amount)
              /\ book'["total"] = book["total"]
            BY <2>1, <2>2, <2>3, PoolsWritten
        <3> QED
            BY <2>2, <3>1, PoolsType
    <2>5. Unbooked = 0 /\ Uncounted = 0 /\ Uncounted' = amount
        BY <2>1, ToBookType DEF Uncounted
    <2>6. Unbooked' = 0
        BY <2>1 DEF Unbooked, ToBook
    <2> QED
        BY <2>1, <2>2, <2>4, <2>5, <2>6, PoolsType, TotalsType DEF BooksInv
<1>7. CASE Count
    <2>1. /\ pc = "count" /\ UNCHANGED sum /\ book' = Add(book, "total", amount)
          /\ pc' = AfterSpend[leg] /\ leg \in Legs \ {"ad"}
        BY <1>7 DEF Count, SpentInv, TypeOK
    <2>2. pc' \notin {"operator", "book", "count"}
        BY <2>1 DEF AfterSpend, Legs
    <2>3. book'["total"] = book["total"] + amount /\ Pools' = Pools
        BY <2>1 DEF Add, TypeOK, Legs, Pools
    <2>4. Uncounted = amount /\ amount \in Nat /\ Uncounted' = 0
        BY <2>1, <2>2 DEF Uncounted, TypeOK
    <2>5. Unbooked = 0 /\ Unbooked' = 0
        BY <2>1, <2>2 DEF Unbooked, ToBook
    <2> QED
        BY <2>1, <2>3, <2>4, <2>5, PoolsType, TotalsType DEF BooksInv
<1>8. CASE \/ SkipDraw \/ DrawWinner \/ SendPrize \/ MarkCasino
           \/ StartAirdrop \/ SendShare \/ EndShares \/ SkipAirdrop \/ Crash
    <2> /\ UNCHANGED <<book, sum>> /\ pc' \notin {"operator", "book", "count"}
        BY <1>8 DEF SkipDraw, DrawWinner, SendPrize, MarkCasino, StartAirdrop,
                    SendShare, EndShares, SkipAirdrop, Crash, GoIdle
    <2> QED
        BY BooksKept
<1>9. CASE TokenLegs
    <2>1. PICK fees \in {0, Fee} : sum' = Add(sum, "burned", fees)
        BY <1>9 DEF TokenLegs
    <2>2. sum'["cut"] = sum["cut"] /\ sum'["measured"] = sum["measured"]
        BY <2>1 DEF Add, TypeOK, Totals
    <2>3. UNCHANGED book /\ pc' = "idle"
        BY <1>9 DEF TokenLegs, GoIdle
    <2> QED
        BY <2>2, <2>3, BooksKept
<1>10. CASE World
    BY <1>10, WorldKeeps, WorldLedger, BooksKept
<1> QED
    BY <1>1, <1>2, <1>3, <1>4, <1>5, <1>6, <1>7, <1>8, <1>9, <1>10 DEF Next, Bot

LEMMA CoverStep ==
    ASSUME TypeOK, SpentInv, CoverInv, Next
    PROVE  CoverInv'
BY ClaimCovered, SwapCovered, PayoutCovered, WorldCovered DEF Next, Bot

LEMMA InitBooks == Init => CoverInv /\ BooksInv
<1> SUFFICES ASSUME Init PROVE CoverInv /\ BooksInv
    OBVIOUS
<1>1. PolledShares = {}
    BY DEF Init, PolledShares, Shares
<1>2. CoverInv
    BY <1>1 DEF Init, CoverInv, DebitCovered
<1>3. Pools = 0 /\ book["total"] = 0 /\ sum["cut"] = 0 /\ sum["measured"] = 0
    BY DEF Init, Pools, Legs, Totals
<1>4. Unbooked = 0 /\ Uncounted = 0
    BY DEF Init, Unbooked, ToBook, Uncounted
<1> QED
    BY <1>2, <1>3, <1>4 DEF BooksInv

LEMMA SameBooks ==
    ASSUME UNCHANGED vars
    PROVE  /\ CoverInv => CoverInv'
           /\ BooksInv => BooksInv'
<1>1. /\ UNCHANGED <<chain, flight, book, pc, before, claimed, leg, amount, tries,
                     left, got, sum>>
    BY DEF vars, locals
<1>2. /\ Outgoing' = Outgoing /\ PolledShares' = PolledShares
      /\ Lamports(PolledShares)' = Lamports(PolledShares)
    BY <1>1, SameFlight
<1>3. Pools' = Pools /\ Unbooked' = Unbooked /\ Uncounted' = Uncounted
    BY <1>1 DEF Pools, Unbooked, ToBook, Uncounted
<1> QED
    BY <1>1, <1>2, <1>3 DEF CoverInv, DebitCovered, BooksInv

LEMMA BooksAlways == Spec => []BooksIInv
<1>1. Init => BooksIInv
    BY InitInv, InitBooks DEF BooksIInv
<1>2. BooksIInv /\ [Next]_vars => BooksIInv'
    <2> SUFFICES ASSUME BooksIInv, [Next]_vars PROVE BooksIInv'
        OBVIOUS
    <2>1. IInv /\ CoverInv /\ BooksInv
        BY DEF BooksIInv
    <2>2. TypeOK /\ SpentInv /\ OperatorInv
        BY <2>1 DEF IInv
    <2>3. IInv'
        BY <2>1, NextInv
    <2>4. CoverInv' /\ BooksInv'
        BY <2>1, <2>2, CoverStep, BooksStep, SameBooks
    <2> QED
        BY <2>3, <2>4 DEF BooksIInv
<1> QED
    BY <1>1, <1>2, PTL DEF Spec

\* However a tick fails, the counter files, the lifetime total and the operator's
\* cuts together never record more than the measured claims brought in.
THEOREM BooksBalance == Spec => []BooksWithinClaims
<1>1. BooksIInv => BooksWithinClaims
    <2> SUFFICES ASSUME BooksIInv PROVE BooksWithinClaims
        OBVIOUS
    <2>1. TypeOK /\ OperatorInv /\ BooksInv
        BY DEF BooksIInv, IInv
    <2>2. Unbooked \in Nat /\ Uncounted \in Nat
        BY <2>1, ToBookType
    <2> QED
        BY <2>1, <2>2, PoolsType, TotalsType DEF BooksInv, BooksWithinClaims
<1> QED
    BY <1>1, BooksAlways, PTL

\* The max(0, ...) of _write_counter never hides an overspent pool, whichever
\* transactions landed, were lost or were forgotten in a crash.
THEOREM DebitsCovered == Spec => []DebitCovered
<1>1. BooksIInv => DebitCovered
    BY DEF BooksIInv, CoverInv
<1> QED
    BY <1>1, BooksAlways, PTL

-----------------------------------------------------------------------------
(* What the wallet promises and what it holds: whatever fails, the gap widens *)
(* by no more than the mishap                                                 *)

\* Merging transactions that no longer differ adds nothing.
LEMMA UnpolledOutgoing ==
    ASSUME TypeOK, NEW kinds, flight' = Unpolled(kinds)
    PROVE  Outgoing' <= Outgoing
<1> DEFINE quiet == [x \in flight |-> [x EXCEPT !.polled = @ /\ x.kind \notin kinds]]
           of(y) == CHOOSE x \in flight : quiet[x] = y
           kept == {of(y) : y \in Unpolled(kinds)}
<1>1. Unpolled(kinds) = {quiet[x] : x \in flight}
    BY DEF Unpolled
<1>2. ASSUME NEW y \in Unpolled(kinds) PROVE of(y) \in flight /\ quiet[of(y)] = y
    BY <1>1
<1>3. ASSUME NEW x \in flight
      PROVE  AmountOf[x] \in Nat /\ AmountOf[quiet[x]] = AmountOf[x]
    <2>1. x \in Tx /\ quiet[x] \in Tx /\ quiet[x].amt = x.amt
        BY DEF TypeOK, Tx
    <2> QED
        BY <2>1, AmountType
<1> HIDE DEF quiet, of
<1>4. kept \in SUBSET flight /\ IsFiniteSet(flight) /\ IsFiniteSet(kept)
    BY <1>2, InFlightType, FS_Subset
<1>5. \A x, y \in kept : quiet[x] = quiet[y] => x = y
    BY <1>2
<1>6. Unpolled(kinds) = {quiet[x] : x \in kept}
    BY <1>1, <1>2, <1>4
<1> HIDE DEF kept
<1>7. SumFunctionOnSet(AmountOf, {quiet[x] : x \in kept})
          = SumFunctionOnSet(AmountOf, kept)
    BY <1>3, <1>4, <1>5, SumRenamed
<1>8. SumFunctionOnSet(AmountOf, kept) <= SumFunctionOnSet(AmountOf, flight)
    BY <1>3, <1>4, SumSubset
<1>9. Lamports(Unpolled(kinds)) <= Lamports(flight)
    BY <1>6, <1>7, <1>8 DEF Lamports
<1> QED
    BY <1>9 DEF Outgoing

LEMMA UndebitedType ==
    ASSUME TypeOK
    PROVE  /\ Undebited \in Nat /\ SolUndebited \in Nat
           /\ pc \notin {"stocks", "shares", "debit"} => Undebited = 0
           /\ pc \notin {"shares", "debit"} => SolUndebited = 0
<1>1. amount \in Nat /\ got \in Nat /\ Lamports(PolledShares) \in Nat
    BY InFlightType DEF TypeOK
<1>2. amount * got \in Nat
    BY <1>1
<1>3. Undebited \in Nat
    BY <1>1, <1>2 DEF Undebited
<1> QED
    BY <1>3 DEF Undebited, SolUndebited

\* All amounts the gap is made of, and those of the airdrop.
AmountsOK ==
    /\ chain \in Nat /\ before \in Nat /\ sum["burned"] \in Nat
    /\ sum["aired"] \in Nat /\ sum["fed"] \in Nat
    /\ Pools \in Nat /\ book["sol"] \in Nat
    /\ Outgoing \in Nat /\ Lamports(Shares) \in Nat /\ Lamports(PolledShares) \in Nat
    /\ Unbooked \in Nat /\ Undebited \in Nat /\ SolUndebited \in Nat
    /\ InitialGas \in Nat /\ Fee \in Nat
    /\ Wallet \in Nat /\ Wallet <= chain
    /\ pc \notin {"claim", "measure"} => Wallet = chain

LEMMA AmountsType == TypeOK /\ OperatorInv => AmountsOK
<1> SUFFICES ASSUME TypeOK, OperatorInv PROVE AmountsOK
    OBVIOUS
<1>1. /\ Wallet \in Nat /\ Wallet <= chain
      /\ pc \notin {"claim", "measure"} => Wallet = chain
    BY DEF TypeOK, Wallet, Least
<1> QED
    BY <1>1, PoolsType, TotalsType, InFlightType, ToBookType, UndebitedType, Parameters
    DEF AmountsOK, TypeOK, Legs

LEMMA AmountsNext == TypeOK' /\ OperatorInv' => AmountsOK'
BY AmountsType, PTL

\* What each mishap allows.
LEMMA MishapType ==
    ASSUME AmountsOK, AmountsOK'
    PROVE  /\ Mishap \in Nat
           /\ pc' = "idle" => Mishap >= Undebited
           /\ LostReplies /\ pc \in {"buyback", "stocks", "draw", "shares"} =>
                 Mishap >= Outgoing' - Outgoing
           /\ LateLanding /\ pc = "shares" =>
                 Mishap >= Lamports(PolledShares) - Lamports(PolledShares)'
<1> DEFINE dead == IF pc' = "idle" THEN Undebited ELSE 0
           lost == IF LostReplies /\ pc \in {"buyback", "stocks", "draw", "shares"}
                   THEN NonNeg(Outgoing' - Outgoing) ELSE 0
           late == IF LateLanding /\ pc = "shares"
                   THEN NonNeg(Lamports(PolledShares) - Lamports(PolledShares)') ELSE 0
<1>1. /\ Undebited \in Nat /\ Outgoing \in Nat /\ Outgoing' \in Nat
      /\ Lamports(PolledShares) \in Nat /\ Lamports(PolledShares)' \in Nat
    BY DEF AmountsOK
<1>2. dead \in Nat /\ (pc' = "idle" => dead = Undebited)
    BY <1>1
<1>6. \A x, y \in Nat : NonNeg(x - y) \in Nat /\ NonNeg(x - y) >= x - y
    BY DEF NonNeg
<1>3. /\ lost \in Nat
      /\ LostReplies /\ pc \in {"buyback", "stocks", "draw", "shares"} =>
            lost >= Outgoing' - Outgoing
    BY <1>1, <1>6
<1>4. /\ late \in Nat
      /\ LateLanding /\ pc = "shares" =>
            late >= Lamports(PolledShares) - Lamports(PolledShares)'
    BY <1>1, <1>6
<1>5. Mishap = dead + lost + late
    BY DEF Mishap
<1>7. Outgoing' - Outgoing \in Int
         /\ Lamports(PolledShares) - Lamports(PolledShares)' \in Int
    BY <1>1
<1> HIDE DEF dead, lost, late
<1>8. Mishap \in Nat /\ Mishap >= dead /\ Mishap >= lost /\ Mishap >= late
    BY <1>2, <1>3, <1>4, <1>5
<1> DEFINE m == Mishap
           o == Outgoing' - Outgoing
           l == Lamports(PolledShares) - Lamports(PolledShares)'
<1>9. /\ m \in Nat /\ m >= dead /\ m >= lost /\ m >= late
      /\ o \in Int /\ l \in Int
    BY <1>7, <1>8
<1>10. pc' = "idle" => m >= Undebited
    BY <1>2, <1>9
<1>11. LostReplies /\ pc \in {"buyback", "stocks", "draw", "shares"} => m >= o
    <2> HIDE DEF m
    <2>1. ASSUME lost >= o PROVE m >= o
        <3> HIDE DEF o
        <3> QED
            BY <1>3, <1>9, <2>1
    <2> QED
        BY <1>3, <2>1
<1>12. LateLanding /\ pc = "shares" => m >= l
    <2> HIDE DEF m
    <2>1. ASSUME late >= l PROVE m >= l
        <3> HIDE DEF l
        <3> QED
            BY <1>4, <1>9, <2>1
    <2> QED
        BY <1>4, <2>1
<1> QED
    BY <1>8, <1>10, <1>11, <1>12

\* The gap, term by term.
LEMMA GapWidens ==
    ASSUME AmountsOK, AmountsOK', NEW m \in Nat,
           Pools' + Outgoing' + Unbooked' + Undebited + sum["burned"] + Wallet
              <= Pools + Outgoing + Unbooked + Undebited' + sum'["burned"] + Wallet' + m
    PROVE  Gap' <= Gap + m
<1>1. Gap' = InitialGas + Pools' + Outgoing' + Unbooked' - Undebited' - sum'["burned"]
                - Wallet'
    BY DEF Gap
<1> QED
    BY <1>1 DEF AmountsOK, Gap

\* Nothing is owed less, and the promises grow no faster than the wallet.
LEMMA GapKeeps ==
    ASSUME AmountsOK, AmountsOK', Undebited <= Undebited',
           sum'["burned"] >= sum["burned"],
           Pools' + Outgoing' + Unbooked' + Wallet
              <= Pools + Outgoing + Unbooked + Wallet'
    PROVE  Gap' <= Gap + Mishap
<1>1. Mishap \in Nat
    BY MishapType
<1>2. /\ Pools \in Nat /\ Outgoing \in Nat /\ Unbooked \in Nat /\ Wallet \in Nat
      /\ Undebited \in Nat /\ sum["burned"] \in Nat
    BY DEF AmountsOK
<1>3. /\ Pools' \in Nat /\ Outgoing' \in Nat /\ Unbooked' \in Nat /\ Wallet' \in Nat
      /\ Undebited' \in Nat /\ sum'["burned"] \in Nat
    BY DEF AmountsOK
<1>4. Pools' + Outgoing' + Unbooked' + Undebited + sum["burned"] + Wallet
          <= Pools + Outgoing + Unbooked + Undebited' + sum'["burned"] + Wallet' + Mishap
    <2> DEFINE p == Pools'
               o == Outgoing'
               u == Unbooked'
               w == Wallet'
               n == Undebited'
               b == sum'["burned"]
               m == Mishap
    <2>1. /\ p + o + u + Wallet <= Pools + Outgoing + Unbooked + w
          /\ Undebited <= n /\ b >= sum["burned"]
        OBVIOUS
    <2>2. /\ p \in Nat /\ o \in Nat /\ u \in Nat /\ w \in Nat /\ n \in Nat /\ b \in Nat
          /\ m \in Nat
        BY <1>1, <1>3
    <2>3. p + o + u + Undebited + sum["burned"] + Wallet
              <= Pools + Outgoing + Unbooked + n + b + w + m
        <3> HIDE DEF p, o, u, w, n, b, m
        <3> QED
            BY <1>2, <2>1, <2>2
    <2> QED
        BY <2>3
<1> QED
    BY <1>1, <1>4, GapWidens

\* A step that neither submits, books nor debits anything.
LEMMA PlainGap ==
    ASSUME TypeOK, AmountsOK, AmountsOK',
           UNCHANGED <<chain, flight>>, sum'["burned"] = sum["burned"],
           Pools' = Pools,
           pc \notin {"stocks", "shares", "debit"},
           pc' \notin {"claim", "measure", "operator", "book"}
    PROVE  Gap' <= Gap + Mishap
<1>1. Outgoing' = Outgoing /\ Undebited = 0
    BY SameFlight, UndebitedType
<1>2. Unbooked' = 0
    BY DEF Unbooked, ToBook
<1>3. Wallet' = chain' /\ Wallet <= chain
    BY DEF AmountsOK
<1>4. Mishap \in Nat
    BY MishapType
<1> HIDE DEF Mishap
<1> QED
    BY <1>1, <1>2, <1>3, <1>4, GapWidens DEF AmountsOK

\* The buyback or the prize is submitted: outgoing, and either still to be debited
\* or its reply is lost.
LEMMA SpendGap ==
    ASSUME TypeOK, AmountsOK, AmountsOK', HasRoom,
           NEW kind \in {"buyback", "prize"},
           flight' = Sending(kind, amount, FALSE),
           UNCHANGED <<chain, book, sum>>,
           pc \in {"buyback", "draw"},
           pc' \notin {"claim", "measure", "operator", "book"},
           (pc' = "debit" /\ UNCHANGED amount) \/ LostReplies
    PROVE  Gap' <= Gap + Mishap
<1>1. kind \in Kinds /\ amount \in Nat
    BY Entries DEF TypeOK
<1>2. Outgoing' = Outgoing + amount
    BY <1>1, SendingAdds
<1>3. Undebited = 0 /\ Unbooked' = 0 /\ Pools' = Pools
    BY UndebitedType DEF Unbooked, ToBook, Pools
<1>4. Wallet' = chain /\ Wallet = chain
    BY DEF AmountsOK
<1>5. Mishap \in Nat
    BY MishapType
<1>6. CASE pc' = "debit" /\ UNCHANGED amount
    <2>1. Undebited' = amount
        BY <1>6 DEF Undebited
    <2> QED
        BY <1>1, <1>2, <1>3, <1>4, <1>5, <2>1, GapWidens DEF AmountsOK
<1>7. CASE LostReplies
    <2>1. Mishap >= Outgoing' - Outgoing
        BY <1>7, MishapType
    <2>2. Mishap >= amount
        BY <1>1, <1>2, <1>5, <2>1 DEF AmountsOK
    <2> QED
        BY <1>1, <1>2, <1>3, <1>4, <1>5, <2>2, GapWidens DEF AmountsOK
<1> QED
    BY <1>6, <1>7

LEMMA ClaimGap ==
    ASSUME TypeOK, AmountsOK, AmountsOK', OperatorInv,
           \/ StartTick \/ ReadBefore \/ ReadBeforeFails
           \/ (\E v \in Vaults : SendClaim(v)) \/ SkipClaim \/ ClaimsSubmitted
           \/ PollClaims \/ Measure \/ MarkClaim
    PROVE  Gap' <= Gap + Mishap
<1> USE DEF outside, files, locals
<1>0. /\ Pools \in Nat /\ Outgoing \in Nat /\ Unbooked \in Nat /\ Wallet \in Nat
      /\ Pools' \in Nat /\ Outgoing' \in Nat /\ Unbooked' \in Nat /\ Wallet' \in Nat
    BY DEF AmountsOK
<1>1. CASE StartTick \/ ReadBeforeFails \/ MarkClaim
    <2>1. /\ UNCHANGED <<chain, flight, sum, book>>
          /\ pc \notin {"stocks", "shares", "debit"}
          /\ pc' \notin {"claim", "measure", "operator", "book"}
        BY <1>1 DEF StartTick, ReadBeforeFails, MarkClaim
    <2>2. Pools' = Pools
        BY <2>1 DEF Pools
    <2> QED
        BY <2>1, <2>2, PlainGap
<1>2. CASE ReadBefore
    <2>1. /\ UNCHANGED <<chain, flight, sum, book>>
          /\ pc = "before" /\ pc' = "claim" /\ before' = chain
        BY <1>2 DEF ReadBefore
    <2>2. Outgoing' = Outgoing /\ Pools' = Pools
        BY <2>1, SameFlight DEF Pools
    <2>3. Undebited = 0 /\ Undebited' = 0 /\ Unbooked' = 0
        BY <2>1, UndebitedType DEF Undebited, Unbooked, ToBook
    <2>4. Wallet = chain /\ Wallet' = chain
        BY <2>1 DEF AmountsOK, Wallet, Least
    <2> QED
        BY <2>1, <2>2, <2>3, <2>4, GapKeeps DEF AmountsOK
<1>3. CASE (\E v \in Vaults : SendClaim(v)) \/ SkipClaim \/ ClaimsSubmitted \/ PollClaims
    <2>1. /\ UNCHANGED <<chain, before, sum, book>>
          /\ pc \in {"claim", "measure"} /\ pc' \in {"claim", "measure"}
        BY <1>3 DEF SendClaim, SkipClaim, ClaimsSubmitted, PollClaims, claiming, polling
    <2>2. Outgoing' = Outgoing
        <3>1. CASE UNCHANGED flight
            BY <3>1, SameFlight
        <3>2. CASE \E v \in Vaults : SendClaim(v)
            <4>1. PICK v \in Vaults, heard \in Heard :
                      HasRoom /\ flight' = Sending(v, 0, heard)
                BY <3>2 DEF SendClaim
            <4>2. v \in Kinds /\ heard \in BOOLEAN
                BY Parameters, TreasuryAssumption DEF Heard
            <4>3. Outgoing' = Outgoing + 0
                BY <4>1, <4>2, SendingAdds
            <4> QED
                BY <4>3, InFlightType
        <3> QED
            BY <1>3, <3>1, <3>2 DEF SkipClaim, ClaimsSubmitted, PollClaims, polling
    <2>3. Pools' = Pools /\ Wallet' = Wallet
        BY <2>1 DEF Pools, Wallet
    <2>4. Undebited = 0 /\ Undebited' = 0 /\ Unbooked' = 0
        BY <2>1, UndebitedType DEF Undebited, Unbooked, ToBook
    <2> QED
        BY <2>1, <2>2, <2>3, <2>4, GapKeeps DEF AmountsOK
<1>4. CASE Measure
    <2>1. /\ UNCHANGED <<chain, before, book>> /\ pc = "measure"
          /\ \/ pc' = "operator" /\ claimed' = chain - before /\ claimed' > 0
             \/ pc' = "markClaim"
          /\ flight' = Unpolled(Vaults)
          /\ sum' \in {sum, Add(sum, "measured", NonNeg(chain - before))}
        BY <1>4 DEF Measure, TypeOK
    <2>2. Outgoing' <= Outgoing
        BY <2>1, UnpolledOutgoing
    <2>3. sum'["burned"] = sum["burned"] /\ Pools' = Pools
        BY <2>1 DEF Add, TypeOK, Totals, Pools
    <2>4. Undebited = 0 /\ Undebited' = 0
        BY <2>1, UndebitedType DEF Undebited
    <2>5. Unbooked' = IF pc' = "operator" THEN claimed' ELSE 0
        <3>1. /\ ToBook("ad")' = 0 /\ ToBook("casino")' = 0 /\ ToBook("sol")' = 0
              /\ ToBook("cpm")' = 0 /\ ToBook("stock")' = 0
            BY <2>1 DEF ToBook
        <3>2. chain - before \in Int
            BY DEF TypeOK
        <3> QED
            BY <2>1, <3>1, <3>2 DEF Unbooked
    <2>6. Wallet' = chain /\ Wallet <= chain /\ Wallet <= before
        BY <2>1 DEF AmountsOK, Wallet, Least
    <2>7. Wallet + Unbooked' <= Wallet'
        <3>1. /\ Wallet \in Nat /\ Wallet' = chain /\ chain \in Nat /\ before \in Nat
              /\ Wallet <= chain /\ Wallet <= before
            BY <2>6 DEF AmountsOK
        <3>2. CASE pc' = "operator"
            <4>1. Unbooked' = chain - before
                BY <2>1, <2>5, <3>2
            <4> QED
                BY <3>1, <4>1
        <3>3. CASE pc' # "operator"
            BY <2>5, <3>1, <3>3
        <3> QED
            BY <3>2, <3>3
    <2>8. Pools' + Outgoing' + Unbooked' + Wallet
              <= Pools + Outgoing + Unbooked + Wallet'
        <3>1. \A p, q, o, r, u, v, w, x \in Nat :
                  q = p /\ r <= o /\ w + v <= x => q + r + v + w <= p + o + u + x
            OBVIOUS
        <3> QED
            BY <1>0, <2>2, <2>3, <2>7, <3>1
    <2> QED
        BY <2>3, <2>4, <2>8, GapKeeps DEF AmountsOK
<1> QED
    BY <1>1, <1>2, <1>3, <1>4

LEMMA SplitGap ==
    ASSUME TypeOK, AmountsOK, AmountsOK', OperatorInv, PayOperator \/ Book
    PROVE  Gap' <= Gap + Mishap
<1> USE DEF outside, files
<1>0. /\ Pools \in Nat /\ Outgoing \in Nat /\ Unbooked \in Nat /\ Wallet \in Nat
      /\ Pools' \in Nat /\ Outgoing' \in Nat /\ Unbooked' \in Nat /\ Wallet' \in Nat
    BY DEF AmountsOK
<1>1. CASE PayOperator
    <2> DEFINE cut == OperatorCut(claimed)
    <2>1. /\ pc = "operator" /\ UNCHANGED <<chain, book, claimed>>
          /\ \/ pc' = "book" /\ leg' = "ad"
             \/ pc' = "markClaim"
          /\ \/ UNCHANGED flight
             \/ HasRoom /\ flight' = Sending("operator", cut, FALSE)
          /\ sum' \in {sum, Add(sum, "cut", cut)}
        BY <1>1 DEF PayOperator, SendCut, StartBooking
    <2>2. /\ Pools' = Pools /\ Undebited = 0 /\ Undebited' = 0
          /\ Wallet = chain /\ Wallet' = chain
        BY <2>1, UndebitedType DEF Pools, Undebited, AmountsOK
    <2>3. cut \in Nat /\ cut <= Unbooked
        <3>1. claimed \in Nat /\ Unbooked = claimed
            BY <2>1 DEF TypeOK, OperatorInv, Unbooked, ToBook
        <3> QED
            BY <3>1, SplitIsExact DEF Legs
    <2>4. Unbooked' + cut <= Unbooked
        <3>1. CASE pc' = "book" /\ leg' = "ad"
            BY <2>1, <3>1, BookingStarts
        <3>2. CASE pc' = "markClaim"
            <4>1. Unbooked' = 0
                BY <3>2 DEF Unbooked, ToBook
            <4> QED
                BY <2>3, <4>1
        <3> QED
            BY <2>1, <3>1, <3>2
    <2> HIDE DEF cut
    <2>5. Outgoing' <= Outgoing + cut
        <3>1. CASE UNCHANGED flight
            BY <2>3, <3>1, SameFlight, InFlightType
        <3>2. CASE HasRoom /\ flight' = Sending("operator", cut, FALSE)
            <4>1. Outgoing' = Outgoing + cut
                BY <2>3, <3>2, SendingAdds, Entries
            <4> QED
                BY <2>3, <4>1, InFlightType
        <3> QED
            BY <2>1, <3>1, <3>2
    <2>6. sum'["burned"] = sum["burned"]
        BY <2>1 DEF Add, TypeOK, Totals
    <2>7. Pools' + Outgoing' + Unbooked' + Wallet
              <= Pools + Outgoing + Unbooked + Wallet'
        <3>1. \A p, q, o, r, u, v, w, x, c \in Nat :
                  q = p /\ r <= o + c /\ v + c <= u /\ x = w =>
                      q + r + v + w <= p + o + u + x
            OBVIOUS
        <3>2. Wallet' = Wallet /\ Pools' = Pools
            BY <2>2
        <3> QED
            BY <1>0, <2>3, <2>4, <2>5, <3>1, <3>2
    <2> QED
        BY <2>2, <2>6, <2>7, GapKeeps DEF AmountsOK
<1>2. CASE Book
    <2> DEFINE share == NonNeg(Share(leg, claimed))
    <2>1. share \in Nat /\ share + Unbooked' <= Unbooked
        BY <1>2, BookedRest
    <2>2. /\ pc = "book" /\ pc' \in {"book", "markClaim", "swap"}
          /\ book' = Add(book, leg, share)
          /\ sum' \in {sum, Add(sum, "fed", share)}
          /\ UNCHANGED <<chain, flight>>
        BY <1>2 DEF Book
    <2> HIDE DEF share
    <2>3. sum'["burned"] = sum["burned"] /\ Outgoing' = Outgoing
        BY <2>2, SameFlight DEF Add, TypeOK, Totals
    <2>4. Pools' = Pools + share
        <3>1. book[leg] \in Nat /\ leg \in Legs /\ book[leg] + share \in Nat
            BY <2>1 DEF TypeOK, Legs
        <3>2. book' = [book EXCEPT ![leg] = book[leg] + share]
            BY <2>2 DEF Add
        <3>3. Pools' = Pools - book[leg] + (book[leg] + share)
            BY <3>1, <3>2, PoolsWritten
        <3> QED
            BY <2>1, <3>1, <3>3, PoolsType
    <2>5. Undebited = 0 /\ Undebited' = 0 /\ Wallet = chain /\ Wallet' = chain
        BY <2>2, UndebitedType DEF Undebited, AmountsOK
    <2>6. Pools' + Outgoing' + Unbooked' + Wallet
              <= Pools + Outgoing + Unbooked + Wallet'
        <3>1. \A p, q, o, r, u, v, w, x, s \in Nat :
                  q = p + s /\ r = o /\ s + v <= u /\ x = w =>
                      q + r + v + w <= p + o + u + x
            OBVIOUS
        <3>2. Wallet' = Wallet /\ Outgoing' = Outgoing
            BY <2>3, <2>5
        <3> QED
            BY <1>0, <2>1, <2>4, <3>1, <3>2
    <2> QED
        BY <2>3, <2>5, <2>6, GapKeeps DEF AmountsOK
<1> QED
    BY <1>1, <1>2

\* Term by term, by how much each has moved.
LEMMA GapTerms ==
    ASSUME AmountsOK, AmountsOK', NEW m \in Nat,
           NEW p \in Int, NEW o \in Int, NEW n \in Int, NEW b \in Int, NEW w \in Int,
           Pools' <= Pools + p, Outgoing' <= Outgoing + o, Unbooked' <= Unbooked,
           Undebited' >= Undebited + n, sum'["burned"] >= sum["burned"] + b,
           Wallet' >= Wallet + w,
           p + o <= n + b + w + m
    PROVE  Gap' <= Gap + m
<1> DEFINE pp == Pools'
           oo == Outgoing'
           uu == Unbooked'
           nn == Undebited'
           bb == sum'["burned"]
           ww == Wallet'
<1>1. /\ Pools \in Nat /\ Outgoing \in Nat /\ Unbooked \in Nat /\ Wallet \in Nat
      /\ Undebited \in Nat /\ sum["burned"] \in Nat
    BY DEF AmountsOK
<1>2. /\ pp \in Nat /\ oo \in Nat /\ uu \in Nat /\ ww \in Nat /\ nn \in Nat /\ bb \in Nat
    BY DEF AmountsOK
<1>3. /\ pp <= Pools + p /\ oo <= Outgoing + o /\ uu <= Unbooked
      /\ nn >= Undebited + n /\ bb >= sum["burned"] + b /\ ww >= Wallet + w
    OBVIOUS
<1>4. pp + oo + uu + Undebited + sum["burned"] + Wallet
          <= Pools + Outgoing + Unbooked + nn + bb + ww + m
    <2> HIDE DEF pp, oo, uu, nn, bb, ww
    <2> QED
        BY <1>1, <1>2, <1>3
<1> QED
    BY <1>4, GapWidens

\* A payment of a leg is submitted, and the leg will debit it or its reply is lost.
LEMMA GapSends ==
    ASSUME AmountsOK, AmountsOK', NEW x \in Nat,
           Outgoing' = Outgoing + x,
           UNCHANGED <<chain, book, sum>>,
           pc \in {"stocks", "shares"}, pc' = pc,
           \/ Undebited' = Undebited + x
           \/ Undebited' = Undebited /\ LostReplies
    PROVE  Gap' <= Gap + Mishap
<1>1. /\ Pools' = Pools /\ Unbooked' = 0 /\ Wallet' = chain /\ Wallet = chain
      /\ sum'["burned"] = sum["burned"]
    BY DEF Pools, Unbooked, ToBook, AmountsOK
<1>2. /\ Pools \in Nat /\ Outgoing \in Nat /\ Unbooked \in Nat /\ chain \in Nat
      /\ Undebited \in Nat /\ sum["burned"] \in Nat
    BY DEF AmountsOK
<1>3. Mishap \in Nat
    BY MishapType
<1>4. /\ Pools' <= Pools + 0 /\ Outgoing' <= Outgoing + x /\ Unbooked' <= Unbooked
      /\ sum'["burned"] >= sum["burned"] + 0 /\ Wallet' >= Wallet + 0
    BY <1>1, <1>2
<1>5. CASE Undebited' = Undebited + x
    <2>1. Undebited' >= Undebited + x
        BY <1>2, <1>5
    <2>2. 0 + x <= x + 0 + 0 + Mishap
        BY <1>3
    <2> QED
        BY <1>3, <1>4, <2>1, <2>2, GapTerms
<1>6. CASE Undebited' = Undebited /\ LostReplies
    <2>1. Undebited' >= Undebited + 0
        BY <1>2, <1>6
    <2>2. Mishap >= x
        <3>1. Mishap >= Outgoing' - Outgoing
            BY <1>6, MishapType
        <3> QED
            BY <1>2, <1>3, <3>1
    <2>3. 0 + x <= 0 + 0 + 0 + Mishap
        BY <1>3, <2>2
    <2> QED
        BY <1>3, <1>4, <2>1, <2>3, GapTerms
<1> QED
    BY <1>5, <1>6

LEMMA SwapGap ==
    ASSUME TypeOK, SpentInv, CoverInv, AmountsOK, AmountsOK',
           \/ StartBuyback \/ TryRoute \/ NoRouteLeft
           \/ StartBasket \/ BuyStock \/ BasketBought \/ Debit \/ Count
    PROVE  Gap' <= Gap + Mishap
<1> USE DEF outside, files, locals
<1>0. Mishap \in Nat
    BY MishapType
<1>1. CASE StartBuyback \/ NoRouteLeft \/ StartBasket
    <2>1. /\ UNCHANGED <<chain, flight, sum, book>>
          /\ pc \notin {"stocks", "shares", "debit"}
          /\ pc' \notin {"claim", "measure", "operator", "book"}
        BY <1>1 DEF StartBuyback, NoRouteLeft, StartBasket
    <2>2. Pools' = Pools
        BY <2>1 DEF Pools
    <2> QED
        BY <2>1, <2>2, PlainGap
<1>2. CASE TryRoute
    <2>1. /\ pc = "buyback" /\ pc' \in {"buyback", "debit"}
          /\ UNCHANGED <<chain, sum, book, amount>>
          /\ \/ /\ HasRoom /\ flight' = Sending("buyback", amount, FALSE)
                /\ pc' = "debit" \/ LostReplies
             \/ pc' = "buyback" /\ UNCHANGED flight
        BY <1>2 DEF TryRoute
    <2>2. Pools' = Pools
        BY <2>1 DEF Pools
    <2> QED
        BY <2>1, <2>2, PlainGap, SpendGap
<1>3. CASE Count
    <2>1. /\ pc = "count" /\ UNCHANGED <<chain, flight, sum>>
          /\ book' = Add(book, "total", amount)
          /\ pc' = AfterSpend[leg] /\ leg \in Legs \ {"ad"}
        BY <1>3 DEF Count, SpentInv, TypeOK
    <2>2. pc' \in {"basket", "markClaim", "markCasino", "tokens"}
        BY <2>1 DEF AfterSpend, Legs
    <2>3. Pools' = Pools
        BY <2>1 DEF Add, TypeOK, Legs, Pools
    <2> QED
        BY <2>1, <2>2, <2>3, PlainGap
<1>4. CASE BuyStock
    <2>1. /\ pc = "stocks" /\ pc' = pc /\ UNCHANGED <<chain, sum, book, amount>>
          /\ \/ /\ HasRoom /\ flight' = Sending("basket", amount, FALSE)
                /\ got' = got + 1 \/ (UNCHANGED got /\ LostReplies)
             \/ UNCHANGED <<flight, got>>
        BY <1>4 DEF BuyStock
    <2>2. Undebited = amount * got /\ Undebited' = amount * got'
        BY <2>1 DEF Undebited
    <2>3. "basket" \in Kinds /\ amount \in Nat /\ got \in Nat
        BY Entries DEF TypeOK
    <2>4. CASE UNCHANGED <<flight, got>>
        <3>1. Outgoing' = Outgoing + 0 /\ Undebited' = Undebited + 0
            BY <2>2, <2>4, SameFlight, InFlightType, UndebitedType
        <3> QED
            BY <2>1, <3>1, GapSends
    <2>5. CASE HasRoom /\ flight' = Sending("basket", amount, FALSE)
        <3>1. Outgoing' = Outgoing + amount
            BY <2>3, <2>5, SendingAdds
        <3>2. CASE got' = got + 1
            <4>1. Undebited' = Undebited + amount
                <5>1. \A x, y \in Nat : x * (y + 1) = x * y + x
                    OBVIOUS
                <5> QED
                    BY <2>2, <2>3, <3>2, <5>1
            <4> QED
                BY <2>1, <2>3, <3>1, <4>1, GapSends
        <3>3. CASE UNCHANGED got /\ LostReplies
            <4>1. Undebited' = Undebited
                BY <2>2, <3>3
            <4> QED
                BY <2>1, <2>3, <3>1, <3>3, <4>1, GapSends
        <3>4. CASE UNCHANGED <<flight, got>>
            BY <2>4, <3>4
        <3> QED
            BY <2>1, <3>2, <3>3, <3>4
    <2> QED
        BY <2>1, <2>4, <2>5
<1>5. CASE BasketBought
    <2>1. /\ pc = "stocks" /\ UNCHANGED <<chain, flight, sum, book>>
          /\ \/ got > 0 /\ pc' = "debit" /\ amount' = amount * got
             \/ ~(got > 0) /\ pc' = "markClaim"
        BY <1>5 DEF BasketBought
    <2>2. Outgoing' = Outgoing /\ Pools' = Pools /\ sum'["burned"] = sum["burned"]
        BY <2>1, SameFlight DEF Pools
    <2>3. Unbooked' = 0 /\ Wallet' = Wallet
        BY <2>1 DEF Unbooked, ToBook, Wallet
    <2>4. Undebited' = Undebited
        <3>1. Undebited = amount * got
            BY <2>1 DEF Undebited
        <3>2. CASE got > 0
            BY <2>1, <3>1, <3>2 DEF Undebited
        <3>3. CASE ~(got > 0)
            <4>1. got = 0 /\ amount \in Nat
                BY <3>3 DEF TypeOK
            <4>2. amount * got = 0
                BY <4>1
            <4>3. Undebited' = 0
                BY <2>1, <3>3 DEF Undebited
            <4> QED
                BY <3>1, <4>2, <4>3
        <3> QED
            BY <3>2, <3>3
    <2> QED
        BY <1>0, <2>2, <2>3, <2>4, GapWidens DEF AmountsOK
<1>6. CASE Debit
    <2>1. /\ pc = "debit" /\ pc' = "count" /\ UNCHANGED <<chain, flight, sum, amount>>
          /\ book' = [book EXCEPT ![leg] = NonNeg(book[leg] - amount)]
        BY <1>6 DEF Debit
    <2>2. leg \in Legs /\ book[leg] \in Nat /\ amount \in Nat /\ book[leg] >= amount
        BY <2>1 DEF TypeOK, CoverInv, DebitCovered, Legs
    <2>3. NonNeg(book[leg] - amount) = book[leg] - amount /\ book[leg] - amount \in Nat
        BY <2>2 DEF NonNeg
    <2>4. Pools' <= Pools + (-amount)
        <3>1. Pools' = Pools - book[leg] + (book[leg] - amount)
            BY <2>1, <2>2, <2>3, PoolsWritten
        <3> QED
            BY <2>2, <3>1, PoolsType
    <2>5. Undebited' >= Undebited + (-amount)
        <3>1. Undebited = amount /\ Undebited' = 0
            BY <2>1 DEF Undebited
        <3> QED
            BY <2>2, <3>1
    <2>6. /\ Outgoing' <= Outgoing + 0 /\ Unbooked' <= Unbooked
          /\ sum'["burned"] >= sum["burned"] + 0 /\ Wallet' >= Wallet + 0
        <3>1. /\ Outgoing' = Outgoing /\ Unbooked' = 0 /\ Wallet' = Wallet
              /\ sum'["burned"] = sum["burned"]
            BY <2>1, SameFlight DEF Unbooked, ToBook, Wallet
        <3> QED
            BY <3>1 DEF AmountsOK
    <2>7. -amount \in Int /\ (-amount) + 0 <= (-amount) + 0 + 0 + Mishap
        BY <1>0, <2>2
    <2> QED
        BY <1>0, <2>4, <2>5, <2>6, <2>7, GapTerms
<1> QED
    BY <1>1, <1>2, <1>3, <1>4, <1>5, <1>6

LEMMA PayoutGap ==
    ASSUME TypeOK, CoverInv, AmountsOK, AmountsOK',
           \/ SkipDraw \/ DrawWinner \/ SendPrize \/ MarkCasino
           \/ SkipAirdrop \/ StartAirdrop \/ SendShare \/ EndShares \/ TokenLegs
           \/ Crash
    PROVE  Gap' <= Gap + Mishap
<1> USE DEF outside, files, locals
<1>0. Mishap \in Nat
    BY MishapType
<1>1. CASE SkipDraw \/ DrawWinner \/ MarkCasino \/ SkipAirdrop \/ StartAirdrop
    <2>1. /\ UNCHANGED <<chain, flight, sum, book>>
          /\ pc \notin {"stocks", "shares", "debit"}
          /\ pc' \notin {"claim", "measure", "operator", "book"}
        BY <1>1 DEF SkipDraw, DrawWinner, MarkCasino, SkipAirdrop, StartAirdrop, GoIdle
    <2>2. Pools' = Pools
        BY <2>1 DEF Pools
    <2> QED
        BY <2>1, <2>2, PlainGap
<1>2. CASE SendPrize
    <2>1. /\ pc = "draw" /\ pc' \in {"debit", "airdrop"}
          /\ UNCHANGED <<chain, sum, book>>
          /\ \/ /\ HasRoom /\ flight' = Sending("prize", amount, FALSE)
                /\ (pc' = "debit" /\ UNCHANGED amount) \/ LostReplies
             \/ pc' = "airdrop" /\ UNCHANGED flight
        BY <1>2 DEF SendPrize
    <2>2. Pools' = Pools
        BY <2>1 DEF Pools
    <2> QED
        BY <2>1, <2>2, PlainGap, SpendGap
<1>3. CASE SendShare
    <2>1. PICK a \in MinSolPayout .. left :
              \/ /\ HasRoom
                 /\ \E heard \in Heard : flight' = Sending("share", a, heard)
              \/ UNCHANGED flight
        BY <1>3 DEF SendShare
    <2>2. /\ pc = "shares" /\ pc' = pc
          /\ UNCHANGED <<chain, sum, book, got>> /\ got \in Nat
        BY <1>3 DEF SendShare, TypeOK
    <2>3. /\ Undebited = got + Lamports(PolledShares)
          /\ Undebited' = got + Lamports(PolledShares)'
        BY <2>2 DEF Undebited
    <2>4. CASE UNCHANGED flight
        <3>1. Outgoing' = Outgoing + 0 /\ Undebited' = Undebited + 0
            BY <2>3, <2>4, SameFlight, InFlightType, UndebitedType
        <3> QED
            BY <2>2, <3>1, GapSends
    <2>5. CASE HasRoom /\ \E heard \in Heard : flight' = Sending("share", a, heard)
        <3>1. PICK heard \in Heard : flight' = Sending("share", a, heard)
            BY <2>5
        <3>2. a \in Nat /\ "share" \in Kinds /\ heard \in BOOLEAN
            <4>1. heard \in BOOLEAN
                BY DEF Heard
            <4> QED
                BY <4>1, Entries, Parameters DEF TypeOK
        <3>3. /\ Outgoing' = Outgoing + a
              /\ Lamports(PolledShares)'
                    = Lamports(PolledShares) + (IF heard THEN a ELSE 0)
            BY <2>5, <3>1, <3>2, SendingAdds
        <3>4. CASE heard
            <4>1. Undebited' = Undebited + a
                BY <2>2, <2>3, <3>2, <3>3, <3>4, InFlightType
            <4> QED
                BY <2>2, <3>2, <3>3, <4>1, GapSends
        <3>5. CASE ~heard
            <4>1. Undebited' = Undebited
                BY <2>2, <2>3, <3>2, <3>3, <3>5, InFlightType
            <4>2. LostReplies
                BY <3>5 DEF Heard
            <4> QED
                BY <2>2, <3>2, <3>3, <4>1, <4>2, GapSends
        <3> QED
            BY <3>4, <3>5
    <2> QED
        BY <2>1, <2>4, <2>5
<1>4. CASE EndShares
    <2>1. /\ pc = "shares" /\ UNCHANGED <<chain, sum, book>>
          /\ LateLanding \/ ~Awaiting({"share"})
          /\ flight' = Unpolled({"share"})
          /\ \/ got > 0 /\ pc' = "debit" /\ amount' = got
             \/ ~(got > 0) /\ pc' = "tokens"
        BY <1>4 DEF EndShares
    <2>2. Undebited = got + Lamports(PolledShares) /\ got \in Nat
        BY <2>1 DEF Undebited, TypeOK
    <2>3. Undebited' = got
        <3>1. CASE got > 0
            BY <2>1, <3>1 DEF Undebited
        <3>2. CASE ~(got > 0)
            BY <2>1, <2>2, <3>2 DEF Undebited
        <3> QED
            BY <3>1, <3>2
    <2>4. Lamports(PolledShares) \in Nat /\ Lamports(PolledShares) <= Mishap
        <3>1. CASE LateLanding
            <4>1. PolledShares' = {}
                BY <2>1, UnpolledShares
            <4>2. Lamports(PolledShares)' = 0
                BY <4>1, LamportsNone
            <4>3. Mishap >= Lamports(PolledShares) - Lamports(PolledShares)'
                BY <2>1, <3>1, MishapType
            <4> QED
                BY <1>0, <4>2, <4>3, InFlightType
        <3>2. CASE ~Awaiting({"share"})
            <4>1. PolledShares = {}
                BY <3>2 DEF Awaiting, PolledShares, Shares
            <4> QED
                BY <1>0, <4>1, LamportsNone
        <3> QED
            BY <2>1, <3>1, <3>2
    <2> DEFINE l == Lamports(PolledShares)
    <2>5. Undebited' >= Undebited + (-l)
        BY <2>2, <2>3, <2>4
    <2>6. Outgoing' <= Outgoing + 0
        BY <2>1, UnpolledOutgoing, InFlightType
    <2>7. /\ Pools' <= Pools + 0 /\ Unbooked' <= Unbooked
          /\ sum'["burned"] >= sum["burned"] + 0 /\ Wallet' >= Wallet + 0
        <3>1. /\ Pools' = Pools /\ Unbooked' = 0 /\ Wallet' = Wallet
              /\ sum'["burned"] = sum["burned"]
            BY <2>1 DEF Pools, Unbooked, ToBook, Wallet
        <3> QED
            BY <3>1 DEF AmountsOK
    <2>8. -l \in Int /\ 0 + 0 <= (-l) + 0 + 0 + Mishap
        BY <1>0, <2>4
    <2> HIDE DEF l
    <2> QED
        BY <1>0, <2>5, <2>6, <2>7, <2>8, GapTerms
<1>5. CASE TokenLegs
    <2>1. PICK fees \in {0, Fee} :
              /\ fees <= chain
              /\ chain' = chain - fees
              /\ sum' = Add(sum, "burned", fees)
        BY <1>5 DEF TokenLegs
    <2>2. /\ pc = "tokens" /\ pc' = "idle" /\ UNCHANGED <<book, flight>>
        BY <1>5 DEF TokenLegs, GoIdle
    <2>3. fees \in Nat
        BY Parameters
    <2>4. sum'["burned"] >= sum["burned"] + fees
        <3>1. sum'["burned"] = sum["burned"] + fees
            BY <2>1 DEF Add, TypeOK, Totals
        <3> QED
            BY <2>3, <3>1 DEF AmountsOK
    <2>5. Wallet' >= Wallet + (-fees)
        <3>1. Wallet' = chain' /\ Wallet = chain
            BY <2>2 DEF AmountsOK
        <3> QED
            BY <2>1, <2>3, <3>1 DEF AmountsOK
    <2>6. /\ Pools' <= Pools + 0 /\ Outgoing' <= Outgoing + 0 /\ Unbooked' <= Unbooked
          /\ Undebited' >= Undebited + 0
        <3>1. /\ Pools' = Pools /\ Outgoing' = Outgoing /\ Unbooked' = 0
              /\ Undebited = 0
            BY <2>2, SameFlight, UndebitedType DEF Pools, Unbooked, ToBook
        <3> QED
            BY <3>1 DEF AmountsOK
    <2>7. -fees \in Int /\ 0 + 0 <= 0 + fees + (-fees) + Mishap
        BY <1>0, <2>3
    <2> QED
        BY <1>0, <2>3, <2>4, <2>5, <2>6, <2>7, GapTerms
<1>6. CASE Crash
    <2>1. /\ pc' = "idle" /\ UNCHANGED <<chain, book, sum>>
          /\ flight' = Unpolled(Kinds)
        BY <1>6 DEF Crash, GoIdle
    <2>2. Undebited \in Nat /\ Mishap >= Undebited
        BY <2>1, MishapType DEF AmountsOK
    <2> DEFINE u == Undebited
    <2>3. Undebited' >= Undebited + (-u)
        BY <2>2 DEF AmountsOK
    <2>4. Outgoing' <= Outgoing + 0
        BY <2>1, UnpolledOutgoing, InFlightType
    <2>5. /\ Pools' <= Pools + 0 /\ Unbooked' <= Unbooked
          /\ sum'["burned"] >= sum["burned"] + 0 /\ Wallet' >= Wallet + 0
        <3>1. /\ Pools' = Pools /\ Unbooked' = 0 /\ Wallet' = chain
              /\ sum'["burned"] = sum["burned"]
            BY <2>1 DEF Pools, Unbooked, ToBook, AmountsOK
        <3> QED
            BY <3>1 DEF AmountsOK
    <2>6. -u \in Int /\ 0 + 0 <= (-u) + 0 + 0 + Mishap
        BY <1>0, <2>2
    <2> HIDE DEF u
    <2> QED
        BY <1>0, <2>3, <2>4, <2>5, <2>6, GapTerms
<1> QED
    BY <1>1, <1>2, <1>3, <1>4, <1>5, <1>6

\* The step of the bot and what it has yet to book do not change in the world.
LEMMA WorldBooks ==
    ASSUME World
    PROVE  Pools' = Pools /\ Unbooked' = Unbooked
BY WorldKeeps DEF Pools, Unbooked, ToBook

\* A transaction that ends takes with it what the bot may still learn about it.
LEMMA EndingUndebited ==
    ASSUME TypeOK, CoverInv, World, NEW x \in flight, flight' = flight \ {x},
           \/ UNCHANGED got
           \/ x.kind = "share" /\ x.polled /\ got' = got + x.amt
           \/ pc \in {"claim", "measure"} /\ got' \in Nat
    PROVE  LET noticed == IF x.kind = "share" /\ x.polled THEN x.amt ELSE 0
           IN  /\ Undebited' \in Nat /\ SolUndebited' \in Nat
               /\ Undebited' + noticed >= Undebited
               /\ SolUndebited' + noticed >= SolUndebited
               /\ got' = got + noticed => Undebited' >= Undebited
                                             /\ SolUndebited' >= SolUndebited
               /\ pc # "shares" => noticed = 0
<1> DEFINE noticed == IF x.kind = "share" /\ x.polled THEN x.amt ELSE 0
<1>1. UNCHANGED <<pc, leg, amount>>
    BY WorldKeeps
<1>2. /\ x.amt \in Nat
      /\ Lamports(PolledShares) = Lamports(PolledShares)' + noticed
      /\ Lamports(PolledShares)' \in Nat
    BY EndingRemoves
<1>3. got \in Nat /\ got' \in Nat /\ noticed \in Nat
    BY <1>2 DEF TypeOK
<1>4. CASE pc = "shares"
    <2>1. /\ Undebited = got + Lamports(PolledShares) /\ SolUndebited = Undebited
          /\ Undebited' = got' + Lamports(PolledShares)' /\ SolUndebited' = Undebited'
        BY <1>1, <1>4 DEF Undebited, SolUndebited
    <2>3. UNCHANGED got \/ (x.kind = "share" /\ x.polled /\ got' = got + x.amt)
        BY <1>4
    <2>2. got' >= got
        BY <1>2, <1>3, <2>3
    <2> HIDE DEF noticed
    <2> QED
        BY <1>2, <1>3, <1>4, <2>1, <2>2 DEF noticed
<1>5. CASE pc # "shares"
    <2>1. PolledShares = {}
        BY <1>5 DEF CoverInv
    <2>2. ~(x.kind = "share" /\ x.polled)
             /\ (UNCHANGED got \/ pc \in {"claim", "measure"})
        BY <2>1 DEF PolledShares, Shares
    <2>3. Undebited' = Undebited /\ SolUndebited' = SolUndebited
        BY <1>1, <1>5, <2>2 DEF Undebited, SolUndebited
    <2>4. Undebited \in Nat /\ SolUndebited \in Nat
        BY UndebitedType
    <2> QED
        BY <1>3, <2>2, <2>3, <2>4
<1> QED
    BY <1>4, <1>5

\* What the wallet counts falls by no more than the wallet does.
LEMMA WalletKeeps ==
    ASSUME AmountsOK, AmountsOK', UNCHANGED <<pc, before>>,
           NEW d \in Nat, chain' >= chain + (-d)
    PROVE  Wallet' >= Wallet + (-d)
<1>1. chain \in Nat /\ chain' \in Nat /\ before \in Nat
    BY DEF AmountsOK
<1>2. \A x, y, z \in Nat : y >= x + (-d) => Least(z, y) >= Least(z, x) + (-d)
    BY DEF Least
<1> QED
    BY <1>1, <1>2 DEF Wallet

\* A transaction ends: it lands and is paid in full, noticed, or missed by the
\* last poll; or it is gone and pays nothing.
LEMMA EndingGap ==
    ASSUME TypeOK, CoverInv, World, AmountsOK, AmountsOK',
           NEW x \in flight, flight' = flight \ {x},
           \/ UNCHANGED got
           \/ x.kind = "share" /\ x.polled /\ got' = got + x.amt
           \/ pc \in {"claim", "measure"} /\ got' \in Nat,
           NEW fee \in Nat, sum'["burned"] = sum["burned"] + fee,
           \/ /\ chain' >= chain + (-(x.amt + fee))
              /\ \/ got' = got + (IF x.kind = "share" /\ x.polled THEN x.amt ELSE 0)
                 \/ LateLanding
           \/ chain' >= chain + (-fee)
    PROVE  Gap' <= Gap + Mishap
<1> DEFINE noticed == IF x.kind = "share" /\ x.polled THEN x.amt ELSE 0
<1>0. Mishap \in Nat
    BY MishapType
<1>1. /\ x.amt \in Nat /\ noticed \in Nat /\ noticed <= x.amt
      /\ Outgoing = Outgoing' + x.amt /\ Outgoing' \in Nat
      /\ Lamports(PolledShares) = Lamports(PolledShares)' + noticed
      /\ Lamports(PolledShares)' \in Nat
    BY EndingRemoves
<1>2. /\ Undebited' \in Nat /\ Undebited \in Nat
      /\ Undebited' + noticed >= Undebited
      /\ got' = got + noticed => Undebited' >= Undebited
      /\ pc # "shares" => noticed = 0
    BY EndingUndebited, UndebitedType
<1>3. /\ Pools' <= Pools + 0 /\ Unbooked' <= Unbooked /\ UNCHANGED <<pc, before>>
      /\ sum'["burned"] >= sum["burned"] + fee
    <2>1. Pools' = Pools /\ Unbooked' = Unbooked /\ UNCHANGED <<pc, before>>
        BY WorldBooks, WorldKeeps
    <2> QED
        BY <2>1 DEF AmountsOK
<1> HIDE DEF noticed
<1>4. Outgoing' <= Outgoing + (-(x.amt)) /\ Undebited' >= Undebited + (-noticed)
    <2>1. \A o, p, a \in Nat : o = p + a => p <= o + (-a)
        OBVIOUS
    <2>2. \A u, v, n \in Nat : v + n >= u => v >= u + (-n)
        OBVIOUS
    <2> QED
        BY <1>1, <1>2, <2>1, <2>2, InFlightType
<1>5. CASE chain' >= chain + (-fee)
    <2>1. Wallet' >= Wallet + (-fee)
        BY <1>3, <1>5, WalletKeeps
    <2>2. /\ -fee \in Int /\ -noticed \in Int /\ -(x.amt) \in Int
          /\ 0 + (-(x.amt)) <= (-noticed) + fee + (-fee) + Mishap
        BY <1>0, <1>1
    <2> QED
        BY <1>0, <1>3, <1>4, <2>1, <2>2, GapTerms
<1>6. CASE /\ chain' >= chain + (-(x.amt + fee))
           /\ got' = got + noticed \/ LateLanding
    <2>1. Wallet' >= Wallet + (-(x.amt + fee))
        BY <1>1, <1>3, <1>6, WalletKeeps
    <2>2. PICK n \in Int : Undebited' >= Undebited + n /\ n + Mishap >= 0
        <3>1. CASE got' = got + noticed
            <4>1. Undebited' >= Undebited + 0 /\ 0 + Mishap >= 0
                BY <1>0, <1>2, <3>1
            <4> QED
                BY <4>1
        <3>2. CASE LateLanding
            <4>1. Mishap >= noticed
                <5>1. CASE pc = "shares"
                    <6>1. Mishap >= Lamports(PolledShares) - Lamports(PolledShares)'
                        BY <3>2, <5>1, MishapType
                    <6> QED
                        BY <1>0, <1>1, <6>1
                <5>2. CASE pc # "shares"
                    BY <1>0, <1>2, <5>2
                <5> QED
                    BY <5>1, <5>2
            <4>2. -noticed \in Int /\ (-noticed) + Mishap >= 0
                BY <1>0, <1>1, <4>1
            <4> QED
                BY <1>4, <4>2
        <3> QED
            BY <1>6, <3>1, <3>2
    <2>3. /\ -(x.amt) \in Int /\ -(x.amt + fee) \in Int
          /\ 0 + (-(x.amt)) <= n + fee + (-(x.amt + fee)) + Mishap
        BY <1>0, <1>1, <2>2
    <2> QED
        BY <1>0, <1>3, <1>4, <2>1, <2>2, <2>3, GapTerms
<1> QED
    BY <1>5, <1>6 DEF noticed

LEMMA WorldGap ==
    ASSUME TypeOK, CoverInv, World, AmountsOK, AmountsOK'
    PROVE  Gap' <= Gap + Mishap
<1> USE DEF outside, files, locals
<1>1. CASE (\E g \in Gates : Elapse(g)) \/ (\E v \in Vaults : Accrue(v)) \/ Deposit
    <2>1. /\ UNCHANGED <<flight, sum, pc, leg, amount, got>>
          /\ chain' >= chain + (-0)
        <3>1. CASE (\E g \in Gates : Elapse(g)) \/ (\E v \in Vaults : Accrue(v))
            BY <3>1 DEF Elapse, Accrue, TypeOK
        <3>2. CASE Deposit
            <4>1. PICK d \in Deposits : chain' = chain + d
                BY <3>2 DEF Deposit
            <4>2. d \in Nat
                BY TreasuryAssumption
            <4> QED
                BY <3>2, <4>1, <4>2 DEF Deposit, TypeOK
        <3> QED
            BY <1>1, <3>1, <3>2
    <2>2. Outgoing' = Outgoing /\ Undebited' = Undebited
        BY <2>1, SameFlight DEF Undebited
    <2>3. Wallet' >= Wallet + (-0)
        BY <2>1, WorldKeeps, WalletKeeps
    <2>4. Wallet' >= Wallet
        BY <2>3 DEF AmountsOK
    <2>5. /\ Pools' = Pools /\ Unbooked' = Unbooked
          /\ sum'["burned"] = sum["burned"]
        BY <2>1, WorldBooks
    <2>6. Pools' + Outgoing' + Unbooked' + Wallet
              <= Pools + Outgoing + Unbooked + Wallet'
        <3>1. \A p, q, o, r, u, v, w, x \in Nat :
                  q = p /\ r = o /\ v = u /\ w <= x => q + r + v + w <= p + o + u + x
            OBVIOUS
        <3>2. /\ Pools \in Nat /\ Outgoing \in Nat /\ Unbooked \in Nat
              /\ Wallet \in Nat /\ Wallet' \in Nat
            BY DEF AmountsOK
        <3> QED
            BY <2>2, <2>4, <2>5, <3>1, <3>2
    <2> QED
        BY <2>2, <2>5, <2>6, GapKeeps DEF AmountsOK
<1>2. CASE PaymentLands
    <2>1. PICK x \in flight : LandPayment(x) /\ Settled(x)
        BY <1>2 DEF PaymentLands
    <2> DEFINE aired == IF x.kind = "share" THEN x.amt ELSE 0
    <2>2. x.amt \in Nat /\ Fee \in Nat /\ aired \in Nat
        BY Parameters DEF TypeOK, Tx
    <2>3. /\ flight' = flight \ {x}
          /\ chain' = chain - x.amt - Fee
          /\ sum' = [sum EXCEPT !["burned"] = @ + Fee, !["aired"] = @ + aired]
        BY <2>1 DEF LandPayment, Settled
    <2>4. /\ \/ UNCHANGED got
             \/ x.kind = "share" /\ x.polled /\ got' = got + x.amt
          /\ \/ got' = got + (IF x.kind = "share" /\ x.polled THEN x.amt ELSE 0)
             \/ LateLanding
        <3>1. got + 0 = got
            BY DEF TypeOK
        <3> QED
            BY <2>1, <3>1 DEF LandPayment, Noticed
    <2>5. sum'["burned"] = sum["burned"] + Fee
        <3> HIDE DEF aired
        <3> QED
            BY <2>2, <2>3 DEF TypeOK, Totals
    <2>6. chain' >= chain + (-(x.amt + Fee))
        BY <2>2, <2>3 DEF AmountsOK
    <2> QED
        BY <2>2, <2>3, <2>4, <2>5, <2>6, EndingGap
<1>3. CASE \E v \in Vaults : ClaimLands(v)
    <2>1. PICK v \in Vaults, x \in flight : x.kind = v /\ LandClaim(x) /\ Settled(x)
        BY <1>3 DEF ClaimLands
    <2>2. vault[x.kind] \in Nat /\ Fee \in Nat
        BY <2>1, Parameters DEF TypeOK
    <2>3. /\ flight' = flight \ {x} /\ UNCHANGED got
          /\ chain' = chain + vault[x.kind] - Fee
          /\ sum' = Add(Add(sum, "collected", vault[x.kind]), "burned", Fee)
        BY <2>1 DEF LandClaim, Settled
    <2>4. sum'["burned"] = sum["burned"] + Fee
        BY <2>3 DEF Add, TypeOK, Totals
    <2>5. chain' >= chain + (-Fee)
        BY <2>2, <2>3 DEF AmountsOK
    <2> QED
        BY <2>2, <2>3, <2>4, <2>5, EndingGap
<1>4. CASE Drop
    <2>1. PICK x \in flight :
              /\ flight' = flight \ {x}
              /\ \/ got' = Expired(x) /\ UNCHANGED <<chain, sum>>
                 \/ /\ chain' = chain - Fee /\ sum' = Add(sum, "burned", Fee)
                    /\ UNCHANGED got
        BY <1>4 DEF Drop
    <2>2. UNCHANGED got \/ (pc \in {"claim", "measure"} /\ got' \in Nat)
        BY <2>1 DEF Expired, TypeOK
    <2>3. PICK fee \in Nat : /\ chain' >= chain + (-fee)
                            /\ sum'["burned"] = sum["burned"] + fee
        <3>1. CASE UNCHANGED <<chain, sum>>
            <4>1. chain' >= chain + (-0) /\ sum'["burned"] = sum["burned"] + 0
                BY <3>1 DEF TypeOK, Totals
            <4> QED
                BY <4>1
        <3>2. CASE chain' = chain - Fee /\ sum' = Add(sum, "burned", Fee)
            <4>1. Fee \in Nat /\ chain \in Nat
                BY Parameters DEF TypeOK
            <4>2. sum'["burned"] = sum["burned"] + Fee
                BY <3>2 DEF Add, TypeOK, Totals
            <4>3. chain' >= chain + (-Fee)
                BY <3>2, <4>1
            <4> QED
                BY <4>1, <4>2, <4>3
        <3> QED
            BY <2>1, <3>1, <3>2
    <2> QED
        BY <2>1, <2>2, <2>3, EndingGap
<1> QED
    BY <1>1, <1>2, <1>3, <1>4 DEF World, Land

LEMMA SameGap ==
    ASSUME AmountsOK, AmountsOK', UNCHANGED vars
    PROVE  Gap' <= Gap + Mishap
<1>1. UNCHANGED <<chain, flight, book, pc, before, claimed, leg, amount, got, sum>>
    BY DEF vars, locals
<1>2. Outgoing' = Outgoing /\ Lamports(PolledShares)' = Lamports(PolledShares)
    BY <1>1, SameFlight
<1>3. Gap' = Gap
    BY <1>1, <1>2 DEF Gap, Wallet, Pools, Unbooked, ToBook, Undebited
<1>4. Gap \in Int
    BY DEF AmountsOK, Gap
<1>5. Mishap \in Nat
    BY MishapType
<1> QED
    BY <1>3, <1>4, <1>5

LEMMA GapStep ==
    ASSUME IInv, CoverInv, [Next]_vars
    PROVE  Gap' <= Gap + Mishap
<1>1. TypeOK /\ SpentInv /\ OperatorInv
    BY DEF IInv
<1>2. TypeOK' /\ OperatorInv'
    BY NextInv DEF IInv
<1>3. AmountsOK /\ AmountsOK'
    BY <1>1, <1>2, AmountsType, AmountsNext
<1>4. CASE Next
    BY <1>1, <1>3, <1>4, ClaimGap, SplitGap, SwapGap, PayoutGap, WorldGap
    DEF Next, Bot
<1>5. CASE UNCHANGED vars
    BY <1>3, <1>5, SameGap
<1> QED
    BY <1>4, <1>5

\* With every fault allowed: what the wallet promises and does not hold grows only
\* by the payments a dying tick had not debited, by the payment whose reply is
\* lost and by the shares that land after the last poll, each once.
THEOREM MishapsCostOnce == Spec => OnlyMishapsCost
<1>1. BooksIInv /\ [Next]_vars => Gap' <= Gap + Mishap
    BY GapStep DEF BooksIInv
<1>2. BooksIInv /\ [Next]_vars => [Gap' <= Gap + Mishap]_vars
    BY <1>1
<1> QED
    BY <1>2, BooksAlways, PTL DEF Spec, OnlyMishapsCost

-----------------------------------------------------------------------------
(* Without crashes, lost replies and late landing: the wallet covers what the *)
(* counters promise, and the airdrop pays from its pool                       *)

\* Nothing mishaps, so that the gap never opens.
LEMMA NoMishap ==
    ASSUME Reliable, TypeOK, SpentInv, Next
    PROVE  Mishap = 0
<1>1. pc' = "idle" => Undebited = 0
    <2>1. CASE Bot
        <3>1. CASE Count
            <4>1. pc' = AfterSpend[leg] /\ leg \in Legs \ {"ad"}
                BY <3>1 DEF Count, SpentInv, TypeOK
            <4> QED
                BY <4>1 DEF AfterSpend, Legs
        <3>2. CASE ~Count
            <4>1. pc' = "idle" => pc \in {"idle", "airdrop", "tokens"}
                BY <2>1, <3>2
                DEF Bot, StartTick, ReadBefore, ReadBeforeFails, SendClaim, SkipClaim,
                    ClaimsSubmitted, PollClaims, Measure, PayOperator, Book,
                    StartBuyback, TryRoute, NoRouteLeft, StartBasket, BuyStock,
                    BasketBought, Debit, MarkClaim, SkipDraw, DrawWinner, SendPrize,
                    MarkCasino, StartAirdrop, SendShare, EndShares, SkipAirdrop,
                    TokenLegs, StartBooking, claiming, polling
            <4> QED
                BY <4>1 DEF Undebited
        <3> QED
            BY <3>1, <3>2
    <2>2. CASE World
        BY <2>2, WorldKeeps DEF Undebited
    <2>3. ~Crash
        BY DEF Crash, Reliable
    <2> QED
        BY <2>1, <2>2, <2>3 DEF Next
<1> QED
    BY <1>1 DEF Mishap, Reliable

\* The shares in flight change only when one is sent or ends.
LEMMA OtherSends ==
    ASSUME TypeOK,
           \/ UNCHANGED flight
           \/ \E kind \in Kinds \ {"share"}, amt \in Nat, polled \in BOOLEAN :
                 HasRoom /\ flight' = Sending(kind, amt, polled)
    PROVE  Lamports(Shares)' = Lamports(Shares)
<1>1. CASE UNCHANGED flight
    BY <1>1, SameFlight
<1>2. ASSUME NEW kind \in Kinds \ {"share"}, NEW amt \in Nat, NEW polled \in BOOLEAN,
             HasRoom, flight' = Sending(kind, amt, polled)
      PROVE  Lamports(Shares)' = Lamports(Shares)
    <2>1. Lamports(Shares)' = Lamports(Shares) + 0
        BY <1>2, SendingAdds
    <2> QED
        BY <2>1, InFlightType
<1> QED
    BY <1>1, <1>2

\* A step that has nothing to do with the airdrop.
LEMMA PlainAirdrop ==
    ASSUME TypeOK, AmountsOK, AmountsOK', AirdropInv,
           Lamports(Shares)' = Lamports(Shares), book'["sol"] = book["sol"],
           sum'["aired"] = sum["aired"], sum'["fed"] = sum["fed"],
           pc \notin {"shares", "debit"}
    PROVE  AirdropInv'
<1>1. SolUndebited = 0
    BY UndebitedType
<1>2. SolUndebited' \in Nat
    BY DEF AmountsOK
<1> QED
    BY <1>1, <1>2 DEF AmountsOK, AirdropInv

LEMMA ClaimAirdrop ==
    ASSUME Reliable, TypeOK, OperatorInv, AmountsOK, AmountsOK', AirdropInv,
           \/ StartTick \/ ReadBefore \/ ReadBeforeFails
           \/ (\E v \in Vaults : SendClaim(v)) \/ SkipClaim \/ ClaimsSubmitted
           \/ PollClaims \/ Measure \/ PayOperator \/ Book \/ MarkClaim
    PROVE  AirdropInv'
<1> USE DEF outside, files, locals
<1>1. CASE \/ StartTick \/ ReadBefore \/ ReadBeforeFails \/ SkipClaim
           \/ ClaimsSubmitted \/ PollClaims \/ MarkClaim
    <2>1. /\ UNCHANGED <<flight, book, sum>> /\ pc \notin {"shares", "debit"}
        BY <1>1 DEF StartTick, ReadBefore, ReadBeforeFails, SkipClaim, ClaimsSubmitted,
                    PollClaims, MarkClaim, claiming, polling
    <2> QED
        BY <2>1, OtherSends, PlainAirdrop
<1>2. CASE \E v \in Vaults : SendClaim(v)
    <2>1. PICK v \in Vaults, heard \in Heard :
              HasRoom /\ flight' = Sending(v, 0, heard)
        BY <1>2 DEF SendClaim
    <2>2. v \in Kinds \ {"share"} /\ heard \in BOOLEAN
        BY Parameters, TreasuryAssumption DEF Heard
    <2>3. /\ UNCHANGED <<book, sum>> /\ pc \notin {"shares", "debit"}
        BY <1>2 DEF SendClaim, claiming
    <2> QED
        BY <2>1, <2>2, <2>3, OtherSends, PlainAirdrop
<1>3. CASE Measure
    <2>1. /\ UNCHANGED book /\ pc = "measure"
          /\ sum' \in {sum, Add(sum, "measured", NonNeg(chain - before))}
          /\ flight' = Unpolled(Vaults) /\ ~Awaiting(Vaults)
        BY <1>3 DEF Measure, PollsOver, Reliable
    <2>2. UNCHANGED flight
        BY <2>1, UnpolledShares
    <2>3. sum'["fed"] = sum["fed"] /\ sum'["aired"] = sum["aired"]
        BY <2>1 DEF Add, TypeOK, Totals
    <2> QED
        BY <2>1, <2>2, <2>3, OtherSends, PlainAirdrop
<1>4. CASE PayOperator
    <2> DEFINE cut == OperatorCut(claimed)
    <2>1. /\ pc = "operator" /\ UNCHANGED book
          /\ UNCHANGED flight \/ (HasRoom /\ flight' = Sending("operator", cut, FALSE))
          /\ sum' \in {sum, Add(sum, "cut", cut)}
        BY <1>4 DEF PayOperator, SendCut, StartBooking
    <2>2. cut \in Nat
        BY <2>1, SplitIsExact DEF TypeOK, OperatorInv
    <2> HIDE DEF cut
    <2>3. sum'["fed"] = sum["fed"] /\ sum'["aired"] = sum["aired"]
        BY <2>1 DEF Add, TypeOK, Totals
    <2> QED
        BY <2>1, <2>2, <2>3, Entries, OtherSends, PlainAirdrop
<1>5. CASE Book
    <2> DEFINE share == NonNeg(Share(leg, claimed))
    <2>1. share \in Nat
        BY <1>5, BookedRest
    <2>2. /\ pc = "book" /\ pc' \in {"book", "markClaim", "swap"}
          /\ book' = Add(book, leg, share)
          /\ sum' = IF leg = "sol" THEN Add(sum, "fed", share) ELSE sum
          /\ UNCHANGED flight
        BY <1>5 DEF Book
    <2> HIDE DEF share
    <2>3. /\ sum'["aired"] = sum["aired"]
          /\ sum'["fed"] = sum["fed"] + (IF leg = "sol" THEN share ELSE 0)
          /\ book'["sol"] = book["sol"] + (IF leg = "sol" THEN share ELSE 0)
        BY <2>1, <2>2 DEF Add, TypeOK, Totals, Legs
    <2>4. /\ Lamports(Shares)' = Lamports(Shares)
          /\ SolUndebited = 0 /\ SolUndebited' = 0
        BY <2>2, SameFlight, UndebitedType DEF SolUndebited
    <2> QED
        BY <2>1, <2>3, <2>4 DEF AmountsOK, AirdropInv
<1> QED
    BY <1>1, <1>2, <1>3, <1>4, <1>5

LEMMA SwapAirdrop ==
    ASSUME Reliable, TypeOK, SpentInv, CoverInv, AmountsOK, AmountsOK', AirdropInv,
           \/ StartBuyback \/ TryRoute \/ NoRouteLeft
           \/ StartBasket \/ BuyStock \/ BasketBought \/ Debit \/ Count
    PROVE  AirdropInv'
<1> USE DEF outside, files, locals
<1>1. CASE \/ StartBuyback \/ TryRoute \/ NoRouteLeft
           \/ StartBasket \/ BuyStock \/ BasketBought
    <2>1. /\ UNCHANGED <<book, sum>> /\ pc \notin {"shares", "debit"}
          /\ \/ UNCHANGED flight
             \/ \E kind \in {"buyback", "basket"} :
                   HasRoom /\ flight' = Sending(kind, amount, FALSE)
        BY <1>1 DEF StartBuyback, TryRoute, NoRouteLeft, StartBasket, BuyStock,
                    BasketBought
    <2>2. {"buyback", "basket"} \subseteq Kinds \ {"share"} /\ amount \in Nat
        BY Entries DEF TypeOK
    <2> QED
        BY <2>1, <2>2, OtherSends, PlainAirdrop
<1>2. CASE Debit
    <2>1. /\ pc = "debit" /\ pc' = "count" /\ UNCHANGED <<flight, sum>>
          /\ book' = [book EXCEPT ![leg] = NonNeg(book[leg] - amount)]
        BY <1>2 DEF Debit
    <2>2. leg \in Legs /\ book[leg] \in Nat /\ amount \in Nat /\ book[leg] >= amount
        BY <2>1 DEF TypeOK, CoverInv, DebitCovered, Legs
    <2>3. NonNeg(book[leg] - amount) = book[leg] - amount /\ book[leg] - amount \in Nat
        BY <2>2 DEF NonNeg
    <2>4. book'["sol"] = IF leg = "sol" THEN book["sol"] - amount ELSE book["sol"]
        BY <2>1, <2>2, <2>3, PoolsWritten
    <2>5. /\ SolUndebited = IF leg = "sol" THEN amount ELSE 0
          /\ SolUndebited' = 0
        BY <2>1 DEF Undebited, SolUndebited
    <2>6. Lamports(Shares)' = Lamports(Shares)
        BY <2>1, SameFlight
    <2> QED
        BY <2>1, <2>2, <2>4, <2>5, <2>6 DEF AmountsOK, AirdropInv
<1>3. CASE Count
    <2>1. /\ pc = "count" /\ UNCHANGED <<flight, sum>> /\ book'["sol"] = book["sol"]
        BY <1>3 DEF Count, Add, TypeOK, Legs
    <2> QED
        BY <2>1, OtherSends, PlainAirdrop
<1> QED
    BY <1>1, <1>2, <1>3

LEMMA PayoutAirdrop ==
    ASSUME Reliable, TypeOK, AmountsOK, AmountsOK', AirdropInv,
           \/ SkipDraw \/ DrawWinner \/ SendPrize \/ MarkCasino
           \/ SkipAirdrop \/ StartAirdrop \/ SendShare \/ EndShares \/ TokenLegs
    PROVE  AirdropInv'
<1> USE DEF outside, files, locals
<1>1. CASE \/ SkipDraw \/ DrawWinner \/ SendPrize \/ MarkCasino
           \/ SkipAirdrop \/ StartAirdrop
    <2>1. /\ UNCHANGED <<book, sum>> /\ pc \notin {"shares", "debit"}
          /\ \/ UNCHANGED flight
             \/ HasRoom /\ flight' = Sending("prize", amount, FALSE)
        BY <1>1 DEF SkipDraw, DrawWinner, SendPrize, MarkCasino, SkipAirdrop,
                    StartAirdrop, GoIdle
    <2>2. "prize" \in Kinds \ {"share"} /\ amount \in Nat
        BY Entries DEF TypeOK
    <2> QED
        BY <2>1, <2>2, OtherSends, PlainAirdrop
<1>2. CASE SendShare
    <2>1. PICK a \in MinSolPayout .. left :
              \/ /\ HasRoom
                 /\ \E heard \in Heard : flight' = Sending("share", a, heard)
              \/ UNCHANGED flight
        BY <1>2 DEF SendShare
    <2>2. /\ pc = "shares" /\ pc' = "shares"
          /\ UNCHANGED <<sum, book, got>> /\ got \in Nat
        BY <1>2 DEF SendShare, TypeOK
    <2>3. /\ SolUndebited = got + Lamports(PolledShares)
          /\ SolUndebited' = got + Lamports(PolledShares)'
        BY <2>2 DEF Undebited, SolUndebited
    <2>4. CASE UNCHANGED flight
        BY <2>2, <2>3, <2>4, SameFlight DEF AmountsOK, AirdropInv
    <2>5. CASE HasRoom /\ \E heard \in Heard : flight' = Sending("share", a, heard)
        <3>1. flight' = Sending("share", a, TRUE)
            BY <2>5 DEF Heard, Reliable
        <3>2. a \in Nat /\ "share" \in Kinds
            BY Entries, Parameters DEF TypeOK
        <3>3. /\ Lamports(Shares)' = Lamports(Shares) + a
              /\ Lamports(PolledShares)' = Lamports(PolledShares) + a
            BY <2>5, <3>1, <3>2, SendingAdds
        <3> QED
            BY <2>2, <2>3, <3>2, <3>3 DEF AmountsOK, AirdropInv
    <2> QED
        BY <2>1, <2>4, <2>5
<1>3. CASE EndShares
    <2>1. /\ pc = "shares" /\ UNCHANGED <<sum, book>>
          /\ ~Awaiting({"share"}) /\ flight' = Unpolled({"share"})
          /\ \/ got > 0 /\ pc' = "debit" /\ leg' = "sol" /\ amount' = got
             \/ ~(got > 0) /\ pc' = "tokens"
        BY <1>3 DEF EndShares, Reliable
    <2>2. UNCHANGED flight /\ PolledShares = {}
        BY <2>1, UnpolledShares DEF Awaiting, PolledShares, Shares
    <2>3. got \in Nat /\ SolUndebited = got
        <3>1. got \in Nat /\ Lamports(PolledShares) = 0
            BY <2>2, LamportsNone DEF TypeOK
        <3> QED
            BY <2>1, <3>1 DEF Undebited, SolUndebited
    <2>4. SolUndebited' = got
        <3>1. CASE got > 0
            BY <2>1, <3>1 DEF Undebited, SolUndebited
        <3>2. CASE ~(got > 0)
            BY <2>1, <2>3, <3>2 DEF Undebited, SolUndebited
        <3> QED
            BY <3>1, <3>2
    <2> QED
        BY <2>1, <2>2, <2>3, <2>4, SameFlight DEF AmountsOK, AirdropInv
<1>4. CASE TokenLegs
    <2>1. PICK fees \in {0, Fee} : sum' = Add(sum, "burned", fees)
        BY <1>4 DEF TokenLegs
    <2>2. pc = "tokens" /\ UNCHANGED <<book, flight>>
        BY <1>4 DEF TokenLegs
    <2>3. sum'["aired"] = sum["aired"] /\ sum'["fed"] = sum["fed"]
        BY <2>1 DEF Add, TypeOK, Totals
    <2> QED
        BY <2>2, <2>3, OtherSends, PlainAirdrop
<1> QED
    BY <1>1, <1>2, <1>3, <1>4

LEMMA WorldAirdrop ==
    ASSUME Reliable, TypeOK, CoverInv, AmountsOK, AmountsOK', AirdropInv, World
    PROVE  AirdropInv'
<1> USE DEF outside, files, locals
<1>1. book'["sol"] = book["sol"] /\ sum'["fed"] = sum["fed"]
    BY WorldKeeps, WorldLedger
<1>2. CASE (\E g \in Gates : Elapse(g)) \/ (\E v \in Vaults : Accrue(v)) \/ Deposit
    <2>1. UNCHANGED <<flight, sum, pc, leg, amount, got>>
        BY <1>2 DEF Elapse, Accrue, Deposit
    <2>2. Lamports(Shares)' = Lamports(Shares) /\ SolUndebited' = SolUndebited
        BY <2>1, SameFlight DEF Undebited, SolUndebited
    <2> QED
        BY <1>1, <2>1, <2>2 DEF AmountsOK, AirdropInv
<1>3. ASSUME NEW x \in flight, flight' = flight \ {x},
             \/ UNCHANGED got
             \/ x.kind = "share" /\ x.polled /\ got' = got + x.amt
             \/ pc \in {"claim", "measure"} /\ got' \in Nat,
             \* it lands, noticed if it is polled, or it is gone
             \/ /\ sum'["aired"] = sum["aired"]
                                      + (IF x.kind = "share" THEN x.amt ELSE 0)
                /\ got' = got + (IF x.kind = "share" /\ x.polled THEN x.amt ELSE 0)
             \/ sum'["aired"] = sum["aired"]
      PROVE  AirdropInv'
    <2> DEFINE noticed == IF x.kind = "share" /\ x.polled THEN x.amt ELSE 0
               aired == IF x.kind = "share" THEN x.amt ELSE 0
    <2>1. /\ noticed \in Nat /\ aired \in Nat /\ noticed <= aired
          /\ Lamports(Shares) = Lamports(Shares)' + aired
          /\ Lamports(Shares)' \in Nat
        BY <1>3, EndingRemoves
    <2>2. /\ SolUndebited' \in Nat
          /\ SolUndebited' + noticed >= SolUndebited
          /\ got' = got + noticed => SolUndebited' >= SolUndebited
        BY <1>3, EndingUndebited
    <2>3. \/ /\ sum'["aired"] = sum["aired"] + aired
             /\ SolUndebited' >= SolUndebited
          \/ sum'["aired"] = sum["aired"]
        BY <1>3, <2>2
    <2>4. sum'["aired"] \in Nat
        BY DEF AmountsOK
    <2> HIDE DEF noticed, aired
    <2>5. sum'["aired"] + Lamports(Shares)' + SolUndebited
              <= sum["aired"] + Lamports(Shares) + SolUndebited'
        <3>1. \A a, b, l, m, u, v, p, n \in Nat :
                  /\ l = m + p /\ n <= p /\ v + n >= u
                  /\ (b = a + p /\ v >= u) \/ b = a
                  => b + m + u <= a + l + v
            OBVIOUS
        <3>2. /\ sum["aired"] \in Nat /\ Lamports(Shares) \in Nat
              /\ SolUndebited \in Nat
            BY DEF AmountsOK
        <3> QED
            BY <2>1, <2>2, <2>3, <2>4, <3>1, <3>2
    <2> QED
        BY <1>1, <2>1, <2>2, <2>4, <2>5 DEF AmountsOK, AirdropInv
<1>4. CASE PaymentLands
    <2>1. PICK x \in flight : LandPayment(x) /\ Settled(x)
        BY <1>4 DEF PaymentLands
    <2> DEFINE aired == IF x.kind = "share" THEN x.amt ELSE 0
    <2>2. x.amt \in Nat /\ Fee \in Nat /\ aired \in Nat
        BY Parameters DEF TypeOK, Tx
    <2>3. /\ flight' = flight \ {x}
          /\ sum' = [sum EXCEPT !["burned"] = @ + Fee, !["aired"] = @ + aired]
          /\ got' = IF x.kind = "share" /\ x.polled THEN got + x.amt ELSE got
        BY <2>1 DEF LandPayment, Settled, Noticed, Reliable
    <2>4. sum'["aired"] = sum["aired"] + aired
        <3> HIDE DEF aired
        <3> QED
            BY <2>2, <2>3 DEF TypeOK, Totals
    <2>5. got' = got + (IF x.kind = "share" /\ x.polled THEN x.amt ELSE 0)
        BY <2>2, <2>3 DEF TypeOK
    <2>6. UNCHANGED got \/ (x.kind = "share" /\ x.polled /\ got' = got + x.amt)
        BY <2>3
    <2> QED
        BY <1>3, <2>3, <2>4, <2>5, <2>6
<1>5. CASE \E v \in Vaults : ClaimLands(v)
    <2>1. PICK v \in Vaults, x \in flight : x.kind = v /\ LandClaim(x) /\ Settled(x)
        BY <1>5 DEF ClaimLands
    <2>2. /\ flight' = flight \ {x} /\ UNCHANGED got
          /\ sum' = Add(Add(sum, "collected", vault[x.kind]), "burned", Fee)
        BY <2>1 DEF LandClaim, Settled
    <2>3. sum'["aired"] = sum["aired"]
        BY <2>2 DEF Add, TypeOK, Totals
    <2> QED
        BY <1>3, <2>2, <2>3
<1>6. CASE Drop
    <2>1. PICK x \in flight :
              /\ flight' = flight \ {x}
              /\ \/ got' = Expired(x) /\ UNCHANGED <<chain, sum>>
                 \/ sum' = Add(sum, "burned", Fee) /\ UNCHANGED got
        BY <1>6 DEF Drop
    <2>2. UNCHANGED got \/ (pc \in {"claim", "measure"} /\ got' \in Nat)
        BY <2>1 DEF Expired, TypeOK
    <2>3. sum'["aired"] = sum["aired"]
        BY <2>1 DEF Add, TypeOK, Totals
    <2> QED
        BY <1>3, <2>1, <2>2, <2>3
<1> QED
    BY <1>2, <1>4, <1>5, <1>6 DEF World, Land

LEMMA ReliableStep ==
    ASSUME Reliable, IInv, CoverInv, BackedInv, AirdropInv, [Next]_vars
    PROVE  BackedInv' /\ AirdropInv'
<1>1. TypeOK /\ SpentInv /\ OperatorInv
    BY DEF IInv
<1>2. TypeOK' /\ OperatorInv'
    BY NextInv DEF IInv
<1>3. AmountsOK /\ AmountsOK'
    BY <1>1, <1>2, AmountsType, AmountsNext
<1>4. CASE Next
    <2>1. Mishap = 0
        BY <1>1, <1>4, NoMishap
    <2>2. Gap' <= Gap + 0
        BY <1>4, <2>1, GapStep
    <2>3. Gap \in Int /\ Gap' \in Int
        <3>1. Gap' = InitialGas + Pools' + Outgoing' + Unbooked' - Undebited'
                        - sum'["burned"] - Wallet'
            BY DEF Gap
        <3>2. /\ InitialGas \in Int /\ Pools' \in Int /\ Outgoing' \in Int
              /\ Unbooked' \in Int /\ Undebited' \in Int /\ sum'["burned"] \in Int
              /\ Wallet' \in Int
            BY <1>3 DEF AmountsOK
        <3>3. \A a, b, c, d, e, f, g \in Int : a + b + c + d - e - f - g \in Int
            OBVIOUS
        <3>4. Gap' \in Int
            BY <3>1, <3>2, <3>3
        <3> QED
            BY <1>3, <3>4 DEF AmountsOK, Gap
    <2>4. BackedInv'
        BY <2>2, <2>3 DEF BackedInv
    <2>5. ~Crash
        BY DEF Crash, Reliable
    <2>6. AirdropInv'
        BY <1>1, <1>3, <1>4, <2>5, ClaimAirdrop, SwapAirdrop, PayoutAirdrop, WorldAirdrop
        DEF Next, Bot
    <2> QED
        BY <2>4, <2>6
<1>5. CASE UNCHANGED vars
    <2>1. UNCHANGED <<chain, flight, book, pc, before, claimed, leg, amount, got, sum>>
        BY <1>5 DEF vars, locals
    <2>2. /\ Outgoing' = Outgoing /\ Lamports(Shares)' = Lamports(Shares)
          /\ Lamports(PolledShares)' = Lamports(PolledShares)
        BY <2>1, SameFlight
    <2>3. Gap' = Gap /\ SolUndebited' = SolUndebited
        BY <2>1, <2>2
        DEF Gap, Wallet, Pools, Unbooked, ToBook, Undebited, SolUndebited
    <2> QED
        BY <2>1, <2>2, <2>3 DEF BackedInv, AirdropInv
<1> QED
    BY <1>4, <1>5

LEMMA InitReliable == Init => BackedInv /\ AirdropInv
<1> SUFFICES ASSUME Init PROVE BackedInv /\ AirdropInv
    OBVIOUS
<1>1. TypeOK /\ OperatorInv
    BY InitInv DEF IInv
<1>2. Outgoing = 0 /\ Lamports(Shares) = 0
    <2>1. flight = {} /\ Shares = {}
        BY DEF Init, Shares
    <2> QED
        BY <2>1, LamportsNone DEF Outgoing
<1>3. Pools = 0 /\ book["sol"] = 0 /\ sum["aired"] = 0 /\ sum["burned"] = 0
    BY DEF Init, Pools, Legs, Totals
<1>4. Unbooked = 0 /\ Undebited = 0
    BY <1>1, ToBookType, UndebitedType DEF Init
<1>5. Wallet = InitialGas
    BY DEF Init, Wallet
<1>6. AmountsOK
    BY <1>1, AmountsType
<1>7. BackedInv
    BY <1>2, <1>3, <1>4, <1>5, <1>6 DEF AmountsOK, BackedInv, Gap
<1>8. AirdropInv
    BY <1>2, <1>3, <1>6 DEF AmountsOK, AirdropInv
<1> QED
    BY <1>7, <1>8

LEMMA ReliableAlways == Reliable => (Spec => []ReliableInv)
<1> SUFFICES ASSUME Reliable PROVE Spec => []ReliableInv
    OBVIOUS
<1>1. Init => ReliableInv
    BY InitInv, InitBooks, InitReliable DEF ReliableInv, BooksIInv
<1>2. ReliableInv /\ [Next]_vars => ReliableInv'
    <2> SUFFICES ASSUME ReliableInv, [Next]_vars PROVE ReliableInv'
        OBVIOUS
    <2>1. IInv /\ CoverInv /\ BooksInv /\ BackedInv /\ AirdropInv
        BY DEF ReliableInv, BooksIInv
    <2>2. TypeOK /\ SpentInv /\ OperatorInv
        BY <2>1 DEF IInv
    <2>3. IInv'
        BY <2>1, NextInv
    <2>4. CoverInv' /\ BooksInv'
        BY <2>1, <2>2, CoverStep, BooksStep, SameBooks
    <2>5. BackedInv' /\ AirdropInv'
        BY <2>1, ReliableStep
    <2> QED
        BY <2>3, <2>4, <2>5 DEF ReliableInv, BooksIInv
<1> QED
    BY <1>1, <1>2, PTL DEF Spec

\* Between ticks the wallet holds its gas, every pool and everything in flight,
\* as long as no crash, lost reply or late landing hides a payment from the bot.
THEOREM WalletBacksPools == Reliable => (Spec => []Backed)
<1> SUFFICES ASSUME Reliable PROVE Spec => []Backed
    OBVIOUS
<1>1. ReliableInv => Backed
    <2> SUFFICES ASSUME ReliableInv, pc = "idle"
                 PROVE  chain + sum["burned"] >= InitialGas + Pools + Outgoing
        BY DEF Backed
    <2>1. TypeOK /\ OperatorInv /\ BackedInv
        BY DEF ReliableInv, BooksIInv, IInv
    <2>2. Undebited = 0 /\ Unbooked = 0
        BY <2>1, UndebitedType, ToBookType
    <2>3. AmountsOK
        BY <2>1, AmountsType
    <2> QED
        BY <2>1, <2>2, <2>3 DEF AmountsOK, BackedInv, Gap
<1> QED
    BY <1>1, ReliableAlways, PTL

\* Under the same conditions the holders never receive more from the SOL airdrop
\* than was ever booked to its pool.
THEOREM AirdropsFromPool == Reliable => (Spec => []AirdropOnlyPaysPool)
<1> SUFFICES ASSUME Reliable PROVE Spec => []AirdropOnlyPaysPool
    OBVIOUS
<1>1. ReliableInv => AirdropOnlyPaysPool
    <2> SUFFICES ASSUME ReliableInv PROVE AirdropOnlyPaysPool
        OBVIOUS
    <2>1. TypeOK /\ SpentInv /\ OperatorInv /\ CoverInv /\ AirdropInv
        BY DEF ReliableInv, BooksIInv, IInv
    <2>3. AmountsOK
        BY <2>1, AmountsType
    <2>2. SolUndebited <= book["sol"]
        <3>1. CASE pc = "shares"
            <4>1. /\ SolUndebited = got + Lamports(PolledShares)
                  /\ got + left + Lamports(PolledShares) <= book["sol"]
                BY <2>1, <3>1 DEF SolUndebited, Undebited, CoverInv
            <4>2. got \in Nat /\ left \in Nat /\ Lamports(PolledShares) \in Nat
                BY <2>1, InFlightType DEF TypeOK
            <4> QED
                BY <2>3, <4>1, <4>2 DEF AmountsOK
        <3>2. CASE pc = "debit" /\ leg = "sol"
            BY <2>1, <3>2 DEF SolUndebited, Undebited, CoverInv, DebitCovered
        <3>3. CASE ~(pc = "shares" \/ (pc = "debit" /\ leg = "sol"))
            BY <2>3, <3>3 DEF AmountsOK, SolUndebited
        <3> QED
            BY <3>1, <3>2, <3>3
    <2> QED
        BY <2>1, <2>2, <2>3 DEF AmountsOK, AirdropInv, AirdropOnlyPaysPool
<1> QED
    BY <1>1, ReliableAlways, PTL
=============================================================================

--------------------------- MODULE PayoutsProofs ---------------------------
(***************************************************************************)
(* Payouts for every set of recipients, chunk size, number of workers,     *)
(* tries, rounds and windows: who is paid and how often, that its reports  *)
(* are true, that the shares of a window fit the pool they are cut from,   *)
(* that every window ends, and that it all amounts to AirdropBooks.        *)
(***************************************************************************)
EXTENDS Payouts, SumLemmas

USE DEF chain, plan, sending, polling

\* Steps that change neither who is where nor what the chain has seen.
LEMMA KeptSeen ==
    ASSUME SeenInv,
           UNCHANGED <<flight, fate, window, owed, todo, hash, busy>>,
           group' \subseteq group
    PROVE  SeenInv'
<1>1. Seen' = Seen
    BY DEF Seen
<1>2. \A w : Transfer(w)' = Transfer(w)
    BY DEF Transfer
<1> QED
    BY <1>1, <1>2 DEF SeenInv

\* Settling a transfer in flight moves it, and forgets no other one's fate.
LEMMA Settled ==
    ASSUME NEW x \in flight, NEW what, flight \cap DOMAIN fate = {},
           flight' = flight \ {x}, Settle(x, what)
    PROVE  /\ flight' \cap DOMAIN fate' = {}
           /\ flight' \cup DOMAIN fate' = flight \cup DOMAIN fate
           /\ Landed \subseteq Landed'
BY DEF Settle, Landed

-----------------------------------------------------------------------------
(* Who is where *)

LEMMA PlacesStep ==
    ASSUME PlacesInv, Next
    PROVE  PlacesInv'
<1>1. CASE StartWindow
    BY <1>1 DEF StartWindow, PlacesInv
<1>2. CASE NextChunk
    BY <1>2 DEF NextChunk, Chunks, PlacesInv
<1>3. CASE StopSending \/ ChunkDone \/ Poll \/ EndWindow
    BY <1>3 DEF StopSending, ChunkDone, Poll, EndWindow, PlacesInv
<1>4. CASE \E w \in Wallets : TakeRecipient(w)
    BY <1>4 DEF TakeRecipient, PlacesInv
<1>5. CASE \E w \in Wallets : Send(w)
    <2> PICK w \in Wallets : Send(w)
        BY <1>5
    <2>1. DOMAIN busy' \subseteq DOMAIN busy
        BY DEF Send, Acknowledged, Retried, Restrict
    <2> QED
        BY <2>1 DEF Send, PlacesInv
<1>6. CASE Crash
    BY <1>6 DEF Crash, NoOne, PlacesInv
<1>7. CASE Chain
    BY <1>7 DEF Chain, Land, Expire, Refill, PlacesInv
<1> QED
    BY <1>1, <1>2, <1>3, <1>4, <1>5, <1>6, <1>7 DEF Next, Bot

-----------------------------------------------------------------------------
(* What the chain has seen *)

LEMMA SeenStep ==
    ASSUME PlacesInv, SeenInv, Next
    PROVE  SeenInv'
<1>1. CASE StartWindow
    <2>1. Seen' = {} /\ flight' \cap DOMAIN fate' = {}
        BY <1>1 DEF StartWindow, Seen, NoOne
    <2> QED
        BY <2>1 DEF SeenInv
<1>2. CASE NextChunk
    <2>1. Seen' = Seen /\ DOMAIN busy' = {} /\ group = {}
        BY <1>2 DEF NextChunk, Seen, PlacesInv
    <2>2. todo' \cup group' = todo /\ UNCHANGED <<flight, fate, owed>>
        BY <1>2 DEF NextChunk, Chunks
    <2> QED
        BY <2>1, <2>2 DEF SeenInv
<1>3. CASE StopSending \/ ChunkDone \/ Poll \/ EndWindow
    BY <1>3, KeptSeen DEF StopSending, ChunkDone, Poll, EndWindow
<1>4. CASE \E w \in Wallets : TakeRecipient(w)
    <2> PICK w \in Wallets : TakeRecipient(w)
        BY <1>4
    <2>1. Seen' = Seen /\ \A v : Transfer(v)' = Transfer(v)
        BY DEF TakeRecipient, Seen, Transfer
    <2>2. \A x \in Seen : x.to # w
        BY DEF TakeRecipient, SeenInv
    <2>3. DOMAIN busy' = DOMAIN busy \cup {w} /\ group' = group \ {w}
        BY DEF TakeRecipient
    <2> QED
        BY <2>1, <2>2, <2>3 DEF TakeRecipient, SeenInv
<1>5. CASE \E w \in Wallets : Send(w)
    <2> PICK w \in Wallets : Send(w)
        BY <1>5
    <2>1. UNCHANGED <<fate, window, owed, todo, hash, group>>
        BY DEF Send
    <2>2. DOMAIN busy' \subseteq DOMAIN busy /\ w \in DOMAIN busy
        BY DEF Send, Acknowledged, Retried, Restrict
    <2>3. flight' = flight \/ flight' = Submitted(Transfer(w))
        BY DEF Send, Acknowledged
    <2>4. /\ w \in DOMAIN owed \ (todo \cup group)
          /\ Transfer(w).to = w /\ Transfer(w).amount = owed[w]
          /\ Transfer(w).window = window
        BY <2>2 DEF PlacesInv, Transfer
    <2>5. Seen' \subseteq Seen \cup {Transfer(w)}
        BY <2>1, <2>3, <2>4 DEF Submitted, Seen
    <2>6. \A x \in Seen : x.to = w => x = Transfer(w)
        BY <2>2 DEF SeenInv
    <2>7. \A v : Transfer(v)' = Transfer(v)
        BY <2>1 DEF Transfer
    <2>8. flight' \cap DOMAIN fate' = {}
        BY <2>1, <2>3 DEF Submitted, SeenInv
    <2> HIDE DEF Seen
    <2>9. ASSUME NEW x \in Seen'
          PROVE  /\ x.to \in DOMAIN owed' \ (todo' \cup group')
                 /\ x.amount = owed'[x.to]
                 /\ x.to \in DOMAIN busy' => x = Transfer(x.to)'
                 /\ \A y \in Seen' : x.to = y.to => x = y
        BY <2>1, <2>2, <2>4, <2>5, <2>6, <2>7 DEF SeenInv
    <2> QED
        BY <2>8, <2>9 DEF SeenInv
<1>6. CASE Crash
    <2>1. /\ DOMAIN busy' = {} /\ group' = {} /\ Seen' = Seen
          /\ UNCHANGED <<flight, fate, owed, todo>>
        BY <1>6 DEF Crash, NoOne, Seen
    <2> QED
        BY <2>1 DEF SeenInv
<1>7. CASE Refill
    BY <1>7, KeptSeen DEF Refill
<1>8. CASE \E x \in flight : Land(x) \/ Expire(x)
    <2> PICK x \in flight : Land(x) \/ Expire(x)
        BY <1>8
    <2>1. PICK what : flight' = flight \ {x} /\ Settle(x, what)
        BY DEF Land, Expire
    <2>2. UNCHANGED <<window, owed, todo, hash, group, busy>>
        BY DEF Land, Expire
    <2>3. Seen' = Seen /\ flight' \cap DOMAIN fate' = {}
        BY <2>1, <2>2, Settled DEF SeenInv, Seen
    <2>4. \A w : Transfer(w)' = Transfer(w)
        BY <2>2 DEF Transfer
    <2> QED
        BY <2>2, <2>3, <2>4 DEF SeenInv
<1> QED
    BY <1>1, <1>2, <1>3, <1>4, <1>5, <1>6, <1>7, <1>8 DEF Next, Bot, Chain

-----------------------------------------------------------------------------
(* What has been asked about and confirmed *)

LEMMA ConfirmedStep ==
    ASSUME SeenInv, confirmed \subseteq Landed, Next
    PROVE  confirmed' \subseteq Landed'
<1>1. CASE StartWindow
    BY <1>1 DEF StartWindow
<1>2. CASE Poll
    <2>1. PICK unread \in SUBSET pending :
              confirmed' = confirmed \cup {x \in pending \ unread :
                                               Fate(fate, x, "landed")}
        BY <1>2 DEF Poll
    <2> QED
        BY <1>2, <2>1 DEF Poll, Fate, Landed
<1>3. CASE \E x \in flight : Land(x) \/ Expire(x)
    <2> PICK x \in flight : Land(x) \/ Expire(x)
        BY <1>3
    <2>1. PICK what : flight' = flight \ {x} /\ Settle(x, what)
        BY DEF Land, Expire
    <2>2. Landed \subseteq Landed'
        BY <2>1, Settled DEF SeenInv
    <2> QED
        BY <2>2 DEF Land, Expire
<1>4. CASE NextChunk \/ StopSending \/ ChunkDone \/ EndWindow \/ Crash \/ Refill
           \/ \E w \in Wallets : TakeRecipient(w) \/ Send(w)
    <2>1. UNCHANGED <<fate, confirmed>>
        BY <1>4 DEF NextChunk, StopSending, ChunkDone, EndWindow, Crash, Refill,
                    TakeRecipient, Send
    <2> QED
        BY <2>1 DEF Landed
<1> QED
    BY <1>1, <1>2, <1>3, <1>4 DEF Next, Bot, Chain

LEMMA AskedStep ==
    ASSUME SeenInv, AskedInv, Next
    PROVE  AskedInv'
<1>1. CASE pc' # "confirm"
    BY <1>1 DEF AskedInv
<1>2. CASE StopSending
    BY <1>2 DEF StopSending, AskedInv
<1>3. CASE Poll
    <2>1. PICK unread \in SUBSET pending :
              /\ confirmed' = confirmed \cup {x \in pending \ unread :
                                                  Fate(fate, x, "landed")}
              /\ pending' = pending \ {x \in pending \ unread :
                                Fate(fate, x, "landed") \/ Fate(fate, x, "failed")}
        BY <1>3 DEF Poll
    <2>2. UNCHANGED <<pc, sent, fate>>
        BY <1>3 DEF Poll
    <2> QED
        BY <2>1, <2>2 DEF AskedInv, Fate
<1>4. CASE Chain
    <2>1. UNCHANGED <<pc, sent, pending, confirmed>>
        BY <1>4 DEF Chain, Land, Expire, Refill
    <2>2. ASSUME NEW x, Fate(fate, x, "failed") PROVE Fate(fate', x, "failed")
        <3>1. CASE Refill
            BY <2>2, <3>1 DEF Refill
        <3>2. CASE \E y \in flight : Land(y) \/ Expire(y)
            <4> PICK y \in flight : Land(y) \/ Expire(y)
                BY <3>2
            <4>1. PICK what : Settle(y, what)
                BY DEF Land, Expire
            <4>2. x # y
                BY <2>2 DEF Fate, SeenInv
            <4> QED
                BY <2>2, <4>1, <4>2 DEF Settle, Fate
        <3> QED
            BY <1>4, <3>1, <3>2 DEF Chain
    <2> QED
        BY <2>1, <2>2 DEF AskedInv
<1>5. CASE ~(StopSending \/ Poll \/ Chain)
    <2>1. pc' # "confirm"
        BY <1>5 DEF Next, Bot, StartWindow, NextChunk, TakeRecipient, Send,
                    ChunkDone, EndWindow, Crash
    <2> QED
        BY <1>1, <2>1
<1> QED
    BY <1>1, <1>2, <1>3, <1>4, <1>5

-----------------------------------------------------------------------------
(* The inductive invariant and the theorems *)

LEMMA InitInv == Init => IInv
BY DEF Init, NoOne, IInv, PlacesInv, SeenInv, Seen, AskedInv

LEMMA NextInv == IInv /\ [Next]_vars => IInv'
<1> SUFFICES ASSUME IInv, [Next]_vars PROVE IInv'
    OBVIOUS
<1>1. CASE Next
    BY <1>1, PlacesStep, SeenStep, AskedStep, ConfirmedStep DEF IInv
<1>2. CASE UNCHANGED vars
    <2>1. UNCHANGED <<fate, confirmed, owed, todo, group, busy, pc, sent, pending>>
        BY <1>2 DEF vars
    <2>2. SeenInv'
        BY <1>2, KeptSeen DEF vars, IInv
    <2> QED
        BY <2>1, <2>2 DEF IInv, PlacesInv, AskedInv, Landed
<1> QED
    BY <1>1, <1>2

LEMMA InvAlways == Spec => []IInv
BY InitInv, NextInv, PTL DEF Spec

\* However often it is submitted again, a payout of a window lands at most once
\* per recipient, and for exactly the recipient's share.
THEOREM PayoutOnce == Spec => []PaidOnce
<1>1. IInv => PaidOnce
    BY DEF IInv, SeenInv, Seen, PaidOnce, Landed
<1> QED
    BY <1>1, InvAlways, PTL

\* Nothing is reported as delivered that has not landed, and no batch that
\* fails and no status that lags makes the poller drop a transfer that lands.
THEOREM ReportsExact == Spec => []ConfirmExact
<1>1. IInv => ConfirmExact
    BY DEF IInv, AskedInv, ConfirmExact, Fate, Landed
<1> QED
    BY <1>1, InvAlways, PTL

-----------------------------------------------------------------------------
(* The split *)

\* Shares are natural numbers, and together no more than what is split.
LEMMA FloorShares ==
    ASSUME NEW amount \in Nat, NEW ws \in [Wallets -> Nat]
    PROVE  /\ \A w \in Positive(ws) : Share(amount, ws, w) \in Nat
           /\ SumFunctionOnSet(ComputePayouts(amount, ws), Recipients(amount, ws))
                 <= amount
<1> DEFINE total == TotalWeight(ws)
           earners == Positive(ws)
           share == [w \in earners |-> Share(amount, ws, w)]
           paid == Recipients(amount, ws)
<1>1. IsFiniteSet(earners) /\ \A w \in earners : ws[w] \in Nat /\ ws[w] > 0
    BY PayoutsAssumption, FS_Subset DEF Positive
<1>2. total \in Nat /\ \A w \in earners : ws[w] <= total
    BY <1>1, SumType, SumRemove DEF TotalWeight
<1>3. ASSUME NEW n \in Nat, NEW d \in Nat \ {0}
      PROVE  n \div d \in Nat /\ (n \div d) * d <= n
    OBVIOUS
<1>4. ASSUME NEW w \in earners
      PROVE  share[w] \in Nat /\ total * share[w] <= amount * ws[w]
    <2>1. total \in Nat \ {0} /\ ws[w] \in Nat
        BY <1>1, <1>2
    <2>2. amount * ws[w] \in Nat
        BY <2>1
    <2>3. share[w] = (amount * ws[w]) \div total
        BY DEF Share
    <2> HIDE DEF total, share
    <2>4. share[w] \in Nat /\ share[w] * total <= amount * ws[w]
        BY <1>3, <2>1, <2>2, <2>3
    <2> QED
        BY <2>1, <2>4
<1>5. total * SumFunctionOnSet(share, earners) <= amount * total
    <2> HIDE DEF share
    <2>1. total * SumFunctionOnSet(share, earners)
             <= amount * SumFunctionOnSet(ws, earners)
        BY <1>1, <1>2, <1>4, SumRatio
    <2> QED
        BY <2>1 DEF TotalWeight
<1>6. SumFunctionOnSet(share, earners) \in Nat
    <2> HIDE DEF share
    <2> QED
        BY <1>1, <1>4, SumType
<1>7. SumFunctionOnSet(share, earners) <= amount
    <2>1. CASE earners = {}
        BY <2>1, SumEmpty
    <2>2. CASE earners # {}
        <3>1. total > 0
            BY <1>1, <1>2, <2>2
        <3>2. \A p, q, d \in Nat : d > 0 /\ d * p <= q * d => p <= q
            OBVIOUS
        <3> HIDE DEF total, share, earners
        <3> QED
            BY <1>2, <1>5, <1>6, <3>1, <3>2
    <2> QED
        BY <2>1, <2>2
<1>8. SumFunctionOnSet(share, paid) <= SumFunctionOnSet(share, earners)
    <2>1. paid \in SUBSET earners
        BY DEF Recipients
    <2> HIDE DEF share, paid
    <2> QED
        BY <1>1, <1>4, <2>1, SumSubset
<1>9. SumFunctionOnSet(ComputePayouts(amount, ws), paid) = SumFunctionOnSet(share, paid)
    <2>1. \A w \in paid : ComputePayouts(amount, ws)[w] = share[w]
        BY DEF ComputePayouts, Recipients
    <2>2. IsFiniteSet(paid) /\ paid \subseteq earners
        BY <1>1, FS_Subset DEF Recipients
    <2> HIDE DEF share, paid
    <2> QED
        BY <2>1, <2>2, SumAgrees
<1>10. SumFunctionOnSet(share, paid) \in Nat
    <2>1. IsFiniteSet(paid) /\ paid \subseteq earners
        BY <1>1, FS_Subset DEF Recipients
    <2> HIDE DEF share, paid
    <2> QED
        BY <1>4, <2>1, SumType
<1> HIDE DEF share, paid
<1> QED
    BY <1>4, <1>6, <1>7, <1>8, <1>9, <1>10 DEF share, paid

-----------------------------------------------------------------------------
(* Types *)

LEMMA TypeInit == Init => TypeOK
<1> SUFFICES ASSUME Init PROVE TypeOK
    OBVIOUS
<1>1. DOMAIN NoOne = {}
    BY DEF NoOne
<1>2. funds \in Nat
    BY PayoutsAssumption DEF Init
<1>3. weights \in [Wallets -> Nat] /\ pc \in Steps
    BY DEF Init, Steps
<1> QED
    BY <1>1, <1>2, <1>3 DEF Init, TypeOK

\* A new window: who is owed what, and nothing else.
LEMMA PayoutsType ==
    ASSUME NEW amount \in Nat, NEW ws \in [Wallets -> Nat]
    PROVE  LET p == ComputePayouts(amount, ws)
           IN  DOMAIN p \subseteq Wallets /\ \A w \in DOMAIN p : p[w] \in Nat
BY FloorShares DEF ComputePayouts, Recipients, Positive

\* What a worker submits.
LEMMA TransferType ==
    ASSUME TypeOK, NEW w \in DOMAIN busy
    PROVE  Transfer(w) \in Transfers
BY DEF TypeOK, Transfer, Transfers

LEMMA SendType == ASSUME TypeOK, NEW w \in Wallets, Send(w) PROVE TypeOK'
<1>1. w \in DOMAIN busy /\ Transfer(w) \in Transfers
    BY TransferType DEF Send
<1>2. flight' \subseteq Transfers /\ sent' \subseteq Transfers
    BY <1>1 DEF Send, Acknowledged, Retried, Submitted, TypeOK
<1>3. /\ DOMAIN busy' \subseteq DOMAIN owed
      /\ \A v \in DOMAIN busy' : busy'[v] \in 0 .. SendTries - 1
    <2>1. SendTries \in Nat \ {0}
        BY PayoutsAssumption
    <2>2. /\ DOMAIN busy \subseteq DOMAIN owed
          /\ \A v \in DOMAIN busy : busy[v] \in 0 .. SendTries - 1
        BY DEF TypeOK
    <2>3. CASE busy' = Restrict(busy, DOMAIN busy \ {w})
        BY <2>2, <2>3 DEF Restrict
    <2>4. CASE busy' = [busy EXCEPT ![w] = @ + 1] /\ busy[w] + 1 # SendTries
        BY <1>1, <2>1, <2>2, <2>4
    <2> QED
        BY <2>3, <2>4 DEF Send, Acknowledged, Retried
<1>4. UNCHANGED <<funds, fate, plan, pc, todo, hash, group, polling>>
    BY DEF Send
<1> QED
    BY <1>2, <1>3, <1>4 DEF TypeOK

LEMMA SettleType ==
    ASSUME TypeOK, NEW x \in flight, Land(x) \/ Expire(x)
    PROVE  TypeOK'
<1>1. PICK what \in {"landed", "failed", "expired"} :
          flight' = flight \ {x} /\ Settle(x, what)
    BY DEF Land, Expire
<1>2. x \in Transfers /\ x.amount \in Nat
    BY DEF TypeOK, Transfers
<1>3. funds' \in Nat
    BY <1>2 DEF Land, Expire, TypeOK
<1>4. /\ DOMAIN fate' \subseteq Transfers
      /\ \A y \in DOMAIN fate' : fate'[y] \in {"landed", "failed", "expired"}
    BY <1>1, <1>2 DEF Settle, TypeOK
<1>5. UNCHANGED <<pc, plan, sending, polling>>
    BY DEF Land, Expire
<1> QED
    BY <1>1, <1>3, <1>4, <1>5 DEF TypeOK

LEMMA TypeStep == ASSUME TypeOK, PlacesInv, Next PROVE TypeOK'
<1>1. CASE StartWindow
    <2>1. /\ funds \in Nat /\ weights' \in [Wallets -> Nat]
          /\ owed' = ComputePayouts(funds, weights')
        BY <1>1, PayoutsAssumption DEF StartWindow, TypeOK
    <2>2. DOMAIN owed' \subseteq Wallets /\ \A w \in DOMAIN owed' : owed'[w] \in Nat
        BY <2>1, PayoutsType
    <2>3. /\ window' \in Nat /\ todo' = DOMAIN owed' /\ pc' \in Steps
          /\ fate' = NoOne /\ hash' = 0 /\ sent' = {} /\ confirmed' = {}
          /\ stale' \in BOOLEAN
        BY <1>1, PayoutsAssumption DEF StartWindow, Steps
    <2>4. UNCHANGED <<funds, flight, group, busy, pending, rounds>>
        BY <1>1 DEF StartWindow
    <2>5. group = {} /\ DOMAIN busy = {}
        BY <1>1 DEF StartWindow, PlacesInv
    <2> QED
        BY <2>1, <2>2, <2>3, <2>4, <2>5 DEF TypeOK, NoOne
<1>2. CASE NextChunk
    BY <1>2 DEF NextChunk, Chunks, TypeOK, Steps
<1>3. CASE StopSending
    BY <1>3, PayoutsAssumption DEF StopSending, TypeOK, Steps
<1>4. CASE ChunkDone \/ EndWindow \/ Crash
    BY <1>4 DEF ChunkDone, EndWindow, Crash, NoOne, TypeOK, Steps
<1>5. CASE \E w \in Wallets : TakeRecipient(w)
    <2> PICK w \in Wallets : TakeRecipient(w)
        BY <1>5
    <2>1. SendTries \in Nat \ {0}
        BY PayoutsAssumption
    <2> QED
        BY <2>1 DEF TakeRecipient, TypeOK
<1>6. CASE \E w \in Wallets : Send(w)
    BY <1>6, SendType
<1>7. CASE Poll
    <2>1. /\ confirmed' \subseteq confirmed \cup pending
          /\ pending' \subseteq pending
          /\ rounds > 0 /\ rounds' = rounds - 1
        BY <1>7 DEF Poll
    <2> QED
        BY <1>7, <2>1 DEF Poll, TypeOK
<1>8. CASE \E x \in flight : Land(x) \/ Expire(x)
    BY <1>8, SettleType
<1>9. CASE Refill
    <2>1. funds' \in Nat
        BY <1>9, PayoutsAssumption DEF Refill, TypeOK
    <2> QED
        BY <1>9, <2>1 DEF Refill, TypeOK
<1> QED
    BY <1>1, <1>2, <1>3, <1>4, <1>5, <1>6, <1>7, <1>8, <1>9 DEF Next, Bot, Chain

-----------------------------------------------------------------------------
(* The account covers the window *)

LEMMA OwnStep == ASSUME OwnInv, Next PROVE OwnInv'
<1>1. CASE StartWindow
    BY <1>1 DEF StartWindow, OwnInv
<1>2. CASE \E w \in Wallets : Send(w)
    <2> PICK w \in Wallets : Send(w)
        BY <1>2
    <2>1. flight' \subseteq flight \cup {Transfer(w)} /\ UNCHANGED <<window, stale>>
        BY DEF Send, Acknowledged, Retried, Submitted
    <2> QED
        BY <2>1 DEF OwnInv, Transfer
<1>3. CASE ~(StartWindow \/ \E w \in Wallets : Send(w))
    <2>1. flight' \subseteq flight /\ UNCHANGED <<window, stale>>
        BY <1>3 DEF Next, Bot, Chain, NextChunk, StopSending, ChunkDone, Poll,
                    EndWindow, TakeRecipient, Crash, Land, Expire, Refill
    <2> QED
        BY <2>1 DEF OwnInv
<1> QED
    BY <1>1, <1>2, <1>3

\* The payouts that have not landed are finitely many natural numbers.
LEMMA UnpaidType ==
    ASSUME TypeOK
    PROVE  /\ IsFiniteSet(Unpaid)
           /\ \A w \in Unpaid : owed[w] \in Nat
           /\ SumFunctionOnSet(owed, Unpaid) \in Nat
<1>1. Unpaid \in SUBSET Wallets /\ \A w \in Unpaid : owed[w] \in Nat
    BY DEF Unpaid, TypeOK
<1>2. IsFiniteSet(Unpaid)
    BY <1>1, PayoutsAssumption, FS_Subset
<1> QED
    BY <1>1, <1>2, SumType

\* A landing takes its payout from the account and from what is unpaid.
LEMMA LandKeepsFunds ==
    ASSUME TypeOK, SeenInv, OwnInv, FundsSuffice, NEW x \in flight, Land(x)
    PROVE  FundsSuffice'
<1> SUFFICES ASSUME ~stale PROVE funds' >= SumFunctionOnSet(owed, Unpaid)'
    BY DEF Land, FundsSuffice
<1>1. UNCHANGED <<owed, window>>
    BY DEF Land
<1>2. funds >= SumFunctionOnSet(owed, Unpaid)
    BY DEF FundsSuffice
<1>3. x \in Seen /\ x \notin DOMAIN fate
    BY DEF OwnInv, SeenInv, Seen
<1>4. x.to \in DOMAIN owed /\ x.amount = owed[x.to]
    BY <1>3 DEF SeenInv
<1>5. x.to \in Unpaid
    <2> SUFFICES ASSUME NEW y \in Landed, y.window = window, y.to = x.to
                 PROVE  FALSE
        BY <1>4 DEF Unpaid
    <2>1. y \in Seen /\ y \in DOMAIN fate
        BY DEF Landed, Seen
    <2> QED
        BY <1>3, <2>1 DEF SeenInv
<1>6. /\ SumFunctionOnSet(owed, Unpaid \ {x.to}) \in Nat
      /\ SumFunctionOnSet(owed, Unpaid)
            = owed[x.to] + SumFunctionOnSet(owed, Unpaid \ {x.to})
    BY <1>5, UnpaidType, SumRemove
<1>7. funds \in Nat /\ owed[x.to] \in Nat
    BY <1>4 DEF TypeOK
<1>8. funds >= x.amount
    BY <1>2, <1>4, <1>6, <1>7
<1>9. funds' = funds - x.amount /\ Settle(x, "landed")
    BY <1>8 DEF Land
<1>10. Landed' = Landed \cup {x}
    BY <1>3, <1>9 DEF Settle, Landed
<1>11. Unpaid' = Unpaid \ {x.to}
    BY <1>1, <1>3, <1>10 DEF Unpaid, Seen, OwnInv
<1> QED
    BY <1>1, <1>2, <1>4, <1>6, <1>7, <1>9, <1>11

LEMMA FundsStep ==
    ASSUME TypeOK, SeenInv, OwnInv, FundsSuffice, Next
    PROVE  FundsSuffice'
<1>1. CASE StartWindow
    <2>1. /\ funds' = funds /\ funds \in Nat /\ weights' \in [Wallets -> Nat]
          /\ owed' = ComputePayouts(funds, weights') /\ fate' = NoOne
        BY <1>1, PayoutsAssumption DEF StartWindow, TypeOK
    <2>2. Unpaid' = Recipients(funds, weights')
        BY <2>1 DEF Unpaid, Landed, NoOne, ComputePayouts
    <2>3. SumFunctionOnSet(owed', Unpaid') <= funds
        BY <2>1, <2>2, FloorShares
    <2> QED
        BY <2>1, <2>3 DEF FundsSuffice
<1>2. CASE \E x \in flight : Land(x)
    BY <1>2, LandKeepsFunds
<1>3. CASE \E x \in flight : Expire(x)
    <2> PICK x \in flight : Expire(x)
        BY <1>3
    <2>1. Landed' = Landed
        BY DEF Expire, Settle, Landed, SeenInv
    <2> QED
        BY <2>1 DEF Expire, FundsSuffice, Unpaid
<1>4. CASE Refill
    <2>1. funds' >= funds /\ UNCHANGED <<fate, window, owed, stale>> /\ funds' \in Int
        BY <1>4, PayoutsAssumption DEF Refill, TypeOK
    <2>2. Unpaid' = Unpaid
        BY <2>1 DEF Unpaid, Landed
    <2>3. SumFunctionOnSet(owed, Unpaid) \in Nat /\ funds \in Nat
        BY UnpaidType DEF TypeOK
    <2> QED
        BY <2>1, <2>2, <2>3 DEF FundsSuffice
<1>5. CASE NextChunk \/ StopSending \/ ChunkDone \/ Poll \/ EndWindow \/ Crash
           \/ \E w \in Wallets : TakeRecipient(w) \/ Send(w)
    <2>1. UNCHANGED <<funds, fate, window, owed, stale>>
        BY <1>5 DEF NextChunk, StopSending, ChunkDone, Poll, EndWindow, Crash,
                    TakeRecipient, Send
    <2> QED
        BY <2>1 DEF FundsSuffice, Unpaid, Landed
<1> QED
    BY <1>1, <1>2, <1>3, <1>4, <1>5 DEF Next, Bot, Chain

LEMMA FundsInit == Init => FundsInv
<1> SUFFICES ASSUME Init PROVE FundsInv
    OBVIOUS
<1>1. TypeOK
    BY TypeInit
<1>2. OwnInv
    BY DEF Init, OwnInv
<1>3. Unpaid = {} /\ funds \in Nat
    BY PayoutsAssumption DEF Init, Unpaid, NoOne
<1>4. FundsSuffice
    BY <1>3, SumEmpty DEF FundsSuffice
<1> QED
    BY <1>1, <1>2, <1>4 DEF FundsInv

LEMMA FundsNext == IInv /\ FundsInv /\ [Next]_vars => FundsInv'
<1> SUFFICES ASSUME IInv, FundsInv, [Next]_vars PROVE FundsInv'
    OBVIOUS
<1>1. CASE Next
    BY <1>1, TypeStep, OwnStep, FundsStep DEF IInv, FundsInv
<1>2. CASE UNCHANGED vars
    BY <1>2 DEF vars, FundsInv, TypeOK, OwnInv, FundsSuffice, Unpaid, Landed
<1> QED
    BY <1>1, <1>2

LEMMA FundsAlways == Spec => []FundsInv
BY FundsInit, FundsNext, InvAlways, PTL DEF Spec

\* The account never pays out more than it holds, no worker exceeds its tries,
\* and every share, however the weights divide the pool, is a natural number.
THEOREM TypeCorrect == Spec => []TypeOK
<1>1. FundsInv => TypeOK
    BY DEF FundsInv
<1> QED
    BY <1>1, FundsAlways, PTL

\* A window that starts with nothing in flight never runs out of funds: the
\* rounded shares fit the pool, and every landing leaves enough for the rest,
\* whatever is retried, lost, late or refilled, and wherever the bot dies.
THEOREM FundsCover == Spec => []FundsSuffice
<1>1. FundsInv => FundsSuffice
    BY DEF FundsInv
<1> QED
    BY <1>1, FundsAlways, PTL

-----------------------------------------------------------------------------
(* The steps a window has left *)

\* The parts of StepsLeft are natural numbers.
StepParts ==
    /\ IsFiniteSet(todo) /\ Cardinality(todo) \in Nat
    /\ IsFiniteSet(group) /\ Cardinality(group) \in Nat
    /\ IsFiniteSet(DOMAIN busy) /\ TriesLeft \in Nat

LEMMA StepsType == TypeOK /\ PlacesInv => StepParts
<1> SUFFICES ASSUME TypeOK, PlacesInv PROVE StepParts
    OBVIOUS
<1>1. IsFiniteSet(todo) /\ IsFiniteSet(group) /\ IsFiniteSet(DOMAIN busy)
    <2>1. DOMAIN owed \subseteq Wallets
        BY DEF TypeOK
    <2> QED
        BY <2>1, PayoutsAssumption, FS_Subset DEF PlacesInv
<1>2. Cardinality(todo) \in Nat /\ Cardinality(group) \in Nat
    BY <1>1, FS_CardinalityType
<1> DEFINE left == [w \in DOMAIN busy |-> SendTries - busy[w]]
<1>3. \A w \in DOMAIN busy : left[w] \in Nat
    BY PayoutsAssumption DEF TypeOK
<1> HIDE DEF left
<1>4. SumFunctionOnSet(left, DOMAIN busy) \in Nat
    BY <1>1, <1>3, SumType
<1> QED
    BY <1>1, <1>2, <1>4 DEF StepParts, TriesLeft, left

LEMMA StepsTypeNext == (TypeOK /\ PlacesInv)' => StepParts'
BY StepsType, PTL

\* What the workers have left, but for one of them.
LEMMA TriesOf ==
    ASSUME NEW b, IsFiniteSet(DOMAIN b),
           \A v \in DOMAIN b : b[v] \in 0 .. SendTries - 1,
           NEW w \in DOMAIN b
    PROVE  LET left(c) == [v \in DOMAIN c |-> SendTries - c[v]]
               rest == [v \in DOMAIN b \ {w} |-> SendTries - b[v]]
           IN  /\ SumFunctionOnSet(rest, DOMAIN b \ {w}) \in Nat
               /\ SumFunctionOnSet(left(b), DOMAIN b)
                     = (SendTries - b[w]) + SumFunctionOnSet(rest, DOMAIN b \ {w})
<1> DEFINE left == [v \in DOMAIN b |-> SendTries - b[v]]
           others == DOMAIN b \ {w}
           rest == [v \in others |-> SendTries - b[v]]
<1>1. \A v \in DOMAIN b : left[v] \in Nat
    BY PayoutsAssumption
<1>2. IsFiniteSet(others) /\ \A v \in others : left[v] = rest[v] /\ rest[v] \in Nat
    BY PayoutsAssumption, FS_Subset
<1>3. left[w] = SendTries - b[w]
    OBVIOUS
<1> HIDE DEF left, rest
<1>4. SumFunctionOnSet(left, DOMAIN b) = left[w] + SumFunctionOnSet(left, others)
    BY <1>1, SumRemove
<1> HIDE DEF others
<1>5. SumFunctionOnSet(rest, others) \in Nat
    BY <1>2, SumType
<1>6. SumFunctionOnSet(left, others) = SumFunctionOnSet(rest, others)
    BY <1>2, SumAgrees
<1> QED
    BY <1>3, <1>4, <1>5, <1>6 DEF left, rest, others

\* A try that fails or succeeds is one try less for its worker.
LEMMA SendTakesTry ==
    ASSUME TypeOK, TypeOK', PlacesInv, PlacesInv', NEW w \in Wallets, Send(w)
    PROVE  TriesLeft' < TriesLeft
<1>1. w \in DOMAIN busy /\ busy[w] \in 0 .. SendTries - 1
    BY DEF Send, TypeOK
<1>2. IsFiniteSet(DOMAIN busy) /\ \A v \in DOMAIN busy : busy[v] \in 0 .. SendTries - 1
    BY StepsType DEF StepParts, TypeOK
<1> DEFINE others == DOMAIN busy \ {w}
           rest == [v \in others |-> SendTries - busy[v]]
           r == SumFunctionOnSet(rest, others)
<1>3. r \in Nat /\ TriesLeft = (SendTries - busy[w]) + r
    BY <1>1, <1>2, TriesOf DEF TriesLeft
<1>4. CASE busy' = Restrict(busy, others)
    <2>1. DOMAIN busy' = others /\ \A v \in others : busy'[v] = busy[v]
        BY <1>4 DEF Restrict
    <2>2. [v \in DOMAIN busy' |-> SendTries - busy'[v]] = rest
        BY <2>1
    <2>3. TriesLeft' = r
        BY <2>1, <2>2 DEF TriesLeft
    <2> HIDE DEF r
    <2> QED
        BY <1>1, <1>3, <2>3, PayoutsAssumption
<1>5. CASE busy' = [busy EXCEPT ![w] = @ + 1] /\ busy[w] + 1 # SendTries
    <2> DEFINE c == busy'
    <2>1. /\ DOMAIN c = DOMAIN busy /\ c[w] = busy[w] + 1
          /\ \A v \in others : c[v] = busy[v]
        BY <1>1, <1>5
    <2>2. \A v \in DOMAIN c : c[v] \in 0 .. SendTries - 1
        BY DEF TypeOK
    <2>3. rest = [v \in DOMAIN c \ {w} |-> SendTries - c[v]]
        BY <2>1
    <2>4. TriesLeft' = SumFunctionOnSet([v \in DOMAIN c |-> SendTries - c[v]], DOMAIN c)
        BY DEF TriesLeft
    <2> HIDE DEF c, rest
    <2>5. TriesLeft' = (SendTries - c[w]) + r
        BY <1>1, <1>2, <2>1, <2>2, <2>3, <2>4, TriesOf
    <2> HIDE DEF r
    <2> QED
        BY <1>1, <1>3, <2>1, <2>5, PayoutsAssumption
<1> QED
    BY <1>4, <1>5 DEF Send, Acknowledged, Retried

\* A worker that takes a recipient has all its tries.
LEMMA TakeGivesTries ==
    ASSUME TypeOK, TypeOK', PlacesInv, PlacesInv', NEW w \in Wallets, TakeRecipient(w)
    PROVE  TriesLeft' <= TriesLeft + SendTries
<1> DEFINE c == busy'
<1>1. w \notin DOMAIN busy
    BY DEF TakeRecipient, PlacesInv
<1>2. /\ w \in DOMAIN c /\ c[w] = 0 /\ DOMAIN c \ {w} = DOMAIN busy
      /\ \A v \in DOMAIN busy : c[v] = busy[v]
    BY <1>1 DEF TakeRecipient
<1>3. IsFiniteSet(DOMAIN c) /\ \A v \in DOMAIN c : c[v] \in 0 .. SendTries - 1
    <2>1. IsFiniteSet(DOMAIN busy)
        BY StepsType DEF StepParts
    <2>2. DOMAIN c = DOMAIN busy \cup {w}
        BY DEF TakeRecipient
    <2> QED
        BY <2>1, <2>2, FS_AddElement DEF TypeOK
<1>4. TriesLeft = SumFunctionOnSet([v \in DOMAIN c \ {w} |-> SendTries - c[v]],
                                   DOMAIN c \ {w})
    BY <1>2 DEF TriesLeft
<1>5. TriesLeft' = SumFunctionOnSet([v \in DOMAIN c |-> SendTries - c[v]], DOMAIN c)
    BY DEF TriesLeft
<1> HIDE DEF c
<1>6. TriesLeft' = (SendTries - c[w]) + TriesLeft
    BY <1>2, <1>3, <1>4, <1>5, TriesOf
<1> QED
    BY <1>2, <1>6, StepsType, PayoutsAssumption DEF StepParts

LEMMA StepTaken ==
    ASSUME TypeOK, TypeOK', PlacesInv, PlacesInv', Next, pc # "idle",
           ~UNCHANGED <<pc, sending, polling>>
    PROVE  StepsLeft' < StepsLeft
<1> DEFINE t == Cardinality(todo)
           g == Cardinality(group)
<1>1. t \in Nat /\ g \in Nat /\ TriesLeft \in Nat
    BY StepsType DEF StepParts
<1>2. t' \in Nat /\ g' \in Nat /\ TriesLeft' \in Nat
    BY StepsTypeNext DEF StepParts
<1>3. SendTries \in Nat /\ Rounds \in Nat /\ rounds \in Nat
    BY PayoutsAssumption DEF TypeOK
<1>4. StepsLeft \in Nat /\ StepsLeft > 0
    <2>1. pc \in {"chunk", "send", "confirm"}
        BY DEF TypeOK, Steps
    <2>2. (SendTries + 3) * t \in Nat /\ (SendTries + 1) * g \in Nat
        BY <1>1, <1>3
    <2> QED
        BY <1>1, <1>3, <2>1, <2>2 DEF StepsLeft
<1>5. CASE NextChunk
    <2>1. /\ group = {} /\ group' \subseteq todo /\ group' # {}
          /\ todo' = todo \ group' /\ pc = "chunk" /\ pc' = "send"
          /\ DOMAIN busy' = {}
        BY <1>5 DEF NextChunk, Chunks, PlacesInv
    <2>2. t = t' + g' /\ g' > 0
        <3>1. IsFiniteSet(todo) /\ IsFiniteSet(group') /\ IsFiniteSet(todo')
            BY <2>1, StepsType, FS_Subset DEF StepParts
        <3>2. todo = todo' \cup group' /\ todo' \cap group' = {}
            BY <2>1
        <3>3. t = t' + g' - Cardinality(todo' \cap group')
            BY <3>1, <3>2, FS_Union
        <3>4. Cardinality({}) = 0 /\ g' # 0
            BY <2>1, <3>1, FS_EmptySet
        <3> QED
            BY <1>1, <1>2, <3>2, <3>3, <3>4
    <2>3. TriesLeft' = 0
        BY <2>1, SumEmpty DEF TriesLeft
    <2>4. StepsLeft' = Rounds + 3 + (SendTries + 3) * t' + (SendTries + 1) * g' + 0
        BY <2>1, <2>3 DEF StepsLeft
    <2>5. StepsLeft = Rounds + 2 + (SendTries + 3) * t
        BY <2>1 DEF StepsLeft
    <2>6. \A s, r, a, b, c \in Nat :
              c = a + b /\ b > 0 =>
                  r + 3 + (s + 3) * a + (s + 1) * b + 0 < r + 2 + (s + 3) * c
        <3> SUFFICES ASSUME NEW s \in Nat, NEW a \in Nat, NEW b \in Nat, b > 0
                     PROVE  1 + (s + 3) * a + (s + 1) * b < (s + 3) * (a + b)
            OBVIOUS
        <3>1. (s + 3) * (a + b) = (s + 3) * a + (s + 1) * b + 2 * b
            OBVIOUS
        <3>2. (s + 3) * a \in Nat /\ (s + 1) * b \in Nat
            OBVIOUS
        <3> QED
            BY <3>1, <3>2
    <2> HIDE DEF t, g
    <2> QED
        BY <1>1, <1>2, <1>3, <2>2, <2>4, <2>5, <2>6
<1>6. CASE StopSending
    <2>1. pc = "chunk" /\ pc' = "confirm" /\ rounds' = Rounds
        BY <1>6 DEF StopSending
    <2>2. (SendTries + 3) * t \in Nat
        BY <1>1, <1>3
    <2> QED
        BY <1>3, <2>1, <2>2 DEF StepsLeft
<1>7. CASE \E w \in Wallets : TakeRecipient(w)
    <2> PICK w \in Wallets : TakeRecipient(w)
        BY <1>7
    <2>1. pc = "send" /\ pc' = "send" /\ todo' = todo /\ group' = group \ {w} /\ w \in group
        BY DEF TakeRecipient
    <2>2. g' = g - 1
        BY <2>1, StepsType, FS_RemoveElement DEF StepParts
    <2>3. TriesLeft' <= TriesLeft + SendTries
        BY TakeGivesTries
    <2>4. (SendTries + 1) * g' = (SendTries + 1) * g - (SendTries + 1)
        <3>1. \A s, b, c \in Nat : c = b - 1 => (s + 1) * c = (s + 1) * b - (s + 1)
            OBVIOUS
        <3> HIDE DEF g
        <3> QED
            BY <1>1, <1>2, <1>3, <2>2, <3>1
    <2>5. StepsLeft' = Rounds + 3 + (SendTries + 3) * t + (SendTries + 1) * g' + TriesLeft'
        BY <2>1 DEF StepsLeft
    <2>6. StepsLeft = Rounds + 3 + (SendTries + 3) * t + (SendTries + 1) * g + TriesLeft
        BY <2>1 DEF StepsLeft
    <2>7. (SendTries + 3) * t \in Nat /\ (SendTries + 1) * g \in Nat
        BY <1>1, <1>3
    <2>8. \A s, r, a, b, m, n \in Nat :
              n <= m + s => r + 3 + a + (b - (s + 1)) + n < r + 3 + a + b + m
        OBVIOUS
    <2> HIDE DEF t, g
    <2> QED
        BY <1>1, <1>2, <1>3, <2>3, <2>4, <2>5, <2>6, <2>7, <2>8
<1>8. CASE \E w \in Wallets : Send(w)
    <2> PICK w \in Wallets : Send(w)
        BY <1>8
    <2>1. pc = "send" /\ pc' = "send" /\ todo' = todo /\ group' = group
        BY DEF Send
    <2>2. TriesLeft' < TriesLeft
        BY SendTakesTry
    <2>3. (SendTries + 3) * t \in Nat /\ (SendTries + 1) * g \in Nat
        BY <1>1, <1>3
    <2>4. StepsLeft' = Rounds + 3 + (SendTries + 3) * t + (SendTries + 1) * g + TriesLeft'
        BY <2>1 DEF StepsLeft
    <2>5. StepsLeft = Rounds + 3 + (SendTries + 3) * t + (SendTries + 1) * g + TriesLeft
        BY <2>1 DEF StepsLeft
    <2>6. \A r, a, b, m, n \in Nat : n < m => r + 3 + a + b + n < r + 3 + a + b + m
        OBVIOUS
    <2> HIDE DEF t, g
    <2> QED
        BY <1>1, <1>2, <1>3, <2>2, <2>3, <2>4, <2>5, <2>6
<1>9. CASE ChunkDone
    <2>1. pc = "send" /\ pc' = "chunk" /\ todo' = todo
        BY <1>9 DEF ChunkDone
    <2>2. (SendTries + 3) * t \in Nat /\ (SendTries + 1) * g \in Nat
        BY <1>1, <1>3
    <2>3. StepsLeft' = Rounds + 2 + (SendTries + 3) * t
        BY <2>1 DEF StepsLeft
    <2>4. StepsLeft = Rounds + 3 + (SendTries + 3) * t + (SendTries + 1) * g + TriesLeft
        BY <2>1 DEF StepsLeft
    <2> HIDE DEF t, g
    <2> QED
        BY <1>1, <1>3, <2>2, <2>3, <2>4
<1>10. CASE Poll
    BY <1>3, <1>10 DEF Poll, StepsLeft
<1>11. CASE EndWindow \/ Crash
    <2>1. StepsLeft' = 0
        BY <1>11 DEF EndWindow, Crash, StepsLeft
    <2> QED
        BY <1>4, <2>1
<1>12. ~StartWindow /\ ~Chain
    BY DEF StartWindow, Chain, Land, Expire, Refill
<1> QED
    BY <1>5, <1>6, <1>7, <1>8, <1>9, <1>10, <1>11, <1>12 DEF Next, Bot

\* A window is over after a number of steps fixed when its pool is split,
\* whatever the calls and the polls are answered and wherever the bot dies.
THEOREM WindowIsFinite == Spec => WindowEnds
<1>1. /\ IInv /\ TypeOK /\ IInv' /\ TypeOK' /\ [Next]_vars
      => [pc # "idle" => StepsLeft' < StepsLeft]_<<pc, sending, polling>>
    BY StepTaken DEF IInv, vars
<1> QED
    BY <1>1, InvAlways, TypeCorrect, PTL DEF Spec, WindowEnds

-----------------------------------------------------------------------------
(* The books of AirdropBooks *)

\* No two transfers in flight are for the same payout, of whatever window.
OneInFlight == \A x, y \in flight : Claim(x) = Claim(y) => x = y

\* The transfer a worker submits is the payout its recipient is owed, and
\* nothing else of this window is in flight for that recipient.
LEMMA SentIsOwed ==
    ASSUME PlacesInv, SeenInv, NEW w \in DOMAIN busy
    PROVE  /\ Claim(Transfer(w)) = Owe(w)
           /\ \A x \in flight : Claim(x) = Owe(w) => x = Transfer(w)
           /\ w \in Over => Transfer(w) \in DOMAIN fate
           /\ w \notin Over => Owe(w) \in Due
<1>1. Claim(Transfer(w)) = Owe(w)
    BY DEF Claim, Transfer, Owe
<1>2. ASSUME NEW x \in flight \cup DOMAIN fate, x.window = window, x.to = w
      PROVE  x = Transfer(w)
    BY <1>2 DEF SeenInv, Seen
<1>3. ASSUME NEW x \in flight, Claim(x) = Owe(w)
      PROVE  x = Transfer(w)
    <2>1. x.window = window /\ x.to = w
        BY <1>3 DEF Claim, Owe
    <2> QED
        BY <1>2, <2>1
<1>4. w \in Over => Transfer(w) \in DOMAIN fate
    BY <1>2 DEF Over
<1>5. w \notin Over => Owe(w) \in Due
    BY DEF Due
<1> QED
    BY <1>1, <1>3, <1>4, <1>5

-----------------------------------------------------------------------------
(* One transfer per payout *)

LEMMA OneInit == Init => OneInFlight
BY DEF Init, OneInFlight

LEMMA OneStep == IInv /\ OneInFlight /\ [Next]_vars => OneInFlight'
<1> SUFFICES ASSUME IInv, OneInFlight, [Next]_vars PROVE OneInFlight'
    OBVIOUS
<1>1. CASE flight' \subseteq flight
    BY <1>1 DEF OneInFlight, Claim
<1>2. CASE \E w \in Wallets : Send(w)
    <2> PICK w \in Wallets : Send(w)
        BY <1>2
    <2>1. w \in DOMAIN busy /\ flight' \subseteq flight \cup {Transfer(w)}
        BY DEF Send, Acknowledged, Submitted
    <2>2. /\ Claim(Transfer(w)) = Owe(w)
          /\ \A x \in flight : Claim(x) = Owe(w) => x = Transfer(w)
        BY <2>1, SentIsOwed DEF IInv
    <2> QED
        BY <2>1, <2>2 DEF OneInFlight, Claim
<1>3. CASE ~\E w \in Wallets : Send(w)
    <2>1. flight' \subseteq flight
        BY <1>3 DEF Next, Bot, Chain, StartWindow, NextChunk, StopSending,
                    ChunkDone, Poll, EndWindow, TakeRecipient, Crash, Land,
                    Expire, Refill, vars
    <2> QED
        BY <1>1, <2>1
<1> QED
    BY <1>2, <1>3

-----------------------------------------------------------------------------
(* Every step of a window is a step of the books *)

\* Steps that leave the account alone, keep the window, the payouts and what
\* is over, and take nobody back.
LEMMA Forfeits ==
    ASSUME UNCHANGED <<funds, window, owed, flight, fate>>,
           todo' \cup group' \cup DOMAIN busy' \subseteq todo \cup group \cup DOMAIN busy
    PROVE  Books!Forfeit
<1>1. Over' = Over
    BY DEF Over
<1>2. \A w : Owe(w)' = Owe(w)
    BY DEF Owe
<1>3. \A x : Claim(x)' = Claim(x)
    BY DEF Claim
<1>4. Due' \subseteq Due
    BY <1>1, <1>2, <1>3 DEF Due
<1> QED
    BY <1>4 DEF Books!Forfeit

LEMMA Opens == ASSUME PlacesInv, StartWindow PROVE Books!Open
<1>1. /\ group' = {} /\ DOMAIN busy' = {} /\ flight' = flight
      /\ window' # window /\ funds' = funds
      /\ \A x \in flight : x.window # window'
    BY DEF StartWindow, PlacesInv
<1>2. Due' \subseteq {Owe(w)' : w \in todo'} \cup {Claim(x) : x \in flight}
    BY <1>1 DEF Due, Claim
<1>3. {Claim(x) : x \in flight} \subseteq Due
    BY DEF Due
<1>4. ASSUME NEW d \in Due'
      PROVE  /\ d \in Due \/ d.window = window'
             /\ d.window = window' => \E w \in todo' : d = Owe(w)' /\ d.to = w
    <2>1. CASE d \in {Owe(w)' : w \in todo'}
        BY <2>1 DEF Owe
    <2>2. CASE d \in {Claim(x) : x \in flight}
        BY <1>1, <1>3, <2>2 DEF Claim
    <2> QED
        BY <1>2, <2>1, <2>2
<1> HIDE DEF Due
<1>5. ASSUME NEW d \in Due', NEW e \in Due',
             d.window = window', e.window = window', d.to = e.to
      PROVE  d = e
    BY <1>4, <1>5
<1> QED
    BY <1>1, <1>4, <1>5 DEF Books!Open

LEMMA Sends ==
    ASSUME PlacesInv, SeenInv, NEW w \in Wallets, Send(w)
    PROVE  Books!Forfeit
<1>1. /\ w \in DOMAIN busy /\ DOMAIN busy' \subseteq DOMAIN busy
      /\ UNCHANGED <<funds, window, owed, fate, todo, group>>
    BY DEF Send, Acknowledged, Retried, Restrict
<1>2. flight' = flight \/ flight' = Submitted(Transfer(w))
    BY DEF Send, Acknowledged
<1>3. \A x \in flight' : Claim(x) \in Due
    <2>1. \A x \in flight : Claim(x) \in Due
        BY DEF Due
    <2>2. flight' # flight => Claim(Transfer(w)) \in Due
        BY <1>1, <1>2, SentIsOwed DEF Submitted
    <2> QED
        BY <1>2, <2>1, <2>2 DEF Submitted
<1>4. \A v : Owe(v)' = Owe(v)
    BY <1>1 DEF Owe
<1>5. Over' = Over
    BY <1>1 DEF Over
<1>6. ASSUME NEW d \in Due' PROVE d \in Due
    <2>1. CASE d \in {Owe(v) : v \in (todo \cup group \cup DOMAIN busy) \ Over}
        BY <2>1 DEF Due
    <2>2. CASE \E x \in flight' : d = Claim(x)
        BY <1>3, <2>2
    <2>3. Due' = {Owe(v)' : v \in (todo' \cup group' \cup DOMAIN busy') \ Over'}
                    \cup {Claim(x) : x \in flight'}
        BY DEF Due, Claim
    <2> QED
        BY <1>1, <1>4, <1>5, <2>1, <2>2, <2>3
<1> QED
    BY <1>1, <1>6 DEF Books!Forfeit

LEMMA Settles ==
    ASSUME PlacesInv, SeenInv, OneInFlight, NEW x \in flight, Land(x) \/ Expire(x)
    PROVE  Books!Settle(Claim(x)) \/ Books!Forfeit
<1>1. PICK what : flight' = flight \ {x} /\ Settle(x, what)
    BY DEF Land, Expire
<1>2. UNCHANGED <<window, owed, todo, group, busy>>
    BY DEF Land, Expire
<1>3. DOMAIN fate' = DOMAIN fate \cup {x}
    BY <1>1 DEF Settle
<1>4. Over' = IF x.window = window THEN Over \cup {x.to} ELSE Over
    BY <1>2, <1>3 DEF Over
<1>5. \A w : Owe(w)' = Owe(w)
    BY <1>2 DEF Owe
<1>6. Claim(x) \in Due
    BY DEF Due
<1>7. \A y \in flight' : Claim(y) # Claim(x) /\ Claim(y) \in Due
    BY <1>1 DEF OneInFlight, Due
<1>8. \A w : w \notin Over' => Owe(w) # Claim(x)
    BY <1>4 DEF Owe, Claim
<1>9. Due' = Due \ {Claim(x)}
    <2>1. Due' = {Owe(w)' : w \in (todo' \cup group' \cup DOMAIN busy') \ Over'}
                    \cup {Claim(y) : y \in flight'}
        BY DEF Due, Claim
    <2>2. ASSUME NEW d \in Due' PROVE d \in Due /\ d # Claim(x)
        <3>1. CASE \E w \in (todo \cup group \cup DOMAIN busy) \ Over' : d = Owe(w)
            BY <1>4, <1>8, <3>1 DEF Due
        <3>2. CASE \E y \in flight' : d = Claim(y)
            BY <1>7, <3>2
        <3> QED
            BY <1>2, <1>5, <2>1, <3>1, <3>2
    <2>3. ASSUME NEW d \in Due, d # Claim(x) PROVE d \in Due'
        <3>1. CASE \E y \in flight : d = Claim(y)
            BY <1>1, <2>1, <2>3, <3>1
        <3>2. CASE \E w \in (todo \cup group \cup DOMAIN busy) \ Over : d = Owe(w)
            <4> PICK w \in (todo \cup group \cup DOMAIN busy) \ Over : d = Owe(w)
                BY <3>2
            <4>1. ASSUME w \in Over' PROVE FALSE
                <5>1. x.window = window /\ x.to = w
                    BY <1>4, <4>1
                <5>2. x \in Seen
                    BY <5>1 DEF Seen
                <5>3. x.amount = owed[w]
                    BY <5>1, <5>2 DEF SeenInv
                <5> QED
                    BY <2>3, <5>1, <5>3 DEF Owe, Claim
            <4> QED
                BY <1>2, <1>5, <2>1, <4>1
        <3> QED
            BY <3>1, <3>2 DEF Due
    <2> QED
        BY <2>2, <2>3
<1> HIDE DEF Due
<1>10. CASE funds >= x.amount /\ funds' = funds - x.amount
    <2>1. Claim(x).amount = x.amount
        BY DEF Claim
    <2> QED
        BY <1>2, <1>9, <1>10, <2>1 DEF Books!Settle
<1>11. CASE UNCHANGED funds
    BY <1>2, <1>9, <1>11 DEF Books!Forfeit
<1> QED
    BY <1>10, <1>11 DEF Land, Expire

LEMMA BooksStep ==
    IInv /\ OneInFlight /\ [Next]_vars => [Books!Next]_<<funds, window, Due>>
<1> SUFFICES ASSUME IInv, OneInFlight, [Next]_vars
             PROVE  Books!Next \/ UNCHANGED <<funds, window, Due>>
    OBVIOUS
<1>1. CASE StartWindow
    BY <1>1, Opens DEF IInv, Books!Next
<1>2. CASE NextChunk
    <2>1. todo' \cup group' = todo
        BY <1>2 DEF NextChunk, Chunks
    <2> QED
        BY <1>2, <2>1, Forfeits DEF NextChunk, Books!Next
<1>3. CASE StopSending \/ ChunkDone \/ Poll \/ EndWindow
    BY <1>3, Forfeits DEF StopSending, ChunkDone, Poll, EndWindow, Books!Next
<1>4. CASE \E w \in Wallets : TakeRecipient(w)
    BY <1>4, Forfeits DEF TakeRecipient, Books!Next
<1>5. CASE \E w \in Wallets : Send(w)
    BY <1>5, Sends DEF IInv, Books!Next
<1>6. CASE Crash
    BY <1>6, Forfeits DEF Crash, NoOne, Books!Next
<1>7. CASE \E x \in flight : Land(x) \/ Expire(x)
    <2> PICK x \in flight : Land(x) \/ Expire(x)
        BY <1>7
    <2>1. Claim(x) \in Due
        BY DEF Due
    <2> QED
        BY <2>1, Settles DEF IInv, Books!Next
<1>8. CASE Refill
    <2>1. PICK r \in Refills : funds' = funds + r
        BY <1>8 DEF Refill
    <2>2. Due' = Due
        BY <1>8 DEF Refill, Due, Owe, Claim, Over
    <2> QED
        BY <1>8, <2>1, <2>2 DEF Refill, Books!Next, Books!Refill
<1>9. CASE UNCHANGED vars
    BY <1>9 DEF vars, Due, Owe, Claim, Over
<1> QED
    BY <1>1, <1>2, <1>3, <1>4, <1>5, <1>6, <1>7, <1>8, <1>9 DEF Next, Bot, Chain

\* Chunks, workers, retries, lost replies, late landings and deaths of the
\* process do nothing to the account but pay announced payouts, each once.
THEOREM PayoutsKeepBooks == Spec => ImplementsBooks
<1>1. Init => Books!Init
    BY PayoutsAssumption DEF Init, Books!Init, Due, NoOne
<1>2. Spec => []OneInFlight
    BY OneInit, OneStep, InvAlways, PTL DEF Spec
<1> QED
    BY <1>1, <1>2, BooksStep, InvAlways, PTL DEF Spec, ImplementsBooks, Books!Spec
=============================================================================

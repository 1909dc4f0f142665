------------------------------ MODULE Payouts ------------------------------
(***************************************************************************)
(* One airdrop leg of src/bot/distribute.py over several windows: the      *)
(* split of the live pool into floor shares, chunks of transfers that a    *)
(* pool of worker threads submits with retries, and the bulk confirmation. *)
(*                                                                         *)
(* The workers, the chain and the poller interleave.  A transfer is built  *)
(* once and submitted again after a failed call, whether or not an earlier *)
(* call got through; it lands at most once, and its blockhash expires.     *)
(*                                                                         *)
(* Abstractions: signatures are the transfers themselves; the sleeps       *)
(* between tries and rounds are left to the interleaving.  Recipients are  *)
(* owners read from the chain: none fails to parse as an address.          *)
(***************************************************************************)
EXTENDS Integers, FiniteSets, Functions

CONSTANTS
    Wallets,        \* possible recipients
    MinPayout,      \* min_payout: the dust floor
    ChunkSize,      \* config.DISTRIBUTE_CHUNK_SIZE
    Concurrency,    \* config.DISTRIBUTE_CONCURRENCY
    SendTries,      \* _SEND_MAX_RETRIES
    Rounds,         \* polling rounds of _confirm()
    DryRun,         \* config.DRY_RUN
    LostReplies,    \* may a submitted transfer look like a failed one?
    Crashes,        \* may the process die?
    Weights,        \* bound: the weights a window may be given
    Refills,        \* bound: tokens the swaps may deliver at once
    MaxPool,        \* bound: tokens on the bot's account
    Windows         \* bound: windows that may have transfers in flight

ASSUME PayoutsAssumption ==
    /\ IsFiniteSet(Wallets)
    /\ {MinPayout, Rounds, MaxPool} \subseteq Nat
    /\ {ChunkSize, Concurrency, SendTries, Windows} \subseteq Nat \ {0}
    /\ {DryRun, LostReplies, Crashes} \subseteq BOOLEAN
    /\ Weights \subseteq [Wallets -> Nat]
    /\ Refills \subseteq Nat

VARIABLES
    funds,      \* tokens on the bot's account, on chain
    flight,     \* transfers submitted, neither landed nor expired
    fate,       \* [transfer that is no longer in flight -> what became of it]
    window,     \* number of the window, unlike that of any transfer in flight
    pc,         \* the step of distribute() about to run
    weights,    \* this window's weights
    owed,       \* the payouts, by wallet
    todo,       \* recipients of the chunks not yet started
    hash,       \* number of the current chunk, for its blockhash
    group,      \* recipients of this chunk that wait for a worker
    busy,       \* [recipient a worker is sending to -> failed tries]
    sent,       \* the transfers whose submission was acknowledged
    pending,    \* the transfers _confirm() still asks about
    confirmed,  \* the transfers it has seen land
    rounds,     \* polling rounds left
    stale       \* ghost: a transfer of an earlier window was in flight

chain == <<funds, flight, fate>>
plan == <<window, weights, owed, stale>>
sending == <<todo, hash, group, busy, sent>>
polling == <<pending, confirmed, rounds>>
vars == <<chain, pc, plan, sending, polling>>

-----------------------------------------------------------------------------
(* compute_payouts() and the dust floor *)

Positive(ws) == {w \in Wallets : ws[w] > 0}
TotalWeight(ws) == SumFunctionOnSet(ws, Positive(ws))

\* Mutant: shares are rounded up.
ShareUp(amount, ws, w) ==
    (amount * ws[w] + TotalWeight(ws) - 1) \div TotalWeight(ws)

Share(amount, ws, w) == (amount * ws[w]) \div TotalWeight(ws)

Recipients(amount, ws) ==
    {w \in Positive(ws) : Share(amount, ws, w) > 0
                             /\ Share(amount, ws, w) >= MinPayout}

ComputePayouts(amount, ws) ==
    [w \in Recipients(amount, ws) |-> Share(amount, ws, w)]

-----------------------------------------------------------------------------
NoOne == [w \in {} |-> 0]

\* What became of x, if it is known.
Fate(f, x, what) == x \in DOMAIN f /\ f[x] = what
Settle(x, what) == fate' = [y \in DOMAIN fate \cup {x} |->
                               IF y = x THEN what ELSE fate[y]]

Init ==
    /\ funds \in 0 .. MaxPool
    /\ flight = {} /\ fate = NoOne
    /\ window = 0
    /\ pc = "idle"
    /\ weights = [w \in Wallets |-> 0]
    /\ owed = NoOne /\ todo = {} /\ hash = 0 /\ group = {} /\ busy = NoOne
    /\ sent = {} /\ pending = {} /\ confirmed = {} /\ rounds = 0
    /\ stale = FALSE

\* The live pool is read and split.
StartWindow ==
    /\ pc = "idle"
    /\ window' \in (0 .. Windows - 1) \ {window}
    /\ \A x \in flight : x.window # window'
    /\ weights' \in Weights
    /\ owed' = ComputePayouts(funds, weights')
    /\ todo' = DOMAIN owed'
    /\ pc' = IF todo' = {} \/ DryRun THEN "idle" ELSE "chunk"
    /\ fate' = NoOne /\ hash' = 0 /\ sent' = {} /\ confirmed' = {}
    /\ stale' = (flight # {})    \* a short interval, or a crash and a retry
    /\ UNCHANGED <<funds, flight, group, busy, pending, rounds>>

\* The heaviest ChunkSize recipients left; ties may fall either way.
Chunks ==
    {g \in SUBSET todo :
        /\ g # {} /\ Cardinality(g) <= ChunkSize
        /\ Cardinality(g) = ChunkSize \/ g = todo
        /\ \A w \in g, v \in todo \ g : weights[w] >= weights[v]}

\* Mutant: the recipients of a chunk stay on the list.
NextChunkAgain ==
    /\ pc = "chunk"
    /\ group' \in Chunks
    /\ hash' = hash + 1
    /\ pc' = "send"
    /\ UNCHANGED <<chain, plan, todo, busy, sent, polling>>

NextChunk ==
    /\ pc = "chunk"
    /\ group' \in Chunks
    /\ todo' = todo \ group'
    /\ hash' = hash + 1
    /\ pc' = "send"
    /\ UNCHANGED <<chain, plan, busy, sent, polling>>

\* No chunk left, or no blockhash for it: what is left stays in the pool.
StopSending ==
    /\ pc = "chunk"
    /\ pc' = "confirm"
    /\ pending' = sent /\ rounds' = Rounds
    /\ UNCHANGED <<chain, plan, sending, confirmed>>

TakeRecipient(w) ==
    /\ pc = "send" /\ w \in group
    /\ Cardinality(DOMAIN busy) < Concurrency
    /\ group' = group \ {w}
    /\ busy' = [v \in DOMAIN busy \cup {w} |-> IF v = w THEN 0 ELSE busy[v]]
    /\ UNCHANGED <<chain, plan, pc, todo, hash, sent, polling>>

(* _send_with_backoff() *)

\* Mutant: every try builds the transfer anew.
TransferAnew(w) ==
    [to |-> w, amount |-> owed[w], window |-> window,
     hash |-> SendTries * hash + busy[w]]

\* A retry submits the same transfer, so the chain knows it by then.
Transfer(w) ==
    [to |-> w, amount |-> owed[w], window |-> window, hash |-> hash]

Submitted(x) == IF x \in DOMAIN fate THEN flight ELSE flight \cup {x}

Acknowledged(w) ==
    /\ flight' = Submitted(Transfer(w))
    /\ sent' = sent \cup {Transfer(w)}
    /\ busy' = Restrict(busy, DOMAIN busy \ {w})

\* Mutant: one try too many.
RetriedOnceMore(w) ==
    /\ busy' = IF busy[w] = SendTries THEN Restrict(busy, DOMAIN busy \ {w})
                                     ELSE [busy EXCEPT ![w] = @ + 1]
    /\ UNCHANGED sent

Retried(w) ==
    /\ busy' = IF busy[w] + 1 = SendTries
               THEN Restrict(busy, DOMAIN busy \ {w})       \* gave up
               ELSE [busy EXCEPT ![w] = @ + 1]
    /\ UNCHANGED sent

Send(w) ==
    /\ pc = "send" /\ w \in DOMAIN busy
    /\ \/ Acknowledged(w)
       \/ Retried(w) /\ UNCHANGED flight                    \* RPCError
       \/ LostReplies /\ Retried(w) /\ flight' = Submitted(Transfer(w))
    /\ UNCHANGED <<funds, fate, plan, pc, todo, hash, group, polling>>

ChunkDone ==
    /\ pc = "send" /\ group = {} /\ DOMAIN busy = {}
    /\ pc' = "chunk"
    /\ UNCHANGED <<chain, plan, sending, polling>>

(* _confirm() *)

\* Mutant: the transfers of a batch that failed are not asked about again.
PollForgetting ==
    /\ pc = "confirm" /\ pending # {} /\ rounds > 0
    /\ \E read \in SUBSET pending :
          /\ confirmed' = confirmed \cup {x \in read : Fate(fate, x, "landed")}
          /\ pending' = {x \in read : ~Fate(fate, x, "landed")
                                         /\ ~Fate(fate, x, "failed")}
    /\ rounds' = rounds - 1
    /\ UNCHANGED <<chain, plan, pc, sending>>

\* Mutant: polling goes on until every transfer has a status.
PollUntilSettled ==
    /\ pc = "confirm" /\ pending # {} /\ rounds > 0
    /\ confirmed' = confirmed \cup {x \in pending : Fate(fate, x, "landed")}
    /\ pending' = {x \in pending : ~Fate(fate, x, "landed")
                                       /\ ~Fate(fate, x, "failed")}
    /\ UNCHANGED <<chain, plan, pc, sending, rounds>>

\* One round.  A batch may fail and a status may lag: those are asked again.
Poll ==
    /\ pc = "confirm" /\ pending # {} /\ rounds > 0
    /\ \E unread \in SUBSET pending :
          LET read == pending \ unread IN
          /\ confirmed' = confirmed \cup {x \in read : Fate(fate, x, "landed")}
          /\ pending' = pending \ {x \in read : Fate(fate, x, "landed")
                                                \/ Fate(fate, x, "failed")}
    /\ rounds' = rounds - 1
    /\ UNCHANGED <<chain, plan, pc, sending>>

\* The summary and the payout log: what is not confirmed counts as not sent.
EndWindow ==
    /\ pc = "confirm" /\ (pending = {} \/ rounds = 0)
    /\ pc' = "idle"
    /\ pending' = {} /\ rounds' = 0
    /\ UNCHANGED <<chain, plan, sending, confirmed>>

\* The process dies; what it has submitted stays submitted.
Crash ==
    /\ Crashes
    /\ pc # "idle"
    /\ pc' = "idle"
    /\ group' = {} /\ busy' = NoOne /\ pending' = {} /\ rounds' = 0
    /\ UNCHANGED <<chain, plan, todo, hash, sent, confirmed>>

Bot ==
    \/ StartWindow \/ NextChunk \/ StopSending \/ ChunkDone
    \/ \E w \in Wallets : TakeRecipient(w) \/ Send(w)
    \/ Poll \/ EndWindow

(* The chain *)

\* A transfer that the account cannot cover fails.
Land(x) ==
    /\ flight' = flight \ {x}
    /\ IF funds >= x.amount
       THEN funds' = funds - x.amount /\ Settle(x, "landed")
       ELSE UNCHANGED funds /\ Settle(x, "failed")
    /\ UNCHANGED <<pc, plan, sending, polling>>

\* The blockhash is too old: x can no longer land, and has no status.
Expire(x) ==
    /\ flight' = flight \ {x}
    /\ Settle(x, "expired")
    /\ UNCHANGED <<funds, pc, plan, sending, polling>>

Refill ==
    /\ \E r \in Refills :
          funds + r <= MaxPool /\ funds' = funds + r
    /\ UNCHANGED <<flight, fate, pc, plan, sending, polling>>

Chain == (\E x \in flight : Land(x) \/ Expire(x)) \/ Refill

Next == Bot \/ Crash \/ Chain

Spec == Init /\ [][Next]_vars

-----------------------------------------------------------------------------
(* Properties *)

Transfers == [to : Wallets, amount : Nat, window : Nat, hash : Nat]
Steps == {"idle", "chunk", "send", "confirm"}

\* Every variable keeps its type; in particular the account never pays out
\* more than it holds and no worker exceeds its tries.
TypeOK ==
    /\ funds \in Nat
    /\ flight \subseteq Transfers
    /\ DOMAIN fate \subseteq Transfers
    /\ \A x \in DOMAIN fate : fate[x] \in {"landed", "failed", "expired"}
    /\ window \in Nat /\ hash \in Nat /\ rounds \in Nat
    /\ pc \in Steps
    /\ weights \in [Wallets -> Nat]
    /\ DOMAIN owed \subseteq Wallets /\ \A w \in DOMAIN owed : owed[w] \in Nat
    /\ todo \subseteq DOMAIN owed
    /\ group \subseteq DOMAIN owed
    /\ DOMAIN busy \subseteq DOMAIN owed
    /\ \A w \in DOMAIN busy : busy[w] \in 0 .. SendTries - 1
    /\ sent \subseteq Transfers
    /\ pending \subseteq Transfers
    /\ confirmed \subseteq Transfers
    /\ stale \in BOOLEAN

Landed == {x \in DOMAIN fate : fate[x] = "landed"}

\* However often a transfer is submitted again and whichever calls got through,
\* a window pays nobody more or less than their share, and nobody twice.
PaidOnce ==
    \A x, y \in Landed :
        x.window = window /\ y.window = window =>
            /\ x.to \in DOMAIN owed /\ x.amount = owed[x.to]
            /\ x.to = y.to => x = y

\* What polling has called delivered has landed; and an acknowledged transfer
\* that lands is asked about until it is called so, although batches fail and
\* statuses lag: nothing but the end of the rounds leaves it out of the payout
\* log and of the caller's books.
ConfirmExact ==
    /\ confirmed \subseteq Landed
    /\ pc = "confirm" => sent \cap Landed \subseteq confirmed \cup pending

Unpaid == {w \in DOMAIN owed : ~\E x \in Landed : x.window = window /\ x.to = w}

\* If nothing of an earlier window was in flight when the pool was read, the
\* account covers every payout of the window that has not landed: the floor
\* shares add up to at most the pool, so none fails for lack of funds.
FundsSuffice == ~stale => funds >= SumFunctionOnSet(owed, Unpaid)

\* Payouts that may still leave the account: announced and neither sent nor
\* given up, or in flight, of this window or of an earlier one.
Owe(w) == [to |-> w, amount |-> owed[w], window |-> window]
Claim(x) == [to |-> x.to, amount |-> x.amount, window |-> x.window]

Over == {x.to : x \in {y \in DOMAIN fate : y.window = window}}
Due == {Owe(w) : w \in (todo \cup group \cup DOMAIN busy) \ Over}
          \cup {Claim(x) : x \in flight}

Books == INSTANCE AirdropBooks WITH due <- Due

\* To the account, a window is a set of payouts that each happen once or never,
\* also those of earlier windows that land late or of a process that died.
ImplementsBooks == Books!Spec

\* Calls and polls that the bot may still make before the window ends.
TriesLeft == SumFunctionOnSet([w \in DOMAIN busy |-> SendTries - busy[w]], DOMAIN busy)
StepsLeft ==
    CASE pc = "chunk"   -> Rounds + 2 + (SendTries + 3) * Cardinality(todo)
      [] pc = "send"    -> Rounds + 3 + (SendTries + 3) * Cardinality(todo)
                               + (SendTries + 1) * Cardinality(group) + TriesLeft
      [] pc = "confirm" -> rounds + 1
      [] OTHER          -> 0

\* A window ends, also when every call fails, the workers retry to the last and
\* no status ever arrives: whatever is answered, each step of the bot leaves
\* fewer to be made.  Until then no tick takes a holder snapshot.
WindowEnds ==
    [][pc # "idle" => StepsLeft' < StepsLeft]_<<pc, sending, polling>>

-----------------------------------------------------------------------------
(* The inductive invariant behind PaidOnce and ConfirmExact (IInv) and, with *)
(* it, behind TypeOK and FundsSuffice (FundsInv)                             *)

\* The transfers of this window that the chain has seen.
Seen == {x \in flight \cup DOMAIN fate : x.window = window}

\* Every recipient is in one place: not started, waiting, with a worker, done.
PlacesInv ==
    /\ todo \subseteq DOMAIN owed /\ group \subseteq DOMAIN owed
    /\ DOMAIN busy \subseteq DOMAIN owed
    /\ group \cap todo = {} /\ DOMAIN busy \cap todo = {}
    /\ group \cap DOMAIN busy = {}
    /\ pc # "send" => group = {} /\ DOMAIN busy = {}

\* One transfer per recipient, and none before a worker has taken them.
SeenInv ==
    /\ flight \cap DOMAIN fate = {}
    /\ \A x \in Seen :
          /\ x.to \in DOMAIN owed \ (todo \cup group)
          /\ x.amount = owed[x.to]
          /\ x.to \in DOMAIN busy => x = Transfer(x.to)
          /\ \A y \in Seen : x.to = y.to => x = y

\* Unless the window started stale, all that is in flight is its own.
OwnInv == ~stale => \A x \in flight : x.window = window

\* What is no longer asked about is settled for good.
AskedInv ==
    pc = "confirm" =>
        \A x \in sent \ pending : x \in confirmed \/ Fate(fate, x, "failed")

IInv == PlacesInv /\ SeenInv /\ AskedInv /\ confirmed \subseteq Landed

FundsInv == TypeOK /\ OwnInv /\ FundsSuffice
=============================================================================

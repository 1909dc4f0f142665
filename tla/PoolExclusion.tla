--------------------------- MODULE PoolExclusion ---------------------------
(***************************************************************************)
(* Who is never paid: _excluded_owners() of src/bot/cycle.py, the lookup   *)
(* behind it in src/bot/rpc.py, and src/server.py, which mirrors the       *)
(* engine's answer from two files that a tick replaces one at a time.      *)
(*                                                                         *)
(* Accounts change their program, lookups fail in any batch, ticks are     *)
(* aborted, the process dies, and a web request is half read meanwhile.    *)
(*                                                                         *)
(* Abstractions: what a tick makes of an owner is whether it is out, has   *)
(* no held time yet, or earns; LoyaltyTracker has the clock behind it.     *)
(* Rank and share are arithmetic on the weights of the owners shown.       *)
(***************************************************************************)
EXTENDS Integers, FiniteSetsExt

CONSTANTS
    Owners,         \* the owners that may hold the coin
    Static,         \* config.EXCLUDED_OWNERS
    Autodetect,     \* config.AUTODETECT_POOLS
    BatchSize       \* accounts per getMultipleAccounts call

ASSUME ExclusionAssumption ==
    /\ IsFiniteSet(Owners)
    /\ Static \subseteq Owners
    /\ Autodetect \in BOOLEAN
    /\ BatchSize \in Nat \ {0}

VARIABLES
    account,    \* the program that owns each owner's account, on chain
    holding,    \* loyalty_state.json, as far as eligibility goes
    published,  \* stats.json, excluded_owners
    classified, \* _classified_owners, module memory
    pools,      \* _pool_owners, module memory
    pc,         \* the step of tick() about to run
    unasked,    \* unknown owners whose batch is still to come
    asked,      \* those whose batch was answered
    found,      \* those of them that a program owns
    answered,   \* no batch of this tick has failed
    paying,     \* the owners this tick pays
    asking,     \* a web request has read the state file only
    copy,       \* the owners that earn in what it read
    late,       \* ghost: a program took the account after the owner was seen
    clean,      \* ghost: the stats follow the state, with a full lookup
    sharp       \* ghost: so they did since the web request began

memory == <<classified, pools>>
lookup == <<unasked, asked, found, answered>>
web == <<asking, copy>>
vars == <<account, holding, published, memory, pc, lookup, paying, web,
          late, clean, sharp>>

Kinds == {"none", "wallet", "program"}
Standings == {"out", "fresh", "earning"}
Earning(h) == {o \in Owners : h[o] = "earning"}
Entered == {o \in Owners : holding[o] # "out"}
Programs == {o \in Owners : account[o] = "program"}

\* Mutant: only what the node says in this tick is excluded.
ExcludedNow == Static \cup found

Excluded == Static \cup pools

-----------------------------------------------------------------------------
Init ==
    /\ account \in [Owners -> Kinds]
    /\ holding = [o \in Owners |-> "out"]
    /\ published = {}
    /\ classified = {} /\ pools = {}
    /\ pc = "idle"
    /\ unasked = {} /\ asked = {} /\ found = {} /\ answered = TRUE
    /\ paying = {}
    /\ asking = FALSE /\ copy = {}
    /\ late = {}
    /\ clean = TRUE /\ sharp = TRUE

\* An account is created, assigned to a program, or closed.
Change(o) ==
    /\ \E k \in Kinds \ {account[o]} : account' = [account EXCEPT ![o] = k]
    /\ late' = IF /\ account'[o] = "program"
                  /\ o \in classified \cup asked \cup copy \cup Entered
               THEN late \cup {o} ELSE late \ {o}
    /\ UNCHANGED <<holding, published, memory, pc, lookup, paying, web,
                   clean, sharp>>

\* Mutant: a wallet earns from its first snapshot on.
StandingAtOnce(o, kept) == IF o \in kept THEN "earning" ELSE "fresh"

\* Held time comes with the second snapshot that sees the wallet in.
Standing(o, kept) ==
    IF o \in kept /\ holding[o] # "out" THEN "earning" ELSE "fresh"

\* The snapshot, the update and the save: who holds any coin, who holds the
\* minimum, and who of those has neither sold nor just entered.
Snapshot ==
    /\ pc = "idle"
    /\ \E live \in SUBSET Owners : \E above \in SUBSET live :
       \E kept \in SUBSET above :
          /\ holding' = [o \in Owners |->
                IF o \in above THEN Standing(o, kept) ELSE "out"]
          /\ unasked' = IF Autodetect THEN live \ (classified \cup Excluded)
                                      ELSE {}
    /\ answered' = TRUE
    /\ pc' = "lookup"
    /\ UNCHANGED <<account, published, memory, asked, found, paying, web,
                   late, clean, sharp>>

\* One getMultipleAccounts call of the lookup.
Ask ==
    /\ pc = "lookup"
    /\ unasked # {}
    /\ \E batch \in kSubset(Min({BatchSize, Cardinality(unasked)}), unasked) :
          /\ unasked' = unasked \ batch
          /\ asked' = asked \cup batch
          /\ found' = found \cup (batch \cap Programs)
    /\ UNCHANGED <<account, holding, published, memory, pc, answered, paying,
                   web, late, clean, sharp>>

\* A call that answers for o, or leaves it answered; the last of a lookup.
AskAbout(o) == Ask /\ o \in asked'
AskLast(o) == AskAbout(o) /\ unasked' = {}

\* Mutant: what was to be asked counts as looked up although a call failed.
LookupFailsForGood ==
    /\ pc = "lookup"
    /\ unasked # {}
    /\ classified' = classified \cup unasked
    /\ answered' = FALSE
    /\ pc' = "publish"
    /\ UNCHANGED <<account, holding, published, pools, unasked, asked, found,
                   paying, web, late, clean, sharp>>

\* A failed call drops the answers of the batches before it.
LookupFails ==
    /\ pc = "lookup"
    /\ unasked # {}
    /\ answered' = FALSE
    /\ pc' = "publish"
    /\ UNCHANGED <<account, holding, published, memory, unasked, asked, found,
                   paying, web, late, clean, sharp>>

\* Mutant: a pool is not noted as looked up.
ClassifyPoolsOnly ==
    /\ pc = "lookup"
    /\ unasked = {}
    /\ classified' = classified \cup (asked \ found)
    /\ pools' = pools \cup found
    /\ pc' = "publish"
    /\ UNCHANGED <<account, holding, published, lookup, paying, web, late,
                   clean, sharp>>

Classify ==
    /\ pc = "lookup"
    /\ unasked = {}
    /\ classified' = classified \cup asked
    /\ pools' = pools \cup found
    /\ pc' = "publish"
    /\ UNCHANGED <<account, holding, published, lookup, paying, web, late,
                   clean, sharp>>

\* The weights are filtered, and _write_stats() publishes the filter.
Publish ==
    /\ pc = "publish"
    /\ published' = Excluded
    /\ paying' = Earning(holding) \ Excluded
    /\ clean' = answered
    /\ sharp' = (sharp /\ answered)
    /\ late' = late \ pools
    /\ pc' = "pay"
    /\ UNCHANGED <<account, holding, memory, lookup, web>>

Forget ==
    /\ pc' = "idle"
    /\ unasked' = {} /\ asked' = {} /\ found' = {} /\ answered' = TRUE
    /\ paying' = {}

\* The money steps of the tick use the filtered weights and end it.
EndTick ==
    /\ pc = "pay"
    /\ Forget
    /\ UNCHANGED <<account, holding, published, memory, web, late, clean, sharp>>

\* Has a saved state that no stats will follow.
CutShort == pc \in {"lookup", "publish"}

\* An exception that main() catches: module memory survives.
AbortTick ==
    /\ CutShort
    /\ Forget
    /\ clean' = FALSE
    /\ sharp' = FALSE
    /\ UNCHANGED <<account, holding, published, memory, web, late>>

Die ==
    /\ Forget
    /\ classified' = {} /\ pools' = {}
    /\ clean' = FALSE
    /\ sharp' = FALSE
    /\ UNCHANGED <<account, holding, published, web, late>>

\* /api/wallet and /api/board: the state file first, then the stats.
ReadState ==
    /\ ~asking
    /\ asking' = TRUE
    /\ copy' = Earning(holding)
    /\ sharp' = clean
    /\ UNCHANGED <<account, holding, published, memory, pc, lookup, paying,
                   late, clean>>

\* The owners a request that reads the stats now shows with a share.
Shown == copy \ published

ReadStats ==
    /\ asking
    /\ asking' = FALSE
    /\ copy' = {}
    /\ UNCHANGED <<account, holding, published, memory, pc, lookup, paying,
                   late, clean, sharp>>

Bot == Snapshot \/ Ask \/ LookupFails \/ Classify \/ Publish \/ EndTick

Next ==
    \/ \E o \in Owners \ Static : Change(o)
    \/ Bot \/ AbortTick \/ Die
    \/ ReadState \/ ReadStats

Spec == Init /\ [][Next]_vars

\* Ticks go on.  What is tried for ever succeeds some time: a call about an
\* owner, and a whole lookup with that owner in it.
Fairness ==
    /\ WF_vars(Bot)
    /\ \A o \in Owners : SF_vars(AskAbout(o)) /\ SF_vars(AskLast(o))

-----------------------------------------------------------------------------
\* Every variable has its type, and what is known as a pool has been looked up.
TypeOK ==
    /\ account \in [Owners -> Kinds]
    /\ holding \in [Owners -> Standings]
    /\ published \subseteq Owners
    /\ pools \subseteq classified /\ classified \subseteq Owners
    /\ pc \in {"idle", "lookup", "publish", "pay"}
    /\ unasked \subseteq Owners /\ found \subseteq asked /\ asked \subseteq Owners
    /\ paying \subseteq Owners /\ copy \subseteq Owners /\ late \subseteq Owners
    /\ {answered, asking, clean, sharp} \subseteq BOOLEAN

\* "Never pay an AMM/LP pool" (cycle.py:270), as far as the code keeps it: a
\* tick pays an owner whose account a program holds only if the program took
\* the account after the owner had been seen, or if this tick's lookup failed
\* and no earlier one of this process was about the owner.
NoPoolPaid ==
    /\ paying \cap Static = {}
    /\ Autodetect => \A o \in paying \cap Programs :
          o \in late \/ (~answered /\ o \notin classified)

\* A request that a tick overtakes between its two reads shows whom that tick
\* pays ("the exact weight every airdrop is paid on", server.py:146), whether it
\* reads the stats just before or just after they are replaced: among those who
\* earned when it read the state and still earn, nobody is promised a share that
\* the tick is about to exclude, and nobody paid is left out.
Promised == copy \cap Earning(holding)
WebShowsThePaid ==
    [][Autodetect /\ pc = "publish" /\ pc' = "pay" /\ asking /\ sharp' =>
          /\ Promised \cap Shown = Promised \cap paying'
          /\ Promised \cap Shown' = Promised \cap paying']_vars

\* A request whose two reads fall between any two writes of the bot shows no
\* pool: the new state with the old exclusions is harmless, because a pool has
\* no held time in the tick that first sees it.  It takes a failed lookup, a
\* tick cut short or a death before or during the request to show one.
WebShowsNoPool ==
    Autodetect /\ asking /\ sharp => Shown \cap Programs \subseteq late

\* A pool that keeps coming back is excluded in the end, although any call of
\* any lookup may fail and drop the answers before it.
PoolFound ==
    \A o \in Owners :
        (/\ <>[](account[o] = "program")
         /\ []<>(holding[o] # "out")
         /\ <>[][~Die /\ ~AbortTick]_vars)
        => <>[](o \in published \cup late)

-----------------------------------------------------------------------------
(* The inductive invariant behind all but PoolFound *)

\* A program's account that was asked about is known, or was taken later.
LookedUpInv ==
    /\ classified \cap Programs \subseteq pools \cup late
    /\ pc = "lookup" => asked \cap Programs \subseteq found \cup late
    /\ asked # {} => pc # "idle"
    /\ late \subseteq Programs

\* Nobody in the state file is left out of an answered lookup.
AskedInv ==
    /\ pc = "lookup" =>
          answered /\ Entered \subseteq Static \cup classified \cup asked \cup unasked
    /\ pc \in {"publish", "pay"} /\ answered => Entered \subseteq Static \cup classified
    /\ clean /\ ~CutShort => Entered \subseteq Static \cup classified

PayInv ==
    /\ pc = "pay" => paying = Earning(holding) \ published /\ published = Excluded
    /\ pc # "pay" => paying = {}

\* The stats are true of the state file, or at least of who earns in it; and of
\* what a web request has read.
WebInv ==
    /\ clean => Earning(holding) \cap Programs \subseteq published \cup late
    /\ clean /\ ~CutShort => Entered \cap Programs \subseteq published \cup late
    /\ clean => published \subseteq Excluded
    /\ clean => Earning(holding) \cap Excluded \subseteq published
    /\ clean /\ ~CutShort => Entered \cap Excluded \subseteq published
    /\ clean /\ pc = "lookup" => Earning(holding) \cap (asked \cup unasked) = {}
    /\ asking /\ sharp => clean /\ copy \cap Programs \subseteq published \cup late

IInv == TypeOK /\ LookedUpInv /\ PayInv /\ (Autodetect => AskedInv /\ WebInv)
=============================================================================

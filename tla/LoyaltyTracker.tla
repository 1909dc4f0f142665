--------------------------- MODULE LoyaltyTracker ---------------------------
(***************************************************************************)
(* The held-seconds tracker (src/bot/loyalty_tracker.py) as a tick of      *)
(* src/bot/cycle.py drives it: snapshot the holders, update the clocks,    *)
(* mark tasks, stamp the level-3 clock, persist, then pay.  The holders,   *)
(* the wall clock and a crash of the process interleave with every step.   *)
(*                                                                         *)
(* Abstractions: a balance is one number per owner; the time stamps of     *)
(* task flags are dropped, only their presence matters to the code.        *)
(***************************************************************************)
EXTENDS Integers

CONSTANTS
    Wallets,        \* the owners that may hold the coin
    Absent,         \* no entry for the wallet in loyalty_state.json
    MinHolding,     \* config.MIN_HOLDING_RAW
    CasinoMinLvl3,  \* config.CASINO_MIN_LVL3_SECONDS
    TasksRefresh,   \* config.TASKS_REFRESH_SECONDS
    Allowlist,      \* [Tasks -> SUBSET Wallets], whom the two files may ever name
    Malformed,      \* may the node return malformed token accounts?
    Amounts,        \* bound: the balances a wallet may have
    MaxTime,        \* bound: last value of the clock
    MaxStepsBack    \* bound: seconds the wall clock is set back, in all

Tasks == {"callout", "bullpost"}
NoStamp == -1
Balances == [Wallets -> Nat]

\* One value of the state file.
Entry == [first_seen_ts : Nat, last_balance : Nat, last_check_ts : Nat,
          held_seconds : Nat, tasks : SUBSET Tasks,
          lvl3_since : Nat \cup {NoStamp}]

ASSUME ConstantsAssumption ==
    /\ MinHolding \in Nat \ {0}
    /\ CasinoMinLvl3 \in Nat
    /\ TasksRefresh \in Nat
    /\ Allowlist \in [Tasks -> SUBSET Wallets]
    /\ Malformed \in BOOLEAN
    /\ Amounts \subseteq Nat
    /\ MaxTime \in Nat
    /\ MaxStepsBack \in Nat

ASSUME AbsentAssumption == Absent \notin Entry

States == [Wallets -> Entry \cup {Absent}]

VARIABLES
    now,        \* time.time()
    balance,    \* what each wallet holds on chain
    disk,       \* loyalty_state.json
    pc,         \* the step of tick() about to run
    t,          \* tick()'s `now`, read once at its start
    live,       \* the snapshot: what get_token_holders returned
    state,      \* the dict that tick() loaded and is changing
    lastFetch,  \* cycle._last_tasks_fetch_ts, module memory
    truth,      \* ghost: the balances when the snapshot was taken
    stepsBack   \* ghost: seconds the clock has been set back so far

memory == <<t, live, state, truth>>
vars == <<now, balance, disk, pc, t, live, state, lastFetch, truth,
          stepsBack>>

Steps == {"idle", "snapshot", "update", "refresh", "stamp", "pay"}
Nobody == [w \in Wallets |-> 0]
NoState == [w \in Wallets |-> Absent]
NeverFetched == -TasksRefresh

-----------------------------------------------------------------------------
(* update(): pass 1 for a known wallet, pass 2 for a new one *)

\* Mutants: a restart that keeps the old start, or drops the task flags.
RestartedKeepingStart(e, amount, ts) ==
    [e EXCEPT !.held_seconds = 0, !.last_balance = amount, !.last_check_ts = ts]

RestartedForgetting(e, amount, ts) ==
    [e EXCEPT !.held_seconds = 0, !.first_seen_ts = ts, !.tasks = {},
              !.last_balance = amount, !.last_check_ts = ts]

\* Reset and fresh entry assign the same four fields; the flags are kept.
Restarted(e, amount, ts) ==
    [e EXCEPT !.held_seconds = 0, !.first_seen_ts = ts,
              !.last_balance = amount, !.last_check_ts = ts]

\* Mutant: no max(0, ...).
ElapsedSigned(e, ts) == ts - e.last_check_ts

Elapsed(e, ts) == IF ts > e.last_check_ts THEN ts - e.last_check_ts ELSE 0

\* Mutant: the check is not recorded, so its seconds are credited again.
AccruedAgain(e, amount, ts) ==
    [e EXCEPT !.held_seconds = @ + Elapsed(e, ts), !.last_balance = amount]

Accrued(e, amount, ts) ==
    [e EXCEPT !.held_seconds = @ + Elapsed(e, ts),
              !.last_balance = amount, !.last_check_ts = ts]

\* Mutant: an unchanged balance counts as a drop.
DroppedOrEqual(e, amount) == amount <= e.last_balance \/ amount < MinHolding

Dropped(e, amount) == amount < e.last_balance \/ amount < MinHolding
WasOut(e) == e.last_balance < MinHolding

\* Mutant: whoever comes back is credited for the time out.
CheckedIgnoringOut(e, amount, ts) ==
    IF Dropped(e, amount) THEN Restarted(e, amount, ts) ELSE Accrued(e, amount, ts)

Checked(e, amount, ts) ==
    IF Dropped(e, amount) \/ WasOut(e) THEN Restarted(e, amount, ts)
                                       ELSE Accrued(e, amount, ts)

Seeded(amount, ts) ==
    [first_seen_ts |-> ts, last_balance |-> amount, last_check_ts |-> ts,
     held_seconds |-> 0, tasks |-> {}, lvl3_since |-> NoStamp]

Updated(s, amounts, ts) ==
    [w \in Wallets |->
        IF s[w] # Absent THEN Checked(s[w], amounts[w], ts)
        ELSE IF amounts[w] >= MinHolding THEN Seeded(amounts[w], ts)
        ELSE Absent]

(* apply_task() for every wallet of both tasks' sets *)
Marked(s, done) ==
    [w \in Wallets |->
        IF s[w] = Absent THEN Absent
        ELSE [s[w] EXCEPT !.tasks = @ \cup {k \in Tasks : w \in done[k]}]]

(* stamp_lvl3() *)
Eligible(e) == e.held_seconds > 0 /\ e.last_balance >= MinHolding
IsLvl3(e) == Eligible(e) /\ e.tasks = Tasks

\* Mutants: the stamp is never cleared, or is renewed by every tick.
StampedForEver(e, ts) ==
    [e EXCEPT !.lvl3_since = IF IsLvl3(e) /\ @ = NoStamp THEN ts ELSE @]

StampedAnew(e, ts) ==
    [e EXCEPT !.lvl3_since = IF IsLvl3(e) THEN ts ELSE NoStamp]

StampedEntry(e, ts) ==
    [e EXCEPT !.lvl3_since = IF ~IsLvl3(e) THEN NoStamp
                             ELSE IF @ = NoStamp THEN ts ELSE @]

Stamped(s, ts) ==
    [w \in Wallets |-> IF s[w] = Absent THEN Absent ELSE StampedEntry(s[w], ts)]

(* The weight sets a tick pays from *)
EligibleWallets(s) == {w \in Wallets : s[w] # Absent /\ Eligible(s[w])}

WeightedHoldings(s) ==
    [w \in EligibleWallets(s) |-> s[w].held_seconds * s[w].last_balance]

TaskWeights(s, task) ==
    [w \in {v \in EligibleWallets(s) : task \in s[v].tasks} |->
        WeightedHoldings(s)[w]]

\* Mutant: no maturity delay.
CandidatesAtOnce(s, ts) ==
    {w \in EligibleWallets(s) : s[w].tasks = Tasks /\ s[w].lvl3_since # NoStamp}

CasinoCandidates(s, ts) ==
    {w \in EligibleWallets(s) :
        /\ s[w].tasks = Tasks
        /\ s[w].lvl3_since # NoStamp
        /\ ts - s[w].lvl3_since >= CasinoMinLvl3}

-----------------------------------------------------------------------------
Init ==
    /\ now = 0
    /\ balance \in [Wallets -> Amounts]
    /\ disk = NoState
    /\ pc = "idle"
    /\ t = 0
    /\ live = Nobody
    /\ state = NoState
    /\ lastFetch = NeverFetched
    /\ truth = Nobody
    /\ stepsBack = 0

\* The environment: time passes, is set back (NTP), and holders trade.
AdvanceClock ==
    /\ now < MaxTime
    /\ now' = now + 1
    /\ UNCHANGED <<balance, disk, pc, lastFetch, stepsBack, memory>>

SetClockBack ==
    /\ now > 0
    /\ stepsBack < MaxStepsBack
    /\ now' = now - 1
    /\ stepsBack' = stepsBack + 1
    /\ UNCHANGED <<balance, disk, pc, lastFetch, memory>>

Trade(w) ==
    /\ \E b \in Amounts : balance' = [balance EXCEPT ![w] = b]
    /\ UNCHANGED <<now, disk, pc, lastFetch, stepsBack, memory>>

Forget ==
    /\ pc' = "idle"
    /\ t' = 0
    /\ live' = Nobody
    /\ state' = NoState
    /\ truth' = Nobody

StartTick ==
    /\ pc = "idle"
    /\ pc' = "snapshot"
    /\ t' = now
    /\ UNCHANGED <<now, balance, disk, live, state, lastFetch, truth, stepsBack>>

\* _snapshot_loyalty_holders(): an entry that does not parse is skipped, so
\* its owner is missing from the result.
SnapshotHolders ==
    /\ pc = "snapshot"
    /\ \E skipped \in IF Malformed THEN SUBSET Wallets ELSE {{}} :
          live' = [w \in Wallets |-> IF w \in skipped THEN 0 ELSE balance[w]]
    /\ truth' = balance
    /\ pc' = "update"
    /\ UNCHANGED <<now, balance, disk, t, state, lastFetch, stepsBack>>

\* load_state() then update().
Update ==
    /\ pc = "update"
    /\ state' = Updated(disk, live, t)
    /\ pc' = "refresh"
    /\ UNCHANGED <<now, balance, disk, t, live, lastFetch, truth, stepsBack>>

\* Whom the two allowlists may name now: the operator edits them, and one that is
\* missing or cannot be read names nobody.
Listed == {l \in [Tasks -> SUBSET Wallets] : \A k \in Tasks : l[k] \subseteq Allowlist[k]}

\* _refresh_tasks(): allowlists on every tick, the feeds when the throttle is
\* due; a feed that fails returns nobody.
RefreshTasks ==
    /\ pc = "refresh"
    /\ LET due == t - lastFetch >= TasksRefresh IN
       /\ lastFetch' = IF due THEN t ELSE lastFetch
       /\ \E listed \in Listed :
          \E feed \in IF due THEN [Tasks -> SUBSET Wallets]
                             ELSE {[k \in Tasks |-> {}]} :
             state' = Marked(state, [k \in Tasks |-> listed[k] \cup feed[k]])
    /\ pc' = "stamp"
    /\ UNCHANGED <<now, balance, disk, t, live, truth, stepsBack>>

\* Mutant: the file is written before the stamps are set.
SaveAndStamp ==
    /\ pc = "stamp"
    /\ state' = Stamped(state, t)
    /\ disk' = state
    /\ pc' = "pay"
    /\ UNCHANGED <<now, balance, t, live, lastFetch, truth, stepsBack>>

\* stamp_lvl3() then save_state(), an atomic replace of the file.
StampAndSave ==
    /\ pc = "stamp"
    /\ state' = Stamped(state, t)
    /\ disk' = state'
    /\ pc' = "pay"
    /\ UNCHANGED <<now, balance, t, live, lastFetch, truth, stepsBack>>

\* The money steps run on the weights of `state`; they do not change it.
FinishTick ==
    /\ pc = "pay"
    /\ Forget
    /\ UNCHANGED <<now, balance, disk, lastFetch, stepsBack>>

\* A failed read skips the tick; any other exception is caught by main().
AbortTick ==
    /\ pc # "idle"
    /\ Forget
    /\ UNCHANGED <<now, balance, disk, lastFetch, stepsBack>>

\* The process dies and start.py runs it again: module memory is lost.
Crash ==
    /\ Forget
    /\ lastFetch' = NeverFetched
    /\ UNCHANGED <<now, balance, disk, stepsBack>>

Bot == StartTick \/ SnapshotHolders \/ Update \/ RefreshTasks
          \/ StampAndSave \/ FinishTick \/ AbortTick \/ Crash

World == AdvanceClock \/ SetClockBack \/ \E w \in Wallets : Trade(w)

Next == Bot \/ World

Spec == Init /\ [][Next]_vars

-----------------------------------------------------------------------------
(* Properties *)

\* Every variable keeps its type; in particular no sequence of ticks, resets
\* and clock steps makes held_seconds negative (the max(0, ...) of update()).
TypeOK ==
    /\ now \in Nat
    /\ balance \in Balances
    /\ disk \in States
    /\ pc \in Steps
    /\ t \in Nat
    /\ live \in Balances
    /\ state \in States
    /\ lastFetch \in Int
    /\ truth \in Balances
    /\ stepsBack \in Nat

Known(s) == {w \in Wallets : s[w] # Absent}

\* The seconds a wallet is credited beyond those that lie between the start of
\* its holding and its last check: none unless the clock was set back.
Excess(e) == e.held_seconds - (e.last_check_ts - e.first_seen_ts)

\* However ticks are skipped, aborted or crashed, a wallet is credited at most
\* the length of its current holding, plus what the clock was set back by
\* (those seconds pass twice; update() credits them twice).
CreditWithinHolding ==
    \A w \in Known(disk) : Excess(disk[w]) <= stepsBack

\* No credit is lost either: skipped ticks, crashes and a clock set back never
\* take accumulated seconds from a wallet that did not restart.
CreditNotLost ==
    \A w \in Known(disk) : Excess(disk[w]) >= 0

\* The level-3 clock of the file never outlives the holding it belongs to: a
\* stamp means both tasks, an eligible balance, and more held seconds than
\* have passed since the stamp (so a sale in between has cleared it).
ContinuousSince(e, ts) == IsLvl3(e) /\ e.held_seconds > ts - e.lvl3_since

Lvl3ClockContinuous ==
    \A w \in Known(disk) :
        disk[w].lvl3_since # NoStamp =>
            ContinuousSince(disk[w], disk[w].last_check_ts)

\* Whoever can win the casino pot has held, without a single decrease seen,
\* longer than the maturity delay, and the file already says so.
MaturedCandidates ==
    pc = "pay" =>
        \A w \in CasinoCandidates(state, t) :
            /\ disk[w] = state[w]
            /\ state[w].held_seconds > CasinoMinLvl3
            /\ IsLvl3(state[w])

\* Task flags are sticky: no step of the file, not a sale, an exit, an empty
\* feed nor a restart of the bot, removes a wallet or one of its flags.
FlagsKept ==
    \A w \in Known(disk) :
        /\ w \in Known(disk')
        /\ disk[w].tasks \subseteq disk'[w].tasks

TasksSticky == [][FlagsKept]_vars

DropSeen(w) == truth[w] < disk[w].last_balance \/ truth[w] < MinHolding

\* A wallet loses accumulated time only if what it really held when the
\* snapshot was taken was less than at the last check, or below the minimum.
ResetHasCause ==
    \A w \in Known(disk) \cap Known(disk') :
        disk'[w].held_seconds < disk[w].held_seconds => DropSeen(w)

OnlyDropsReset == [][ResetHasCause]_vars

Clock == INSTANCE HoldClock WITH clock <- disk, Unknown <- Absent

\* To whoever reads the file, a tick is one atomic check of every wallet: none
\* of its steps shows, whichever of them an exception or a crash cuts off.
ImplementsHoldClock == Clock!Spec
-----------------------------------------------------------------------------
(* The inductive invariant behind the properties above *)

Ahead(a, b) == IF a > b THEN a - b ELSE 0

\* Seconds by which clock e's last check is ahead of the clock that the next
\* update will use: the tick's own, once a tick has read it.
Overrun(e) ==
    IF pc = "idle" THEN Ahead(e.last_check_ts, now)
                   ELSE Ahead(e.last_check_ts, t) + Ahead(t, now)

\* Entries of the file: bounded credit, none below the minimum, sound stamps.
DiskInv ==
    \A w \in Known(disk) :
        /\ Excess(disk[w]) >= 0
        /\ Excess(disk[w]) + Overrun(disk[w]) <= stepsBack
        /\ disk[w].held_seconds > 0 => disk[w].last_balance >= MinHolding
        /\ disk[w].lvl3_since # NoStamp =>
              ContinuousSince(disk[w], disk[w].last_check_ts)

\* Entries in memory after update(): checked at t; a stamp is sound unless the
\* wallet has just restarted, which stamp_lvl3 will clear.
StateInv ==
    pc \in {"refresh", "stamp", "pay"} =>
        \A w \in Known(state) :
            /\ state[w].last_check_ts = t
            /\ Excess(state[w]) >= 0
            /\ Excess(state[w]) + Ahead(t, now) <= stepsBack
            /\ state[w].held_seconds > 0 => state[w].last_balance >= MinHolding
            /\ state[w].lvl3_since # NoStamp /\ Eligible(state[w]) =>
                  ContinuousSince(state[w], t)

\* What the tick is about to save, against the file it was loaded from.
SuccessorInv ==
    pc \in {"refresh", "stamp"} =>
        \A w \in Known(disk) :
            /\ state[w] # Absent
            /\ disk[w].tasks \subseteq state[w].tasks
            /\ ~Malformed /\ state[w].held_seconds < disk[w].held_seconds
                  => DropSeen(w)

IInv ==
    /\ TypeOK
    /\ Ahead(t, now) <= stepsBack
    /\ DiskInv
    /\ StateInv
    /\ SuccessorInv
    /\ pc = "update" /\ ~Malformed => live = truth
    /\ pc = "pay" => disk = state
=============================================================================

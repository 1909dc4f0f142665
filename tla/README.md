# Coin Pro Max bot: specifications, model checks and proofs

TLA+ models of the bot in `src/` (`python -m bot`): it snapshots the holders of
a pump.fun coin every ten seconds, keeps a loyalty clock per wallet, claims
creator fees, splits them into pools and airdrops SOL and tokens. Money moves on
a public chain through an unreliable RPC node, the books are small JSON files,
and the process may die between any two calls: that is what is modelled.

## 1. Inventory

| component (source) | state | operations | correct when |
|---|---|---|---|
| Held-seconds tracker (`bot/loyalty_tracker.py`) | `loyalty_state.json`: per wallet first seen, last balance, last check, held seconds, task flags, level-3 stamp | `load_state`, `update`, `apply_task`, `stamp_lvl3`, weight sets, `save_state` | credit equals the unbroken holding; only a sale (or falling below the minimum) resets; flags are sticky; the level-3 clock restarts with the holding |
| Tick, tracker half (`bot/cycle.py` 498-540) | `_last_tasks_fetch_ts` in memory | snapshot, update, refresh tasks, stamp, save | a failed read changes nothing; an aborted tick loses nothing |
| Tick, money half (`bot/cycle.py` 107-493, 569-663) | five counter files, a lifetime total, four interval markers | claim, measure, operator cut, split, swaps, casino draw, airdrops | books never exceed measured claims; caps hold; the operator is paid first; the wallet backs the pools |
| Buyback (`bot/swap.py`), stock basket (`bot/stocks.py`), claims (`bot/pumpfun.py`) | none | one or more submitted transactions | at most the budget is spent; failure is isolated |
| Distributor (`bot/distribute.py`) | `payouts.jsonl` | split, chunks, worker threads with retries, bulk confirmation | nobody is paid twice in a window; only landed transfers are reported; payouts fit the pool |
| RPC client (`bot/rpc.py`), transactions (`bot/solana_tx.py`) | HTTP client | reads, submit | every read fails closed |
| Pool exclusion (`_excluded_owners`) | two sets in memory | classify owners by the program of their account | no pool is paid, as far as the node can be asked; every pool is found in the end |
| Task feeds (`bot/community.py`, `bot/pumpthread.py`) | allowlist files | fetch, page, parse | a failure revokes nothing; who posted is found although pages move; nobody is invented |
| Launcher (`start.py`) | `mint.txt`, child processes, backoff | wipe state, supervise | web and bot come back; a new coin starts with new books, an unchanged one keeps its own |
| Web (`server.py`, `frontend/`) | none | read-only API | it shows whom the engine pays, and no pool |
| Ranking (`bot/ranking.py`) | none | a sort that only tests call | - |

Interaction: one thread runs `tick()` in a loop; only the distributor starts
worker threads. The tick reads and replaces the files; the web reads them at any
time; the operator edits the allowlists and `ad_reserve.json` by hand; the
launcher restarts the bot. Everything else is a call to the node or to a web
service, which may fail, or succeed with a lost reply. `sendTransaction` returns
on submission, so a payment that "succeeded" may still expire, and one that
"failed" may still land. The hard behaviours are therefore: steps of the tick
against transactions in flight, death between a payment and its booking, values
read before and used after something has landed, retries of what was already
done, and a clock that may step back. `PROJECT.json` lists them one by one,
each at its line, under `hazards`.

## 2. Modules

| module | models | checked by |
|---|---|---|
| `LoyaltyTracker` | tracker and the tracker half of the tick | `tracker_one`, `tracker_malformed` |
| `LoyaltyHistory` | the same with the list of all saved snapshots; defines from that list what the rules promise | `tracker_history` |
| `LoyaltyTrackerProofs` | theorems about `LoyaltyTracker`, among them that it implements `HoldClock` | proof system |
| `LoyaltyHistoryProofs` | the file is the fold of its history, as theorems | proof system |
| `Treasury` | claim, split, swaps, draw, SOL airdrop against the chain | the `treasury_*` runs, three `finding_*` runs |
| `TreasuryProofs` | theorems about `Treasury` | proof system |
| `Payouts` | one airdrop leg over several windows | `payouts_windows` |
| `PayoutsProofs` | theorems about `Payouts`, among them that it implements `AirdropBooks` | proof system |
| `SumLemmas` | sums over finite sets, for the other proofs | proof system |
| `PoolExclusion` | `_excluded_owners`, the batched lookup, and the web's two reads | `tick_inputs` |
| `TaskFeeds` | the pages of the community feed | `tick_inputs` |
| `TickInputs` | both, one after the other as `tick()` asks them | `tick_inputs` |
| `Launcher` | `start.py` with the bot's reads and writes of the volume | `launcher` |
| `PoolExclusionProofs`, `TaskFeedsProofs`, `LauncherProofs` | theorems about these | proof system |
| `HoldClock` | abstract: the file moves by whole checks of all wallets | implemented by `LoyaltyTracker` (`tracker_one`) |
| `AirdropBooks` | abstract: a payout is announced once and settled at most once | implemented by `Payouts` (`payouts_windows`) |
| `MC*` | values of constants for the model checker | |

**LoyaltyTracker.** `disk` is `loyalty_state.json`, `state` the dict the tick
works on, `live` its snapshot, `t` the `now` it read once, `lastFetch` the
throttle in module memory. `Updated` is `update()`: `Checked` for known wallets
(`Restarted` for a reset and for a fresh entry, `Accrued` otherwise), `Seeded`
for new ones. `RefreshTasks`, `StampAndSave` are the next calls of `tick()`; the
two allowlists may name anybody of `Allowlist`, or nobody, on each tick, as the
operator edits them or a file cannot be read (`Listed`).
`AbortTick` is an exception caught by `main()` (memory of the module survives),
`Crash` the death of the process (it does not). `Trade`, `AdvanceClock` and
`SetClockBack` are the world. `truth` and `stepsBack` are ghosts: the balances
when the snapshot was taken, and by how much the clock was ever set back.
Nothing in the tracker relates one wallet to another (`update`, `apply_task` and
`stamp_lvl3` treat each entry alone), so the runs use one wallet and spend their
states on balances, times and interruptions; the theorems hold for any set.

**Treasury.** `chain` and `vault` are lamports on the wallet and unclaimed fees,
`flight` the transactions submitted but neither landed nor dropped, `book` the
counter files, `due` the interval gates, `pc` the next step of the tick. Each
RPC call and each counter-file write is one action. A submission has up to three
outcomes: reply received, rejected, or submitted with the reply lost
(`LostReplies`). `LateLanding` lets a poll give up on a transaction that lands
later, also because a status call failed. The wait for the claims is the loop of
the code: each round polls and comes nearer to the deadline, `ClaimPolls` rounds
away, and a claim that has expired never gets a status, so only the deadline
ends the wait for it. `sum` and `spent` are ghosts that hold running totals and
what this tick has submitted. Weights and recipients are abstracted: `SendShare`
pays shares of any legal size. Percentages are integers and `int(claimed *
0.15)` is `claimed * 15 \div 100`; the code uses floating point, whose rounding
may move a lamport between a leg and the remainder.

**Payouts.** `owed` is the list of payouts, `todo` the recipients of the chunks
to come, `group` and `busy` the work of the thread pool, `sent` what `_do`
returned, `pending`/`confirmed`/`rounds` the state of `_confirm()`. A transfer
is identified by recipient, amount, window and blockhash, as its signature is,
so a retry submits the *same* transfer and the chain ignores it once it has seen
it. `distribute()` for $CPM and for each stock is this module;
`distribute_sol()` is the same machinery with the pool given by the caller,
whose books are in `Treasury`. Recipients are owners read from the chain, so the
"bad recipient" branch is not taken.

**HoldClock** maps its only variable to `disk`: of all its actions only
`StampAndSave` is a `Check`, every other one stutters. **AirdropBooks** maps
`due`, the payouts announced and not settled, to the recipients still to be
served plus the transfers in flight (`Due`): starting a window opens it, landing
settles, and giving up, expiring or dying forfeits.

**PoolExclusion.** `account` is who owns each holder's account on chain,
`classified` and `pools` are `_classified_owners` and `_pool_owners`, `unasked`,
`asked` and `found` the locals of `get_account_owner_programs`, `published` the
list in `stats.json`. A tick is `Snapshot` (down to the unknown owners), one
`Ask` per batch, `Classify` or `LookupFails`, `Publish`, `EndTick`. Of the clock
only what eligibility needs is kept: an owner is out, has no held time yet, or
earns (`Standing`). A web request is two steps, `ReadState` and `ReadStats`, for
`/api/wallet` and `/api/board` alike; `Shown` is whom it gives a share. `late`
is a ghost: owners whose account a program took after they had been seen, of
which a sticky classification cannot know. `clean` and `sharp` say that the
stats follow the state after a full lookup, now and since the request began.

**TaskFeeds.** The list of messages moves while it is read: `Post` pushes
everything on by one, `Delete` marks a message, `Unlist` takes it out.
`ReadPage` is one round of the loop. `newer` (how many listed messages are
younger than the fetch), `shrunk` and `cut` are ghosts that say when a poster
may be missed.

**Launcher.** `marker` is `mint.txt`, `file` says whose data each state file
holds, `pc` the step of `_maybe_wipe_state()` and `main()`. Removing a file,
opening the marker and writing it are separate actions, and `Stop` may come
between any two; `Deploy` changes the settings while the container is down. The
bot is `Load`, `Save`, `Write` and its deaths. `faulty` is a ghost: a removal or
the marker's write has failed, which the code reports and leaves.

## 3. Runs

Properties are stated in the modules, each with the behaviour it is about.

| run | question | bounds and why they are enough |
|---|---|---|
| `tracker_one` | is every credited second earned, every reset caused, every stamp covered by its holding? | balances 0-3 around the minimum 2 (out, at, above, rising and falling), clock 0-4 with two seconds set back, maturity 2: enough for enter, mature, sell, re-enter |
| `tracker_history` | does the file equal what the rules give for its whole history? | four saves, balances 1-3, four instants; on a tick at most one task is reported, by its allowlist or by its feed (`Reports`) |
| `treasury_crashes` | do the books survive crash, lost reply and late landing anywhere, is every booking preceded by its operator cut, and does a mishap cost no more than it was about? | one vault, one income of 10, one transaction in flight, two stocks; basket 2, prize 1 and airdrop 1 as caps, prize and airdrop smaller than their pools, so that a second payment would go through; 10 % each for the operator and the reserve |
| `treasury_reliable` | is every pool backed by the wallet when nothing is lost or late? | two vaults, fee 1, a deposit that is no claim, two transactions in flight; transactions may still be rejected, dropped or fail on chain |
| `treasury_live` | does every tick end, and are fees collected in the end? | every fault but death; two rounds of polls before the deadline, so that one can pass and leave the wait open; see fairness |
| `payouts_windows` | is everyone paid once, truthfully, within the pool, and is a window over in the end? | three wallets (a tie, and one without weight), chunks of two, two workers, two tries, two polling rounds, two window numbers that are used again once nothing of that number is in flight; crashes and lost replies |
| `tick_inputs` | is a pool ever paid or shown, does the web show whom the tick pays, and is a poster missed? | two owners, each in a batch of its own (a failure before, between and after the answers), every kind of account, statically excluded owners none (the theorems cover them); two wallets, pages of two, at most two pages, four messages. The two models share no variable; each moves while the other is in an initial state |
| `launcher` | do the books belong to the coin, and do both children come back? | two coins, three files (the clocks, the stats, one that accumulates), backoff capped at 5 s and four early deaths counted (1, 2, 4, 5: below, at and above the cap; `BackoffDoubles` needs no more than that the deaths counted apart reach the cap), any disk fault |
| `tracker_malformed` | "never proceed with a partial snapshot" | violated: one malformed account resets a holder |
| `finding_self_heals` | "the measured delta self-heals" | violated: a failed second read loses the fee to the split |
| `finding_buyback_cap` | "cannot spend more than a cap on any leg" | violated: lost reply, next route |
| `finding_floor` | "never lets the wallet dip below GAS_FLOOR + the ad-bounty reserve" | violated: balance read before payments in flight have left |

`MaxTime`, `MaxStepsBack`, `MaxSaves`, `Amounts`, `MaxIncome`, `MaxFlight`,
`Incomes`, `Deposits`, `MaxPool`, `Refills`, `Windows`, `Weights`, `Reports`,
`MaxMessages` and `MaxDeaths` are bounds of the models, not of the program. No
run switches deadlock checking off.

`tracker_history` reports feeds and trades only where the next tick sees them
(trades while it is idle or about to take its snapshot), which is a reduction:
later moves commute with the rest of the tick. Its limit of saves stops the
history, not the tracker: ticks go on being aborted.

Some statements need a word.

* `OperatorFirst` is about steps and not about totals: when any of the five
  counters grows, this tick has submitted, once and in full, the cut of the very
  claim it grows by. A cut of an earlier tick that died before it booked
  anything does not make up for a missing one, and no percentage is assumed to
  be larger than another.
* `OnlyMishapsCost` bounds what cannot be ruled out. The books may promise more
  than the wallet holds once a tick has died between a payment and its debit, a
  reply was lost, or a share landed after the last poll: the budget is then
  spent again. `Gap` is what the wallet lacks, `Mishap` what the step's accident
  was about, and no step, of this tick or of a later one, widens the gap by
  more. So nothing but such an accident spends what is promised already, and
  each is paid for once. `before` counts for the wallet while claims are
  measured, because the deposit or late payment of that time is in the delta.
* `ConfirmExact` has two halves: what the log calls confirmed has landed, and an
  acknowledged transfer that has landed is confirmed or still asked about.
* `WindowEnds` gives a measure (`StepsLeft`: chunks, tries and polls to come)
  that every step of a window lowers whatever it is answered. It is the reason
  why a window of `distribute()` cannot hold up the next snapshot for good;
  `TickEnds` is the same for the tick with its wait for the claims, as liveness.
* `WebShowsThePaid` is about a web request that a tick overtakes between its two
  reads: of those who earned when it read the state and still earn, it shows
  exactly whom the tick is about to pay, whether it gets the old stats or the
  new ones. Only the share is meant: level and `casino_eligible` of
  `/api/wallet` (`server.py:164`) do not look at the exclusions.

**Fairness.** In `Treasury` (`FairSpec`): `WF(Bot)`: `main()` starts tick after
tick and every HTTP call has a timeout, so the next step of a tick is taken.
`WF(Land \/ Drop)`: a submitted transaction lands or its blockhash expires.
`SF(Elapse("claim"))`: the claim interval elapses. `SF(ReadBefore)`,
`SF(SendClaim(v))`, `SF(ClaimLands(v))`: a call that is tried again in every
interval succeeds some time, which is the most one can ask of the node and
without which no fee could be collected by anybody. `TickEnds` needs only the
first and second. Death of the process is left out of this run: a bot that dies
in every tick ends none.

In `PoolExclusion`: `WF(Bot)` as above, and for each owner `SF(AskAbout(o))` and
`SF(AskLast(o))`: a call about the owner that is tried in every tick is answered
some time, and some lookup gets all its answers with that owner in it. The
second is needed because a failing batch drops the answers before it.
`PoolFound` itself assumes that ticks are not cut short for ever. In `Launcher`:
`WF(Supervisor)`, as the platform restarts a container that went down and a
launcher that is not killed goes on; `BothComeBack` assumes that the platform
does not stop the container for ever, and asks nothing of the bot.

## 4. Proofs

All theorems hold for every value of the constants that the modules' named
assumptions allow (`ConstantsAssumption`, `AbsentAssumption`,
`TreasuryAssumption`, `PayoutsAssumption`, `ExclusionAssumption`,
`FeedAssumption`, `LauncherAssumption`); a theorem that needs more says so in
its statement. The properties are not inductive, so each module ends with the
strengthenings it needs (`IInv`, `FeedInv`, `HistoryInv`, `FundsInv`,
`BooksIInv`, `ReliableInv`, `BackoffInv`), which were model-checked on the
module's own run before they were proved. The proofs show that they hold
initially, that each action keeps them, with one lemma or step per action, and
that the properties follow.

* **LoyaltyTrackerProofs.** `TypeCorrect`, `CreditBounded`, `CreditComplete`,
  `Lvl3Continuous`, `CandidatesMatured`, `FlagsSticky`, `ResetOnlyOnDrop`,
  `TickIsAtomic`. The heart of `IInv` is `DiskInv`: the excess of an entry (held
  seconds beyond the time between its start and its last check) plus the seconds
  its last check is ahead of the clock the next update will use (`Overrun`)
  never exceeds the seconds the clock was set back. `Overrun` is what makes it
  inductive: a check made before the clock stepped back owes those seconds.
  `StateInv` and `SuccessorInv` say the same of the copy in memory, and relate
  it to the file. `ResetOnlyOnDrop` assumes `~Malformed`; `tracker_malformed`
  shows why. For `TickIsAtomic` (the tracker implements `HoldClock`), `StepInv`
  says what the tick holds in memory is a function of the file it has loaded,
  its snapshot and the marks, so the save is one `Check` of the file, wherever
  earlier ticks were cut short.
* **LoyaltyHistoryProofs.** `FileIsFoldOfHistory`, `StampIsStartOfLevel3`. The
  rules look back over the whole list of snapshots (the longest holding that
  ends now, the first record of the level-3 run); the code keeps five numbers.
  `HeldStep` and `StampStep` turn the first into a recurrence over the records,
  `SamePast` says a new record changes nothing the rules said before, and
  `EntryKeepsRules` that a save makes exactly that step. `HistoryInv` adds that
  the last check of the file is the last record.
* **TreasuryProofs.** With every fault allowed: `TypeCorrect`, `CapsAlways`,
  `OperatorPaidFirst`, `BooksBalance`, `MishapsCostOnce`, `DebitsCovered` (a
  counter is debited by no more than it holds) and `DryRunSafe` (under DRY_RUN
  nothing is in flight and nothing counted as spent), the last two proved, not
  run; without lost replies `BuybackCapped` (`finding_buyback_cap` shows why).
  `SpentInv`: what a leg has spent and may still spend fits its cap, and legs
  still ahead in the tick have spent nothing. `CoverInv`: the same sum, with the
  shares whose fate the tick is still polling, is in the leg's counter until the
  debit; that is why the `max(0, ...)` of `_write_counter` never acts.
  `OperatorInv`: while a claim is being booked, its cut is what this tick has
  spent on the operator. `BooksInv`: counters, lifetime total and cuts, plus
  what the tick has measured and not yet written (`Unbooked`) or debited and not
  yet counted (`Uncounted`), fit the measured claims; a crash drops those two
  and nothing else. The split is exact whatever the percentages
  (`SplitIsExact`). `MishapsCostOnce` goes through the actions one by one
  (`ClaimGap`, `SplitGap`, `SwapGap`, `PayoutGap`, `WorldGap`): submitting moves
  lamports from the pool's debt to the flight, landing from the flight out of
  the wallet, the debit takes them from the pool, and what the running leg has
  submitted and not yet debited (`Undebited`) closes the gap in between.
  `before` covers the pools by itself during a claim, so that only the
  difference of the two reads is split. Assuming `Reliable` (no crash, lost
  reply or late landing): `WalletBacksPools` and `AirdropsFromPool`. The first
  follows from `MishapsCostOnce`: without a fault no step has a mishap
  (`NoMishap`), so the gap never opens (`BackedInv`). The second needs
  `AirdropInv`. Each of the three faults alone breaks both (the model checker
  finds it on the instance of `treasury_reliable`): a payment the bot does not
  know of leaves the wallet and stays in the pool.
* **PayoutsProofs.** `TypeCorrect`, `PayoutOnce`, `ReportsExact`,
  `WindowIsFinite`, `FundsCover`, `PayoutsKeepBooks`. `SeenInv` says no transfer
  of this window is with the chain before a worker has taken its recipient, and
  that a busy worker's transfer is the only one of its recipient. It is why a
  retry is harmless and a rebuild would not be. `AskedInv`: what is no longer
  asked about is confirmed or has failed for good. `WindowIsFinite` rests on
  `PlacesInv` (every recipient is waiting, with a worker or done) and a sum over
  the busy workers: taking a recipient, answering a call and ending a round each
  lower the measure. `FloorShares`: the floors of the shares add up to at most
  the pool. With it and `OwnInv` (in a window that did not start stale, all that
  is in flight is its own) a transfer that lands takes from the account what it
  takes from the unpaid, which is `FundsCover`. For `PayoutsKeepBooks` each
  action is matched with a step of `AirdropBooks` or a stutter under these
  invariants.
* **SumLemmas.** Total weights, transactions in flight, payouts of a window and
  seconds of a holding are all sums over finite sets, by the fold of the
  community modules. That fold is a recursive function, so the lemmas first show
  that its recursion has a solution (`PartialSolves`), then that the sum does
  not depend on the order of the elements (`SumSplit`), and from it what adding,
  removing, renaming and scaling do. Induction is by minimal counterexample,
  with a set of sets in the place of a predicate.
* **PoolExclusionProofs.** `TypeCorrect`, `PoolsUnpaid`, `WebAgrees`,
  `PoolsUnshown`. `LookedUpInv`: a program's account that was asked about is
  known or was taken later. `AskedInv`: nobody in the state file is left out of
  an answered lookup. `WebInv`: the stats are true at least of those who earn in
  the state file, also between the two writes; it holds because an owner has no
  held time in the tick that first sees it. It is what makes the old stats as
  good as the new ones in `WebAgrees`.
* **TaskFeedsProofs.** `FetchBounded`, `NoFabrication`, `OlderPostersFound`.
  `AheadInv`: an older post that counts has been read or lies beyond the offset.
  The property speaks of posts and not of authors for a reason: an author whose
  older post is deleted before it is read, and who has posted anew meanwhile, is
  missed; five messages and three authors are needed to see it.
* **LauncherProofs.** `TypeCorrect`, `BooksOfOneCoin`,
  `UnchangedLaunchWipesNothing`, `SavesExtend`, `BackoffDoubles`. `MarkedInv`:
  every file is the marked coin's, and an empty marker means a volume without
  data. `WipeInv` says how far a wipe has come, so that the marker is touched on
  an empty volume only. `BackoffInv` gives the wait also while the bot is up.
  The prover knows nothing of powers; `PowersDouble` counts subsets.
  `BackoffDoubles` assumes that the bound `MaxDeaths` lets the wait reach its
  cap.

Every invariant and every action property of the passing runs is stated by a
theorem, and so are the two refinements. Only model-checked are the four
liveness properties (`TickEnds`, `FeesCollected`, `PoolFound`, `BothComeBack`):
liveness under fairness is out of this prover's reach. `TickInputs` has no
proofs of its own: its two parts share no variable, and the theorems are about
the parts. The violated statements are refuted by the model checker alone.

## 5. Observations on the code

Besides the four violated statements above, reading the code against its docs
and the model showed:

* The two swaps are limited by their pools only (`cycle.py:468`, `:478`);
  nothing ties them to the floor or the ad reserve, though `README.md` says the
  bot never spends that reserve. While the books are backed (`Backed`) it makes
  no difference.
* A share that lands after the fifth poll counts as not sent and its lamports
  are paid again in the next window (`distribute.py:119`):
  `AirdropOnlyPaysPool` holds without late landing only, and `OnlyMishapsCost`
  says that it costs that share and no more.
* A payment that expires after its counter was debited leaves lamports in the
  wallet that no counter names (`cycle.py:228`, `:472`, `:485`); likewise a
  claim whose tick dies in the middle of the five writes (`cycle.py:436`).
* The casino's payout log says `confirmed: True` on submission (`cycle.py:232`).
* The lifetime total counts what was submitted (`cycle.py:229`, `:472`, `:485`),
  not "SOL actually spent" (`config.py:192`).
* A deposit between the two balance reads is split like a claim
  (`cycle.py:399`), under DRY_RUN too.
* A failed swap is retried only in a tick whose claim was positive
  (`cycle.py:401`), since the split returns before the swaps otherwise.
* `load_state` promises that a corrupt file aborts the bot
  (`loyalty_tracker.py:45`); `main()` catches the exception and ticks on, for
  ever without a save. What the promise is for holds (`SaveExtendsFile`).
* The ad reserve is decremented by hand (`cycle.py:140`) and increased by the
  bot with a read and a replace (`cycle.py:145`), with no lock: an edit in
  between is lost. It is safe while the bot is stopped.
* A failed lookup lets a pool be paid that no earlier lookup of this process was
  about, and module memory is lost with the process. `cycle.py:529` ("so no
  AMM/LP pool is ever paid out or shown") and `rpc.py:202` ("never an excuse to
  pay a pool") say more than the code does; `NoPoolPaid` says what it does.
* An owner without an account is classified as a wallet for good
  (`cycle.py:296`), and so is one whose account a program takes later.
* One failing batch drops all the answers before it (`rpc.py:207`).
* A new process publishes its first stats with an empty memory when its lookup
  fails, so that a pool excluded before is shown again.
* A full page of replies, deleted posts or known wallets ends the community
  fetch (`community.py:132`), as does the fiftieth page: older posters beyond it
  are not found at any later refresh either, until the list changes.
* A call-out answer of an unexpected shape (`pumpthread.py`) may raise something
  else than `PumpThreadError` and abort the tick, with the throttle advanced.
* A marker that cannot be written (`start.py:95`) is reported and left: empty,
  it makes the next coin's launch skip the wipe; unchanged, it makes the *same*
  coin's next launch wipe that coin's own books, against `start.py:75`. A file
  that cannot be removed (`start.py:61`) stays with the new coin for good.
  `CleanBooks` and `UnchangedLaunchKeepsBooks` hold without such failures.
* A web process that dies during the bot's backoff is noticed up to 30 s later
  (`start.py:170`).
* `__main__.py:3` says that a catastrophic error tears down the web sibling;
  `start.py:159` restarts the bot and leaves the web up.
* `/api/wallet` ranks by competition (`server.py:157`), `/api/board` by position
  (`server.py:209`): on a tie they differ.

## 6. Not modelled

* `Ranking`: a pure sort without state that the program never calls.
* Rank, share and level of the web, which are arithmetic on what it read; static
  files and headers; the HTML.
* The parsing of RPC answers, messages, allowlists and settings, and the
  call-out feed's own loop-free request: models take the values they yield, or a
  failure.
* Instruction bytes and address derivation (data layout), and the markets behind
  the swaps.
* In `Treasury`, the token airdrops in detail: `TokenLegs` stands for every way
  they run or not. The stock airdrop's interval and marker (`cycle.py:638`) are
  not kept, and the fees and the rent of new token accounts leave at once rather
  than when each transfer lands. Both only decide when a tick loses `fees`
  lamports that no counter names; the transfers themselves are `Payouts`.
* The operator's edit of `ad_reserve.json` (see above): nothing in the code
  orders it with the bot's writes, so there is nothing to state.
* The environment that the launcher strips for the web (`start.py:117`), a
  constant filter.

What could be added next: `Treasury` composed with `AirdropBooks` in place of
`SendShare` and `EndShares`, so that the account of `FundsCover` is the SOL pool
of `WalletBacksPools`.

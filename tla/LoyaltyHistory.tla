--------------------------- MODULE LoyaltyHistory ---------------------------
(***************************************************************************)
(* LoyaltyTracker with the history of what each save was computed from.    *)
(* The tracker keeps five numbers per wallet and folds every snapshot into *)
(* them; here the whole list of snapshots is kept, and what the rules of   *)
(* README.md promise is defined from that list alone.                      *)
(***************************************************************************)
EXTENDS LoyaltyTracker, Sequences, Functions

CONSTANTS
    MaxSaves,   \* bound: length of the history
    Reports     \* bound: whom the lists and feeds may name in one tick

VARIABLES
    log,     \* ghost: <<[ts, live, done]>>, one record per save of the file
    fetched  \* ghost: who this tick's allowlists and feeds reported

historyVars == <<vars, log, fetched>>

NobodyDone == [k \in Tasks |-> {}]

HistoryInit == Init /\ log = <<>> /\ fetched = NobodyDone

HistoryNext ==
    \/ /\ RefreshTasks
       /\ fetched' \in IF lastFetch' # lastFetch THEN [Tasks -> SUBSET Wallets]
                                              ELSE Listed
       /\ fetched' \in Reports
       /\ state' = Marked(state, fetched')
       /\ UNCHANGED log
    \/ /\ StampAndSave
       /\ Len(log) < MaxSaves
       /\ log' = Append(log, [ts |-> t, live |-> live, done |-> fetched])
       /\ fetched' = NobodyDone
    \/ /\ StartTick \/ SnapshotHolders \/ Update
       /\ UNCHANGED <<log, fetched>>
    \/ /\ World
       /\ pc = "idle"    \* later moves are seen by the next tick
       /\ UNCHANGED <<log, fetched>>
    \/ /\ FinishTick \/ AbortTick \/ Crash
       /\ fetched' = NobodyDone
       /\ UNCHANGED log

HistorySpec == HistoryInit /\ [][HistoryNext]_historyVars

-----------------------------------------------------------------------------
(* What the rules promise after the first n records of a history h *)

First(S) == CHOOSE i \in S : \A j \in S : i <= j

\* Records i .. n show w at or above the minimum and never decreasing.
Holding(h, w, i, n) ==
    /\ \A j \in i .. n : h[j].live[w] >= MinHolding
    /\ \A j \in i + 1 .. n : h[j].live[w] >= h[j - 1].live[w]

\* Seconds between a record and the one before; a clock set back gives none.
Gaps(h) ==
    [j \in 2 .. Len(h) |->
        IF h[j].ts > h[j - 1].ts THEN h[j].ts - h[j - 1].ts ELSE 0]

\* Held seconds of w after record n: the seconds since the start of its longest
\* holding that ends at n, none if it is not holding.
HoldStarts(h, w, n) == {i \in 1 .. n : Holding(h, w, i, n)}
HeldByRules(h, w, n) ==
    LET starts == HoldStarts(h, w, n) IN
    IF starts = {} THEN 0 ELSE SumFunctionOnSet(Gaps(h), First(starts) + 1 .. n)

\* w is tracked from the first record that shows it at or above the minimum.
TrackedBy(h, w, n) == \E i \in 1 .. n : h[i].live[w] >= MinHolding

\* w has done task k by record n: some report of a tick that tracked w had it.
DoneBy(h, w, k, n) == \E i \in 1 .. n : TrackedBy(h, w, i) /\ w \in h[i].done[k]

Lvl3At(h, w, n) == HeldByRules(h, w, n) > 0 /\ \A k \in Tasks : DoneBy(h, w, k, n)

\* Time stamp of the first record of the level-3 run that ends at n.
Lvl3Starts(h, w, n) == {i \in 1 .. n : \A j \in i .. n : Lvl3At(h, w, j)}
Lvl3SinceByRules(h, w, n) ==
    LET starts == Lvl3Starts(h, w, n) IN
    IF starts = {} THEN NoStamp ELSE h[First(starts)].ts

\* The file holds exactly the wallets the rules track, with the held seconds
\* and flags the rules give them, whatever was sold, bought back, skipped,
\* aborted or crashed between the saves.
FileMatchesHistory ==
    \A w \in Wallets :
        LET n == Len(log) IN
        /\ disk[w] # Absent <=> TrackedBy(log, w, n)
        /\ disk[w] # Absent =>
              /\ disk[w].held_seconds = HeldByRules(log, w, n)
              /\ disk[w].tasks = {k \in Tasks : DoneBy(log, w, k, n)}

\* The level-3 stamp of the file is the time the wallet's current, unbroken
\* stretch at level 3 was first saved.
StampMatchesHistory ==
    \A w \in Known(disk) : disk[w].lvl3_since = Lvl3SinceByRules(log, w, Len(log))

-----------------------------------------------------------------------------
(* The inductive invariant: the file, its last check included, against the *)
(* history, and the state in memory against the file it was loaded from.   *)

Records == [ts : Nat, live : Balances, done : [Tasks -> SUBSET Wallets]]

HistoryInv ==
    /\ log \in Seq(Records) /\ fetched \in [Tasks -> SUBSET Wallets]
    /\ FileMatchesHistory
    /\ StampMatchesHistory
    /\ \A w \in Known(disk) :
          /\ disk[w].last_balance = log[Len(log)].live[w]
          /\ disk[w].last_check_ts = log[Len(log)].ts
    /\ pc = "refresh" => state = Updated(disk, live, t)
    /\ pc = "stamp" => state = Marked(Updated(disk, live, t), fetched)
=============================================================================

------------------------ MODULE LoyaltyTrackerProofs ------------------------
(***************************************************************************)
(* LoyaltyTracker for every set of wallets, every minimum holding and any  *)
(* length of run.  The facts about one entry come first, then what each    *)
(* operator on the whole file does, then the inductive invariant and what  *)
(* follows from it; last, that the tracker implements HoldClock.           *)
(***************************************************************************)
EXTENDS LoyaltyTracker, TLAPS

-----------------------------------------------------------------------------
(* One entry *)

\* How far one clock is ahead of another, when either of them moves.
LEMMA AheadFacts ==
    ASSUME NEW a \in Nat, NEW x \in Nat, NEW y \in Nat
    PROVE  /\ Ahead(a, x) \in Nat
           /\ Ahead(a, a) = 0
           /\ y >= x => Ahead(a, y) <= Ahead(a, x)
           /\ y = x - 1 => Ahead(a, y) <= Ahead(a, x) + 1
           /\ Ahead(a, y) <= Ahead(a, x) + Ahead(x, y)
BY DEF Ahead

\* A check of a known wallet yields an entry again (held_seconds stays >= 0).
LEMMA CheckedType ==
    ASSUME NEW e \in Entry, NEW a \in Nat, NEW ts \in Nat
    PROVE  Checked(e, a, ts) \in Entry
<1>1. e.held_seconds + Elapsed(e, ts) \in Nat
    BY DEF Entry, Elapsed
<1>2. Accrued(e, a, ts) \in Entry
    BY <1>1 DEF Entry, Accrued
<1>3. Restarted(e, a, ts) \in Entry
    BY DEF Entry, Restarted
<1> QED
    BY <1>2, <1>3 DEF Checked

\* Stamping level 3 keeps the type of an entry.
LEMMA StampedType ==
    ASSUME NEW e \in Entry, NEW ts \in Nat
    PROVE  StampedEntry(e, ts) \in Entry
BY DEF Entry, StampedEntry, NoStamp

\* A check moves the last check to its clock, keeps flags and stamp, and its
\* credit exceeds the span only by what its clock lies behind the last one.
LEMMA CheckedCredit ==
    ASSUME NEW e \in Entry, NEW a \in Nat, NEW ts \in Nat, Excess(e) >= 0
    PROVE  /\ Checked(e, a, ts).last_check_ts = ts
           /\ Checked(e, a, ts).last_balance = a
           /\ Checked(e, a, ts).tasks = e.tasks
           /\ Checked(e, a, ts).lvl3_since = e.lvl3_since
           /\ Excess(Checked(e, a, ts)) >= 0
           /\ Excess(Checked(e, a, ts)) <= Excess(e) + Ahead(e.last_check_ts, ts)
BY DEF Entry, Checked, Restarted, Accrued, Elapsed, Excess, Ahead

\* Credit only for a balance at the minimum, and lost only by a drop.
LEMMA CheckedHolding ==
    ASSUME NEW e \in Entry, NEW a \in Nat, NEW ts \in Nat,
           e.held_seconds > 0 => e.last_balance >= MinHolding
    PROVE  /\ Checked(e, a, ts).held_seconds > 0 => a >= MinHolding
           /\ Checked(e, a, ts).held_seconds < e.held_seconds
                 => a < e.last_balance \/ a < MinHolding
BY ConstantsAssumption
   DEF Entry, Checked, Restarted, Accrued, Elapsed, Dropped, WasOut

\* A sound stamp stays sound over a check unless the check restarts the entry.
LEMMA CheckedStamp ==
    ASSUME NEW e \in Entry, NEW a \in Nat, NEW ts \in Nat,
           e.lvl3_since # NoStamp,
           ContinuousSince(e, e.last_check_ts),
           Eligible(Checked(e, a, ts))
    PROVE  ContinuousSince(Checked(e, a, ts), ts)
BY ConstantsAssumption
   DEF Entry, Checked, Restarted, Accrued, Elapsed, Eligible, IsLvl3,
       ContinuousSince, Dropped, WasOut, NoStamp

\* After stamping, a stamp means level 3 held continuously since.
LEMMA StampedStamp ==
    ASSUME NEW e \in Entry, NEW ts \in Nat,
           e.lvl3_since # NoStamp /\ Eligible(e) => ContinuousSince(e, ts),
           StampedEntry(e, ts).lvl3_since # NoStamp
    PROVE  ContinuousSince(StampedEntry(e, ts), ts)
BY DEF Entry, StampedEntry, ContinuousSince, IsLvl3, Eligible, NoStamp

-----------------------------------------------------------------------------
(* The whole file *)

\* update() of a file of the right type, for any snapshot and clock.
LEMMA UpdatedType ==
    ASSUME NEW s \in States, NEW b \in Balances, NEW ts \in Nat
    PROVE  Updated(s, b, ts) \in States
<1> SUFFICES ASSUME NEW w \in Wallets
             PROVE  Updated(s, b, ts)[w] \in Entry \cup {Absent}
    BY DEF Updated, States
<1>1. b[w] \in Nat
    BY DEF Balances
<1>2. CASE s[w] # Absent
    <2>1. s[w] \in Entry
        BY <1>2 DEF States
    <2> QED
        BY <1>1, <1>2, <2>1, CheckedType DEF Updated
<1>3. CASE s[w] = Absent
    <2>1. Seeded(b[w], ts) \in Entry
        BY <1>1 DEF Seeded, Entry
    <2> QED
        BY <1>3, <2>1 DEF Updated
<1> QED
    BY <1>2, <1>3

\* Every wallet known before an update is checked by it, every other one that
\* is known after it has just been seeded.
LEMMA UpdatedKnown ==
    ASSUME NEW s \in States, NEW b \in Balances, NEW ts \in Nat, NEW w \in Wallets
    PROVE  /\ s[w] # Absent => /\ s[w] \in Entry
                               /\ Updated(s, b, ts)[w] = Checked(s[w], b[w], ts)
                               /\ Updated(s, b, ts)[w] # Absent
           /\ s[w] = Absent /\ Updated(s, b, ts)[w] # Absent
                => Updated(s, b, ts)[w] = Seeded(b[w], ts)
<1>1. b[w] \in Nat
    BY DEF Balances
<1>2. s[w] # Absent => s[w] \in Entry
    BY DEF States
<1>3. s[w] # Absent => Checked(s[w], b[w], ts) # Absent
    BY <1>1, <1>2, CheckedType, AbsentAssumption
<1> QED
    BY <1>1, <1>2, <1>3 DEF Updated

\* apply_task() and stamp_lvl3() neither add nor remove a wallet.
LEMMA MarkedFacts ==
    ASSUME NEW s \in States, NEW done
    PROVE  /\ Marked(s, done) \in States
           /\ \A w \in Wallets :
                 /\ Marked(s, done)[w] # Absent <=> s[w] # Absent
                 /\ s[w] # Absent =>
                       /\ s[w] \in Entry
                       /\ Marked(s, done)[w] =
                             [s[w] EXCEPT !.tasks = @ \cup {k \in Tasks : w \in done[k]}]
<1>1. ASSUME NEW v \in Wallets, s[v] # Absent
      PROVE  /\ s[v] \in Entry
             /\ [s[v] EXCEPT !.tasks = @ \cup {k \in Tasks : v \in done[k]}] \in Entry
    <2>1. s[v] \in Entry
        BY <1>1 DEF States
    <2> QED
        BY <2>1 DEF Entry
<1> QED
    BY <1>1, AbsentAssumption DEF Marked, States

LEMMA StampedFacts ==
    ASSUME NEW s \in States, NEW ts \in Nat
    PROVE  /\ Stamped(s, ts) \in States
           /\ \A w \in Wallets :
                 /\ Stamped(s, ts)[w] # Absent <=> s[w] # Absent
                 /\ s[w] # Absent => /\ s[w] \in Entry
                                     /\ Stamped(s, ts)[w] = StampedEntry(s[w], ts)
<1>1. ASSUME NEW v \in Wallets, s[v] # Absent
      PROVE  s[v] \in Entry /\ StampedEntry(s[v], ts) \in Entry
    BY <1>1, StampedType DEF States
<1> QED
    BY <1>1, AbsentAssumption DEF Stamped, States

-----------------------------------------------------------------------------
(* The inductive invariant *)

LEMMA InitInv == Init => IInv
<1> SUFFICES ASSUME Init PROVE IInv
    OBVIOUS
<1>1. TypeOK
    <2>1. balance \in Balances
        BY ConstantsAssumption DEF Init, Balances
    <2>2. disk \in States /\ state \in States
        BY DEF Init, States, NoState
    <2>3. live \in Balances /\ truth \in Balances
        BY DEF Init, Nobody, Balances
    <2>4. lastFetch \in Int
        BY ConstantsAssumption DEF Init, NeverFetched
    <2> QED
        BY <2>1, <2>2, <2>3, <2>4 DEF Init, TypeOK, Steps
<1>2. Known(disk) = {}
    BY DEF Init, Known, NoState
<1> QED
    BY <1>1, <1>2 DEF Init, IInv, DiskInv, StateInv, SuccessorInv, Ahead

\* The environment touches neither the file nor the tick; a second that passes
\* shortens every overrun, one set back lengthens it by one.
LEMMA WorldInv == IInv /\ World => IInv'
<1> SUFFICES ASSUME IInv, World PROVE IInv'
    OBVIOUS
<1>1. TypeOK'
    BY ConstantsAssumption
    DEF IInv, TypeOK, World, AdvanceClock, SetClockBack, Trade, memory, Balances
<1>2. /\ UNCHANGED <<disk, pc, t, live, state, truth>>
      /\ now' \in Nat
      /\ stepsBack' \in Nat
      /\ \/ now' >= now /\ stepsBack' = stepsBack
         \/ now' = now - 1 /\ stepsBack' = stepsBack + 1
    <2>1. CASE AdvanceClock
        BY <2>1 DEF IInv, TypeOK, AdvanceClock, memory
    <2>2. CASE SetClockBack
        BY <2>2 DEF IInv, TypeOK, SetClockBack, memory
    <2>3. CASE \E w \in Wallets : Trade(w)
        BY <2>3 DEF IInv, TypeOK, Trade, memory
    <2> QED
        BY <2>1, <2>2, <2>3 DEF World
<1>3. ASSUME NEW a \in Nat, NEW c \in Nat, c + Ahead(a, now) <= stepsBack
      PROVE  c + Ahead(a, now') <= stepsBack'
    <2>1. /\ now \in Nat
          /\ stepsBack \in Nat
        BY DEF IInv, TypeOK
    <2>2. /\ Ahead(a, now) \in Nat
          /\ Ahead(a, now') \in Nat
          /\ now' >= now => Ahead(a, now') <= Ahead(a, now)
          /\ now' = now - 1 => Ahead(a, now') <= Ahead(a, now) + 1
        BY <1>2, <2>1, AheadFacts
    <2> QED
        BY <1>2, <1>3, <2>1, <2>2
<1>4. Ahead(t, now') <= stepsBack'
    <2>1. /\ t \in Nat
          /\ now \in Nat
          /\ 0 + Ahead(t, now) <= stepsBack
        BY AheadFacts DEF IInv, TypeOK
    <2>2. 0 + Ahead(t, now') <= stepsBack'
        BY <1>3, <2>1
    <2> QED
        BY <1>2, <2>1, <2>2, AheadFacts
<1>5. DiskInv'
    <2> SUFFICES ASSUME NEW w \in Known(disk)
                 PROVE  Excess(disk[w]) + Overrun(disk[w])' <= stepsBack'
        BY <1>2 DEF DiskInv, IInv, Known, Overrun
    <2>1. disk[w] \in Entry
        BY DEF Known, IInv, TypeOK, States
    <2>2. /\ t \in Nat
          /\ disk[w].last_check_ts \in Nat
          /\ Excess(disk[w]) \in Nat
          /\ Excess(disk[w]) + Overrun(disk[w]) <= stepsBack
        BY <2>1 DEF IInv, TypeOK, DiskInv, Excess, Entry
    <2>3. CASE pc = "idle"
        BY <1>2, <1>3, <2>2, <2>3 DEF Overrun
    <2>4. CASE pc # "idle"
        <3> DEFINE over == Ahead(disk[w].last_check_ts, t)
        <3>1. /\ over \in Nat
              /\ Ahead(t, now) \in Nat
              /\ Ahead(t, now') \in Nat
            BY <1>2, <2>2, AheadFacts DEF IInv, TypeOK
        <3>2. (Excess(disk[w]) + over) + Ahead(t, now) <= stepsBack
            BY <2>2, <2>4, <3>1 DEF Overrun
        <3>3. (Excess(disk[w]) + over) + Ahead(t, now') <= stepsBack'
            BY <1>3, <2>2, <3>1, <3>2
        <3> QED
            BY <1>2, <2>2, <2>4, <3>1, <3>3 DEF Overrun
    <2> QED
        BY <2>3, <2>4
<1>6. StateInv'
    <2> SUFFICES ASSUME pc \in {"refresh", "stamp", "pay"}, NEW w \in Known(state)
                 PROVE  Excess(state[w]) + Ahead(t, now') <= stepsBack'
        BY <1>2 DEF StateInv, IInv, Known
    <2>1. state[w] \in Entry
        BY DEF Known, IInv, TypeOK, States
    <2>2. /\ t \in Nat
          /\ Excess(state[w]) \in Nat
          /\ Excess(state[w]) + Ahead(t, now) <= stepsBack
        BY <2>1 DEF IInv, TypeOK, StateInv, Excess, Entry
    <2> QED
        BY <1>3, <2>2
<1>7. SuccessorInv'
    BY <1>2 DEF SuccessorInv, IInv, Known, DropSeen
<1> QED
    BY <1>1, <1>2, <1>4, <1>5, <1>6, <1>7 DEF IInv

\* A tick that ends, fails or dies leaves the file and drops the rest.
LEMMA ForgetInv ==
    ASSUME IInv, Forget, UNCHANGED <<now, balance, disk, stepsBack>>,
           lastFetch' \in Int
    PROVE  IInv'
<1>1. TypeOK'
    BY DEF Forget, IInv, TypeOK, Steps, Nobody, NoState, Balances, States
<1>2. DiskInv'
    <2> SUFFICES ASSUME NEW w \in Known(disk)
                 PROVE  Excess(disk[w]) + Ahead(disk[w].last_check_ts, now) <= stepsBack
        BY DEF Forget, DiskInv, IInv, Known, Overrun
    <2>1. disk[w] \in Entry
        BY DEF Known, IInv, TypeOK, States
    <2> QED
        BY <2>1 DEF IInv, TypeOK, DiskInv, Overrun, Ahead, Excess, Entry
<1> QED
    BY <1>1, <1>2
    DEF Forget, IInv, StateInv, SuccessorInv, TypeOK, Ahead

\* The tick reads its clock once; nothing else happens.
LEMMA StartTickInv == IInv /\ StartTick => IInv'
<1> SUFFICES ASSUME IInv, StartTick PROVE IInv'
    OBVIOUS
<1>1. TypeOK'
    BY DEF IInv, TypeOK, StartTick, Steps
<1>2. DiskInv'
    <2>1. ASSUME NEW w \in Known(disk)
          PROVE  Excess(disk[w]) + Overrun(disk[w])' <= stepsBack
        <3>1. disk[w] \in Entry
            BY DEF Known, IInv, TypeOK, States
        <3>2. /\ disk[w].last_check_ts \in Nat
              /\ now \in Nat
              /\ Excess(disk[w]) \in Nat
              /\ Excess(disk[w]) + Ahead(disk[w].last_check_ts, now) <= stepsBack
            BY <3>1 DEF StartTick, IInv, TypeOK, DiskInv, Overrun, Excess, Entry
        <3>3. Overrun(disk[w])' = Ahead(disk[w].last_check_ts, now) + Ahead(now, now)
            BY DEF StartTick, Overrun
        <3>4. Ahead(disk[w].last_check_ts, now) \in Nat /\ Ahead(now, now) = 0
            BY <3>2, AheadFacts
        <3> QED
            BY <3>2, <3>3, <3>4
    <2> QED
        BY <2>1 DEF StartTick, DiskInv, IInv, Known
<1> QED
    BY <1>1, <1>2 DEF StartTick, IInv, StateInv, SuccessorInv, Ahead, TypeOK

LEMMA SnapshotInv == IInv /\ SnapshotHolders => IInv'
<1> SUFFICES ASSUME IInv, SnapshotHolders PROVE IInv'
    OBVIOUS
<1>1. TypeOK'
    BY DEF IInv, TypeOK, SnapshotHolders, Steps, Balances
<1>2. DiskInv'
    BY DEF SnapshotHolders, IInv, DiskInv, Overrun, Known
<1>3. pc' = "update" /\ ~Malformed => live' = truth'
    BY DEF SnapshotHolders, IInv, TypeOK, Balances
<1> QED
    BY <1>1, <1>2, <1>3 DEF SnapshotHolders, IInv, StateInv, SuccessorInv

\* update(): every entry in memory is checked at the tick's clock, or new.
LEMMA UpdateInv == IInv /\ Update => IInv'
<1> SUFFICES ASSUME IInv, Update PROVE IInv'
    OBVIOUS
<1>1. TypeOK'
    BY UpdatedType DEF IInv, TypeOK, Update, Steps
<1>2. DiskInv'
    BY DEF Update, IInv, DiskInv, Overrun, Known
<1>3. ASSUME NEW w \in Wallets
      PROVE  /\ disk[w] # Absent => /\ disk[w] \in Entry
                                    /\ state'[w] = Checked(disk[w], live[w], t)
                                    /\ state'[w] # Absent
             /\ disk[w] = Absent /\ state'[w] # Absent
                  => state'[w] = Seeded(live[w], t)
    BY UpdatedKnown DEF Update, IInv, TypeOK
<1>4. t \in Nat /\ now \in Nat /\ stepsBack \in Nat /\ live \in Balances
    BY DEF IInv, TypeOK
<1>5. StateInv'
    <2> SUFFICES ASSUME NEW w \in Wallets, state'[w] # Absent
                 PROVE  /\ state'[w].last_check_ts = t
                        /\ Excess(state'[w]) >= 0
                        /\ Excess(state'[w]) + Ahead(t, now) <= stepsBack
                        /\ state'[w].held_seconds > 0
                              => state'[w].last_balance >= MinHolding
                        /\ state'[w].lvl3_since # NoStamp /\ Eligible(state'[w])
                              => ContinuousSince(state'[w], t)
        BY DEF Update, StateInv, Known
    <2>1. live[w] \in Nat
        BY <1>4 DEF Balances
    <2>2. CASE disk[w] = Absent
        <3>1. state'[w] = Seeded(live[w], t)
            BY <1>3, <2>2
        <3>2. Ahead(t, now) <= stepsBack
            BY DEF IInv
        <3> QED
            BY <1>4, <2>1, <3>1, <3>2, AheadFacts DEF Seeded, Excess, NoStamp
    <2>3. CASE disk[w] # Absent
        <3> DEFINE e == disk[w]
        <3>1. /\ e \in Entry
              /\ state'[w] = Checked(e, live[w], t)
              /\ w \in Known(disk)
            BY <1>3, <2>3 DEF Known
        <3>2. /\ Excess(e) >= 0
              /\ Excess(e) + (Ahead(e.last_check_ts, t) + Ahead(t, now)) <= stepsBack
              /\ e.held_seconds > 0 => e.last_balance >= MinHolding
              /\ e.lvl3_since # NoStamp => ContinuousSince(e, e.last_check_ts)
            BY <3>1 DEF IInv, DiskInv, Update, Overrun
        <3> DEFINE c == Checked(e, live[w], t)
        <3>3. /\ c \in Entry
              /\ c.last_check_ts = t
              /\ c.last_balance = live[w]
              /\ c.lvl3_since = e.lvl3_since
              /\ Excess(c) >= 0
              /\ Excess(c) <= Excess(e) + Ahead(e.last_check_ts, t)
            <4>1. Excess(e) >= 0
                BY <3>2
            <4>2. c \in Entry
                BY <1>4, <2>1, <3>1, CheckedType
            <4> HIDE DEF e
            <4> QED
                BY <1>4, <2>1, <3>1, <4>1, <4>2, CheckedCredit
        <3>4. Excess(c) + Ahead(t, now) <= stepsBack
            <4>1. e.last_check_ts \in Nat
                BY <3>1 DEF Entry
            <4>2. /\ Ahead(e.last_check_ts, t) \in Nat
                  /\ Ahead(t, now) \in Nat
                BY <1>4, <4>1, AheadFacts
            <4>3. Excess(e) \in Int
                BY <3>1 DEF Entry, Excess
            <4>4. Excess(c) \in Int
                BY <3>3 DEF Entry, Excess
            <4> QED
                BY <1>4, <3>2, <3>3, <4>2, <4>3, <4>4
        <3>5. c.held_seconds > 0 => c.last_balance >= MinHolding
            BY <1>4, <2>1, <3>1, <3>2, <3>3, CheckedHolding
        <3>6. c.lvl3_since # NoStamp /\ Eligible(c) => ContinuousSince(c, t)
            BY <1>4, <2>1, <3>1, <3>2, <3>3, CheckedStamp
        <3> HIDE DEF c
        <3>7. state'[w] = c
            BY <3>1 DEF c
        <3> QED
            BY <3>3, <3>4, <3>5, <3>6, <3>7
    <2> QED
        BY <2>2, <2>3
<1>6. SuccessorInv'
    <2> SUFFICES ASSUME NEW w \in Known(disk)
                 PROVE  /\ state'[w] # Absent
                        /\ disk[w].tasks \subseteq state'[w].tasks
                        /\ ~Malformed /\ state'[w].held_seconds < disk[w].held_seconds
                              => DropSeen(w)
        BY DEF Update, SuccessorInv, Known, DropSeen
    <2>1. /\ disk[w] \in Entry
          /\ w \in Wallets
          /\ live[w] \in Nat
          /\ state'[w] = Checked(disk[w], live[w], t)
          /\ state'[w] # Absent
        BY <1>3, <1>4 DEF Known, Balances
    <2>2. /\ Excess(disk[w]) >= 0
          /\ disk[w].held_seconds > 0 => disk[w].last_balance >= MinHolding
        BY DEF IInv, DiskInv
    <2>3. /\ state'[w].tasks = disk[w].tasks
          /\ state'[w].held_seconds < disk[w].held_seconds
                => live[w] < disk[w].last_balance \/ live[w] < MinHolding
        BY <1>4, <2>1, <2>2, CheckedCredit, CheckedHolding
    <2>4. ~Malformed => live = truth
        BY DEF IInv, Update
    <2> QED
        BY <2>1, <2>3, <2>4 DEF DropSeen
<1> QED
    BY <1>1, <1>2, <1>5, <1>6 DEF Update, IInv, Ahead

\* _refresh_tasks() changes nothing but flags, and only adds them.
LEMMA RefreshInv == IInv /\ RefreshTasks => IInv'
<1> SUFFICES ASSUME IInv, RefreshTasks PROVE IInv'
    OBVIOUS
<1>1. PICK done : state' = Marked(state, done)
    BY DEF RefreshTasks
<1>2. state \in States
    BY DEF IInv, TypeOK
<1>3. TypeOK'
    <2>1. state' \in States
        BY <1>1, <1>2, MarkedFacts DEF States
    <2>2. lastFetch' \in Int
        BY DEF RefreshTasks, IInv, TypeOK
    <2> QED
        BY <2>1, <2>2 DEF RefreshTasks, IInv, TypeOK, Steps
<1>4. DiskInv'
    BY DEF RefreshTasks, IInv, DiskInv, Overrun, Known
<1>5. ASSUME NEW w \in Wallets
      PROVE  /\ state'[w] # Absent <=> state[w] # Absent
             /\ state[w] # Absent =>
                   /\ state[w].tasks \subseteq state'[w].tasks
                   /\ state'[w].tasks \subseteq Tasks
                   /\ state'[w].last_check_ts = state[w].last_check_ts
                   /\ state'[w].last_balance = state[w].last_balance
                   /\ state'[w].held_seconds = state[w].held_seconds
                   /\ state'[w].first_seen_ts = state[w].first_seen_ts
                   /\ state'[w].lvl3_since = state[w].lvl3_since
    <2>0. /\ Marked(state, done)[w] # Absent <=> state[w] # Absent
          /\ state[w] # Absent =>
                /\ state[w] \in Entry
                /\ Marked(state, done)[w] =
                      [state[w] EXCEPT !.tasks =
                          @ \cup {k \in Tasks : w \in done[k]}]
        BY <1>2, MarkedFacts
    <2>1. state'[w] # Absent <=> state[w] # Absent
        BY <1>1, <2>0
    <2>2. ASSUME state[w] # Absent
          PROVE  /\ state[w] \in Entry
                 /\ state'[w] = [state[w] EXCEPT !.tasks =
                                   @ \cup {k \in Tasks : w \in done[k]}]
        BY <1>1, <2>0, <2>2
    <2> QED
        BY <2>1, <2>2 DEF Entry
<1>6. StateInv'
    <2> SUFFICES ASSUME NEW w \in Wallets, state'[w] # Absent
                 PROVE  /\ state'[w].last_check_ts = t
                        /\ Excess(state'[w]) >= 0
                        /\ Excess(state'[w]) + Ahead(t, now) <= stepsBack
                        /\ state'[w].held_seconds > 0
                              => state'[w].last_balance >= MinHolding
                        /\ state'[w].lvl3_since # NoStamp /\ Eligible(state'[w])
                              => ContinuousSince(state'[w], t)
        BY DEF RefreshTasks, StateInv, Known
    <2>1. w \in Known(state)
        BY <1>5 DEF Known
    <2>2. /\ state[w].last_check_ts = t
          /\ Excess(state[w]) >= 0
          /\ Excess(state[w]) + Ahead(t, now) <= stepsBack
          /\ state[w].held_seconds > 0 => state[w].last_balance >= MinHolding
          /\ state[w].lvl3_since # NoStamp /\ Eligible(state[w])
                => ContinuousSince(state[w], t)
        BY <2>1 DEF IInv, StateInv, RefreshTasks
    <2> QED
        BY <1>5, <2>1, <2>2 DEF Known, Excess, Eligible, ContinuousSince, IsLvl3
<1>7. SuccessorInv'
    BY <1>5 DEF RefreshTasks, IInv, SuccessorInv, Known, DropSeen
<1> QED
    BY <1>3, <1>4, <1>6, <1>7 DEF RefreshTasks, IInv

\* stamp_lvl3() and save_state(): what memory promises, the file now holds.
LEMMA StampAndSaveInv == IInv /\ StampAndSave => IInv'
<1> SUFFICES ASSUME IInv, StampAndSave PROVE IInv'
    OBVIOUS
<1>1. /\ state \in States
      /\ t \in Nat
      /\ now \in Nat
      /\ stepsBack \in Nat
      /\ state' = Stamped(state, t)
      /\ disk' = state'
    BY DEF IInv, TypeOK, StampAndSave
<1>2. TypeOK'
    BY <1>1, StampedFacts DEF IInv, TypeOK, StampAndSave, Steps, States
<1>3. ASSUME NEW w \in Wallets, state'[w] # Absent
      PROVE  /\ state'[w].last_check_ts = t
             /\ Excess(state'[w]) \in Int
             /\ Excess(state'[w]) >= 0
             /\ Excess(state'[w]) + Ahead(t, now) <= stepsBack
             /\ state'[w].held_seconds > 0 => state'[w].last_balance >= MinHolding
             /\ state'[w].lvl3_since # NoStamp => ContinuousSince(state'[w], t)
    <2>1. /\ w \in Known(state)
          /\ state[w] \in Entry
          /\ state'[w] = StampedEntry(state[w], t)
        BY <1>1, <1>3, StampedFacts DEF Known
    <2>2. /\ state[w].last_check_ts = t
          /\ Excess(state[w]) >= 0
          /\ Excess(state[w]) + Ahead(t, now) <= stepsBack
          /\ state[w].held_seconds > 0 => state[w].last_balance >= MinHolding
          /\ state[w].lvl3_since # NoStamp /\ Eligible(state[w])
                => ContinuousSince(state[w], t)
        BY <2>1 DEF IInv, StateInv, StampAndSave
    <2>3. /\ state'[w].last_check_ts = state[w].last_check_ts
          /\ state'[w].last_balance = state[w].last_balance
          /\ state'[w].held_seconds = state[w].held_seconds
          /\ Excess(state'[w]) = Excess(state[w])
          /\ Excess(state[w]) \in Int
        BY <2>1 DEF StampedEntry, Entry, Excess
    <2>4. state'[w].lvl3_since # NoStamp => ContinuousSince(state'[w], t)
        BY <1>1, <2>1, <2>2, StampedStamp
    <2> QED
        BY <2>2, <2>3, <2>4
<1>4. DiskInv'
    <2> SUFFICES ASSUME NEW w \in Wallets, state'[w] # Absent
                 PROVE  Excess(state'[w]) + (Ahead(t, t) + Ahead(t, now)) <= stepsBack
        BY <1>1, <1>3 DEF StampAndSave, DiskInv, Known, Overrun
    <2>1. Ahead(t, t) = 0 /\ Ahead(t, now) \in Nat
        BY <1>1, AheadFacts
    <2> QED
        BY <1>1, <1>3, <2>1
<1>5. StateInv'
    BY <1>3 DEF StampAndSave, StateInv, Known
<1> QED
    BY <1>1, <1>2, <1>4, <1>5 DEF StampAndSave, IInv, SuccessorInv

\* The invariant is inductive.
LEMMA NextInv == IInv /\ [Next]_vars => IInv'
<1> SUFFICES ASSUME IInv, [Next]_vars PROVE IInv'
    OBVIOUS
<1>1. CASE World
    BY <1>1, WorldInv
<1>2. CASE StartTick
    BY <1>2, StartTickInv
<1>3. CASE SnapshotHolders
    BY <1>3, SnapshotInv
<1>4. CASE Update
    BY <1>4, UpdateInv
<1>5. CASE RefreshTasks
    BY <1>5, RefreshInv
<1>6. CASE StampAndSave
    BY <1>6, StampAndSaveInv
<1>7. CASE FinishTick \/ AbortTick
    BY <1>7, ForgetInv DEF FinishTick, AbortTick, IInv, TypeOK
<1>8. CASE Crash
    BY <1>8, ForgetInv, ConstantsAssumption DEF Crash, NeverFetched
<1>9. CASE UNCHANGED vars
    <2>1. UNCHANGED <<now, balance, disk, pc, t, live, state, lastFetch, truth,
                      stepsBack>>
        BY <1>9 DEF vars
    <2> QED
        BY <2>1 DEF IInv, TypeOK, DiskInv, StateInv, SuccessorInv, Overrun,
                    Known, DropSeen
<1> QED
    BY <1>1, <1>2, <1>3, <1>4, <1>5, <1>6, <1>7, <1>8, <1>9 DEF Next, Bot

-----------------------------------------------------------------------------
(* Theorems *)

LEMMA InvAlways == Spec => []IInv
BY InitInv, NextInv, PTL DEF Spec

\* No run of the tracker leaves the types of its variables; held_seconds stays
\* a natural number whatever the clock does.
THEOREM TypeCorrect == Spec => []TypeOK
<1>1. IInv => TypeOK
    BY DEF IInv
<1> QED
    BY <1>1, InvAlways, PTL

\* The file never credits more than the length of the holding plus the seconds
\* the clock was set back (update()'s accrual over skips and crashes).
THEOREM CreditBounded == Spec => []CreditWithinHolding
<1>1. IInv => CreditWithinHolding
    <2> SUFFICES ASSUME IInv, NEW w \in Known(disk)
                 PROVE  Excess(disk[w]) <= stepsBack
        BY DEF CreditWithinHolding
    <2>1. /\ disk[w] \in Entry
          /\ Excess(disk[w]) + Overrun(disk[w]) <= stepsBack
          /\ now \in Nat /\ t \in Nat /\ stepsBack \in Nat
        BY DEF IInv, TypeOK, DiskInv, Known, States
    <2>2. /\ Excess(disk[w]) \in Int
          /\ disk[w].last_check_ts \in Nat
        BY <2>1 DEF Entry, Excess
    <2>3. Overrun(disk[w]) \in Nat
        BY <2>1, <2>2, AheadFacts DEF Overrun
    <2> QED
        BY <2>1, <2>2, <2>3
<1> QED
    BY <1>1, InvAlways, PTL

\* The file never credits less than the length of the holding either.
THEOREM CreditComplete == Spec => []CreditNotLost
<1>1. IInv => CreditNotLost
    BY DEF IInv, DiskInv, CreditNotLost
<1> QED
    BY <1>1, InvAlways, PTL

\* A level-3 stamp in the file always belongs to the current holding.
THEOREM Lvl3Continuous == Spec => []Lvl3ClockContinuous
<1>1. IInv => Lvl3ClockContinuous
    BY DEF IInv, DiskInv, Lvl3ClockContinuous
<1> QED
    BY <1>1, InvAlways, PTL

\* Every casino candidate has held for longer than the maturity delay, whatever
\* happened to the clock, the ticks and the process since it reached level 3.
THEOREM CandidatesMatured == Spec => []MaturedCandidates
<1>1. IInv => MaturedCandidates
    <2> SUFFICES ASSUME IInv, pc = "pay", NEW w \in CasinoCandidates(state, t)
                 PROVE  /\ disk[w] = state[w]
                        /\ state[w].held_seconds > CasinoMinLvl3
                        /\ IsLvl3(state[w])
        BY DEF MaturedCandidates
    <2>1. /\ w \in Known(state)
          /\ Eligible(state[w])
          /\ state[w].lvl3_since # NoStamp
          /\ t - state[w].lvl3_since >= CasinoMinLvl3
        BY DEF CasinoCandidates, EligibleWallets, Known
    <2>2. /\ ContinuousSince(state[w], t)
          /\ disk = state
        BY <2>1 DEF IInv, StateInv
    <2>3. state[w] \in Entry /\ t \in Nat
        BY <2>1 DEF IInv, TypeOK, States, Known
    <2>4. /\ state[w].held_seconds \in Nat
          /\ state[w].lvl3_since \in Int
        BY <2>3 DEF Entry, NoStamp
    <2> QED
        BY <2>1, <2>2, <2>3, <2>4, ConstantsAssumption DEF ContinuousSince
<1> QED
    BY <1>1, InvAlways, PTL

\* The saved file and the one it replaces: the only step that changes it.
LEMMA OnlySaveWrites ==
    IInv /\ [Next]_vars =>
        \/ UNCHANGED disk
        \/ StampAndSave /\ \A w \in Known(disk) :
              /\ state[w] \in Entry
              /\ disk'[w] = StampedEntry(state[w], t)
              /\ w \in Known(disk')
<1> SUFFICES ASSUME IInv, StampAndSave, NEW w \in Known(disk)
             PROVE  /\ state[w] \in Entry
                    /\ disk'[w] = StampedEntry(state[w], t)
                    /\ w \in Known(disk')
    BY DEF Next, Bot, World, AdvanceClock, SetClockBack, Trade, StartTick,
           SnapshotHolders, Update, RefreshTasks, FinishTick, AbortTick, Crash,
           vars
<1>1. w \in Wallets /\ state[w] # Absent
    BY DEF IInv, SuccessorInv, StampAndSave, Known
<1>2. state \in States /\ t \in Nat /\ disk' = Stamped(state, t)
    BY DEF IInv, TypeOK, StampAndSave
<1> QED
    BY <1>1, <1>2, StampedFacts DEF Known

\* No step of any run takes a wallet or a task flag out of the file.
THEOREM FlagsSticky == Spec => TasksSticky
<1>1. IInv /\ [Next]_vars => [FlagsKept]_vars
    <2> SUFFICES ASSUME IInv, [Next]_vars PROVE FlagsKept
        OBVIOUS
    <2>1. CASE UNCHANGED disk
        BY <2>1 DEF FlagsKept
    <2>2. CASE StampAndSave /\ ~UNCHANGED disk
        <3>1. ASSUME NEW w \in Known(disk)
              PROVE  /\ w \in Known(disk')
                     /\ disk[w].tasks \subseteq disk'[w].tasks
            <4>1. /\ state[w] \in Entry
                  /\ disk'[w] = StampedEntry(state[w], t)
                  /\ w \in Known(disk')
                BY <2>2, OnlySaveWrites
            <4>2. disk[w].tasks \subseteq state[w].tasks
                BY <2>2 DEF IInv, SuccessorInv, StampAndSave
            <4> QED
                BY <4>1, <4>2 DEF StampedEntry, Entry
        <3> QED
            BY <3>1 DEF FlagsKept
    <2> QED
        BY <2>1, <2>2, OnlySaveWrites
<1> QED
    BY <1>1, InvAlways, PTL DEF Spec, TasksSticky

\* While the node answers with well-formed accounts, accumulated time is lost
\* only to a real decrease or a balance below the minimum.
THEOREM ResetOnlyOnDrop == ~Malformed => (Spec => OnlyDropsReset)
<1> SUFFICES ASSUME ~Malformed PROVE Spec => OnlyDropsReset
    OBVIOUS
<1>1. IInv /\ [Next]_vars => [ResetHasCause]_vars
    <2> SUFFICES ASSUME IInv, [Next]_vars PROVE ResetHasCause
        OBVIOUS
    <2>1. CASE UNCHANGED disk
        <3>1. ASSUME NEW w \in Known(disk)
              PROVE  ~(disk[w].held_seconds < disk[w].held_seconds)
            BY DEF IInv, TypeOK, States, Known, Entry
        <3> QED
            BY <2>1, <3>1 DEF ResetHasCause
    <2>2. CASE StampAndSave /\ ~UNCHANGED disk
        <3>1. ASSUME NEW w \in Known(disk),
                     disk'[w].held_seconds < disk[w].held_seconds
              PROVE  DropSeen(w)
            <4>1. /\ state[w] \in Entry
                  /\ disk'[w] = StampedEntry(state[w], t)
                BY <2>2, OnlySaveWrites
            <4>2. disk'[w].held_seconds = state[w].held_seconds
                BY <4>1 DEF StampedEntry, Entry
            <4> QED
                BY <2>2, <3>1, <4>2 DEF IInv, SuccessorInv, StampAndSave
        <3> QED
            BY <3>1 DEF ResetHasCause
    <2> QED
        BY <2>1, <2>2, OnlySaveWrites
<1> QED
    BY <1>1, InvAlways, PTL DEF Spec, OnlyDropsReset

-----------------------------------------------------------------------------
(* LoyaltyTracker implements HoldClock: the step that saves the file is one *)
(* Check, all others stutter.                                               *)

Marks == [Tasks -> SUBSET Wallets]

\* What the tick holds in memory, as a function of the file it has loaded.
StepInv ==
    /\ pc = "refresh" => state = Updated(disk, live, t)
    /\ pc = "stamp" =>
          \E done \in Marks : state = Marked(Updated(disk, live, t), done)

LEMMA StepInit == Init => StepInv
BY DEF Init, StepInv

LEMMA StepNext == IInv /\ StepInv /\ [Next]_vars => StepInv'
<1> SUFFICES ASSUME IInv, StepInv, [Next]_vars PROVE StepInv'
    OBVIOUS
<1>1. CASE Update
    BY <1>1 DEF Update, StepInv
<1>2. CASE RefreshTasks
    <2>1. PICK listed \in Marks, feed \in Marks :
              state' = Marked(state, [k \in Tasks |-> listed[k] \cup feed[k]])
        BY <1>2 DEF RefreshTasks, Listed, Marks
    <2>2. [k \in Tasks |-> listed[k] \cup feed[k]] \in Marks
        BY DEF Marks
    <2>3. state = Updated(disk, live, t)
        BY <1>2 DEF RefreshTasks, StepInv
    <2>4. UNCHANGED <<disk, live, t>> /\ pc' = "stamp"
        BY <1>2 DEF RefreshTasks
    <2> QED
        BY <2>1, <2>2, <2>3, <2>4 DEF StepInv
<1>3. CASE World \/ UNCHANGED vars
    <2>1. UNCHANGED <<pc, state, disk, live, t>>
        BY <1>3 DEF World, AdvanceClock, SetClockBack, Trade, memory, vars
    <2> QED
        BY <2>1 DEF StepInv
<1>4. CASE StartTick \/ SnapshotHolders \/ StampAndSave \/ FinishTick
           \/ AbortTick \/ Crash
    <2>1. pc' \notin {"refresh", "stamp"}
        BY <1>4 DEF StartTick, SnapshotHolders, StampAndSave, FinishTick,
                    AbortTick, Crash, Forget
    <2> QED
        BY <2>1 DEF StepInv
<1> QED
    BY <1>1, <1>2, <1>3, <1>4 DEF Next, Bot

-----------------------------------------------------------------------------
(* One entry, checked, flagged and stamped *)

Flagged(e, m) == [e EXCEPT !.tasks = @ \cup m]

\* Checking, flagging and stamping a known wallet continues its clock.
LEMMA EntryContinues ==
    ASSUME NEW e \in Entry, NEW a \in Nat, NEW ts \in Nat, NEW m \in SUBSET Tasks,
           e.held_seconds > 0 => e.last_balance >= MinHolding
    PROVE  LET f == StampedEntry(Flagged(Checked(e, a, ts), m), ts)
           IN  /\ Clock!Continues(e, f)
               /\ f.last_check_ts = ts /\ f.last_balance = a
               /\ f.tasks = e.tasks \cup m
<1> DEFINE c == Checked(e, a, ts)
           f == StampedEntry(Flagged(c, m), ts)
<1>1. c \in Entry
    BY CheckedType
<1>2. /\ c.last_check_ts = ts /\ c.last_balance = a
      /\ c.tasks = e.tasks /\ c.lvl3_since = e.lvl3_since
    BY DEF Checked, Restarted, Accrued, Entry
<1>3. c.held_seconds > 0 => c.last_balance >= MinHolding
    BY <1>2, CheckedHolding
<1>4. IF Clock!Unbroken(e, c)
      THEN /\ c.first_seen_ts = e.first_seen_ts
           /\ c.held_seconds = e.held_seconds + Elapsed(e, ts)
      ELSE c.first_seen_ts = ts /\ c.held_seconds = 0
    BY ConstantsAssumption, <1>2
       DEF Clock!Unbroken, Checked, Restarted, Accrued, Dropped, WasOut, Entry
<1> HIDE DEF c
<1>5. /\ f.first_seen_ts = c.first_seen_ts /\ f.held_seconds = c.held_seconds
      /\ f.last_balance = a /\ f.last_check_ts = ts
      /\ f.tasks = e.tasks \cup m
    BY <1>1, <1>2 DEF Flagged, StampedEntry, Entry
<1>6. Clock!Level3(f) <=> IsLvl3(Flagged(c, m))
    BY <1>1, <1>2, <1>3, <1>5
       DEF Clock!Level3, IsLvl3, Eligible, Flagged, Entry
<1>7. f.lvl3_since = IF ~Clock!Level3(f) THEN NoStamp
                     ELSE IF e.lvl3_since = NoStamp THEN ts ELSE e.lvl3_since
    BY <1>1, <1>2, <1>6 DEF StampedEntry, Flagged, Entry
<1>8. Clock!Unbroken(e, f) <=> Clock!Unbroken(e, c)
    BY <1>2, <1>5 DEF Clock!Unbroken
<1> HIDE DEF f
<1>9. Clock!Continues(e, f)
    BY <1>4, <1>5, <1>7, <1>8 DEF Clock!Continues, Elapsed
<1> QED
    BY <1>5, <1>9 DEF c, f

\* A new wallet's clock starts, whatever flags it gets in its first tick.
LEMMA EntryStarts ==
    ASSUME NEW a \in Nat, NEW ts \in Nat, NEW m \in SUBSET Tasks, a >= MinHolding
    PROVE  LET f == StampedEntry(Flagged(Seeded(a, ts), m), ts)
           IN  /\ Clock!Starts(f)
               /\ f.last_check_ts = ts /\ f.last_balance = a /\ f.tasks = m
BY DEF Clock!Starts, Seeded, Flagged, StampedEntry, IsLvl3, Eligible

\* What update, flags and stamp together make of a wallet of the file.
LEMMA SavedEntry ==
    ASSUME NEW s \in States, NEW b \in Balances, NEW ts \in Nat, NEW done \in Marks,
           NEW w \in Wallets,
           s[w] # Absent /\ s[w].held_seconds > 0 => s[w].last_balance >= MinHolding
    PROVE  LET f == Stamped(Marked(Updated(s, b, ts), done), ts)[w]
               m == {k \in Tasks : w \in done[k]}
           IN  /\ s[w] # Absent => /\ f # Absent
                                   /\ Clock!Continues(s[w], f)
                                   /\ f.tasks = s[w].tasks \cup m
               /\ s[w] = Absent => (f # Absent <=> b[w] >= MinHolding)
               /\ s[w] = Absent /\ f # Absent => Clock!Starts(f) /\ f.tasks = m
               /\ f # Absent => f.last_check_ts = ts /\ f.last_balance = b[w]
<1> DEFINE u == Updated(s, b, ts)
           m == {k \in Tasks : w \in done[k]}
           f == Stamped(Marked(u, done), ts)[w]
           saved(e) == StampedEntry(Flagged(e, m), ts)
<1>1. u \in States /\ b[w] \in Nat /\ m \in SUBSET Tasks
    BY UpdatedType DEF Balances
<1>2. f = IF u[w] = Absent THEN Absent ELSE saved(u[w])
    <2>1. \A e : e \in Entry => Flagged(e, m) # Absent
        BY AbsentAssumption DEF Flagged, Entry
    <2>2. u[w] # Absent => u[w] \in Entry
        BY <1>1 DEF States
    <2> HIDE DEF u
    <2> QED
        BY <2>1, <2>2 DEF Stamped, Marked, Flagged
<1>3. \A e \in Entry : saved(e) # Absent
    <2>1. ASSUME NEW e \in Entry PROVE Flagged(e, m) \in Entry
        BY DEF Flagged, Entry
    <2> QED
        BY <2>1, StampedType, AbsentAssumption
<1>4. u[w] = IF s[w] # Absent THEN Checked(s[w], b[w], ts)
             ELSE IF b[w] >= MinHolding THEN Seeded(b[w], ts)
             ELSE Absent
    BY DEF Updated
<1>5. Seeded(b[w], ts) \in Entry
    BY <1>1 DEF Seeded, Entry, NoStamp
<1> HIDE DEF u, f, m, saved
<1>6. ASSUME s[w] # Absent
      PROVE  /\ f # Absent
             /\ Clock!Continues(s[w], f) /\ f.tasks = s[w].tasks \cup m
             /\ f.last_check_ts = ts /\ f.last_balance = b[w]
    <2>1. s[w] \in Entry
        BY <1>6 DEF States
    <2>2. Checked(s[w], b[w], ts) \in Entry
        BY <1>1, <2>1, CheckedType
    <2>3. f = saved(Checked(s[w], b[w], ts)) /\ f # Absent
        BY <1>2, <1>3, <1>4, <1>6, <2>2, AbsentAssumption
    <2> QED
        BY <1>1, <1>6, <2>1, <2>3, EntryContinues DEF saved
<1>7. ASSUME s[w] = Absent, b[w] >= MinHolding
      PROVE  /\ f # Absent
             /\ Clock!Starts(f) /\ f.tasks = m
             /\ f.last_check_ts = ts /\ f.last_balance = b[w]
    <2>1. f = saved(Seeded(b[w], ts)) /\ f # Absent
        BY <1>2, <1>3, <1>4, <1>5, <1>7, AbsentAssumption
    <2> QED
        BY <1>1, <1>7, <2>1, EntryStarts DEF saved
<1>8. s[w] = Absent /\ ~(b[w] >= MinHolding) => f = Absent
    BY <1>2, <1>4
<1>9. /\ s[w] # Absent => /\ f # Absent
                          /\ Clock!Continues(s[w], f)
                          /\ f.tasks = s[w].tasks \cup m
      /\ s[w] = Absent => (f # Absent <=> b[w] >= MinHolding)
      /\ s[w] = Absent /\ f # Absent => Clock!Starts(f) /\ f.tasks = m
      /\ f # Absent => f.last_check_ts = ts /\ f.last_balance = b[w]
    BY <1>6, <1>7, <1>8
<1> QED
    BY <1>9 DEF f, m, u

-----------------------------------------------------------------------------
(* The whole file *)

LEMMA SaveChecks ==
    ASSUME IInv, StepInv, StampAndSave
    PROVE  Clock!Check
<1>1. PICK done \in Marks :
          disk' = Stamped(Marked(Updated(disk, live, t), done), t)
    BY DEF StepInv, StampAndSave
<1>2. /\ disk \in States /\ live \in Balances /\ t \in Nat
      /\ \A w \in Known(disk) :
            disk[w].held_seconds > 0 => disk[w].last_balance >= MinHolding
    BY DEF IInv, TypeOK, DiskInv
<1>3. ASSUME NEW w \in Wallets
      PROVE  /\ disk[w] # Absent =>
                   disk'[w] # Absent /\ Clock!Continues(disk[w], disk'[w])
             /\ disk[w] = Absent /\ disk'[w] # Absent => Clock!Starts(disk'[w])
             /\ disk'[w] # Absent => disk'[w].last_check_ts = t
    <2>1. disk[w] # Absent /\ disk[w].held_seconds > 0
             => disk[w].last_balance >= MinHolding
        BY <1>2 DEF Known
    <2> QED
        BY <1>1, <1>2, <2>1, SavedEntry
<1>4. Clock!Running(disk) = Known(disk) /\ Clock!Running(disk') = Known(disk')
    BY DEF Clock!Running, Known
<1> QED
    BY <1>3, <1>4 DEF Clock!Check, Known

\* Whatever the tick's steps, its exceptions and the crashes of the process do,
\* the file changes by whole checks only.
THEOREM TickIsAtomic == Spec => ImplementsHoldClock
<1>1. Init => Clock!Init
    BY DEF Init, NoState, Clock!Init
<1>2. IInv /\ StepInv /\ [Next]_vars => [Clock!Check]_disk
    BY OnlySaveWrites, SaveChecks
<1>3. Spec => []StepInv
    BY StepInit, StepNext, InvAlways, PTL DEF Spec
<1> QED
    BY <1>1, <1>2, <1>3, InvAlways, PTL DEF Spec, ImplementsHoldClock, Clock!Spec
=============================================================================

------------------------ MODULE LoyaltyHistoryProofs ------------------------
(***************************************************************************)
(* The file of LoyaltyTracker is the fold of its history: for any wallets, *)
(* any minimum and a history of any length.  First how the rules at record *)
(* n follow from the rules at record n - 1, then that a save makes exactly *)
(* that step.                                                              *)
(***************************************************************************)
EXTENDS LoyaltyHistory, LoyaltyTrackerProofs, SumLemmas

-----------------------------------------------------------------------------
(* The first of a set of numbers *)

LEMMA FirstExists ==
    ASSUME NEW S \in SUBSET Nat, S # {}
    PROVE  First(S) \in S /\ \A j \in S : First(S) <= j
<1> DEFINE P == {n \in Nat : (\E i \in S : i <= n) =>
                                \E i \in S : \A j \in S : i <= j}
<1>1. 0 \in P
    <2>1. ASSUME NEW i \in S, i <= 0 PROVE \A j \in S : i <= j
        BY <2>1
    <2> QED
        BY <2>1
<1>2. ASSUME NEW n \in P PROVE n + 1 \in P
    <2>1. n \in Nat
        OBVIOUS
    <2>2. ASSUME NEW i \in S, i <= n + 1, ~ \E k \in S : k <= n
          PROVE  \A j \in S : i <= j
        <3> SUFFICES ASSUME NEW j \in S PROVE i <= j
            OBVIOUS
        <3>1. ~(j <= n) /\ j \in Nat /\ i \in Nat
            BY <2>2
        <3> QED
            BY <2>1, <2>2, <3>1
    <2> QED
        BY <2>1, <2>2
<1> HIDE DEF P
<1>3. \A n \in Nat : n \in P
    BY <1>1, <1>2, NumberInduction
<1>4. PICK m \in S : TRUE
    OBVIOUS
<1>5. \E i \in S : \A j \in S : i <= j
    <2>1. m \in P
        BY <1>3
    <2> QED
        BY <2>1 DEF P
<1> QED
    BY <1>5 DEF First

LEMMA FirstIs ==
    ASSUME NEW S \in SUBSET Nat, NEW m \in S, \A j \in S : m <= j
    PROVE  First(S) = m
<1>1. First(S) \in S /\ First(S) <= m
    BY FirstExists
<1>2. m <= First(S) /\ First(S) \in Nat /\ m \in Nat
    BY <1>1
<1> QED
    BY <1>1, <1>2

-----------------------------------------------------------------------------
(* One more record *)

LEMMA RecordTypes ==
    ASSUME NEW h \in Seq(Records), NEW j \in 1 .. Len(h), NEW w \in Wallets
    PROVE  h[j].ts \in Nat /\ h[j].live[w] \in Nat
<1>1. h[j] \in Records
    OBVIOUS
<1> QED
    BY <1>1 DEF Records, Balances

LEMMA GapTypes ==
    ASSUME NEW h \in Seq(Records)
    PROVE  /\ \A j \in 2 .. Len(h) : Gaps(h)[j] \in Nat
           /\ \A j \in 2 .. Len(h) : Gaps(h)[j] =
                 IF h[j].ts > h[j - 1].ts THEN h[j].ts - h[j - 1].ts ELSE 0
<1> SUFFICES ASSUME NEW j \in 2 .. Len(h)
             PROVE  /\ Gaps(h)[j] \in Nat
                    /\ Gaps(h)[j] = IF h[j].ts > h[j - 1].ts
                                    THEN h[j].ts - h[j - 1].ts ELSE 0
    OBVIOUS
<1>1. j \in 1 .. Len(h) /\ j - 1 \in 1 .. Len(h)
    OBVIOUS
<1>2. h[j].ts \in Nat /\ h[j - 1].ts \in Nat
    <2>1. h[j] \in Records /\ h[j - 1] \in Records
        BY <1>1
    <2> QED
        BY <2>1 DEF Records
<1> QED
    BY <1>2 DEF Gaps

\* The holdings that end at record n: those that ended at n - 1, if the last
\* record continues them, and the one that n itself starts.
LEMMA HoldStartsStep ==
    ASSUME NEW h \in Seq(Records), NEW w \in Wallets, NEW n \in 1 .. Len(h)
    PROVE  HoldStarts(h, w, n) =
              IF ~(h[n].live[w] >= MinHolding) THEN {}
              ELSE {n} \cup
                   IF n > 1 /\ h[n].live[w] >= h[n - 1].live[w]
                   THEN HoldStarts(h, w, n - 1) ELSE {}
<1>1. ASSUME NEW i \in 1 .. n - 1
      PROVE  Holding(h, w, i, n) <=> /\ Holding(h, w, i, n - 1)
                                     /\ h[n].live[w] >= MinHolding
                                     /\ h[n].live[w] >= h[n - 1].live[w]
    <2>1. i .. n = (i .. n - 1) \cup {n}
        OBVIOUS
    <2>2. i + 1 .. n = (i + 1 .. n - 1) \cup {n}
        OBVIOUS
    <2> QED
        BY <2>1, <2>2 DEF Holding
<1>2. Holding(h, w, n, n) <=> h[n].live[w] >= MinHolding
    <2>1. n .. n = {n} /\ n + 1 .. n = {}
        OBVIOUS
    <2> QED
        BY <2>1 DEF Holding
<1>3. 1 .. n = (1 .. n - 1) \cup {n}
    OBVIOUS
<1>4. n - 1 \in Nat /\ (1 .. n - 1 # {} => n > 1)
    OBVIOUS
<1> QED
    BY <1>1, <1>2, <1>3, <1>4 DEF HoldStarts

\* Held seconds by the rules are what update() makes of those one record ago.
LEMMA HeldStep ==
    ASSUME NEW h \in Seq(Records), NEW w \in Wallets, NEW n \in 1 .. Len(h)
    PROVE  HeldByRules(h, w, n) =
              IF /\ n > 1
                 /\ h[n - 1].live[w] >= MinHolding
                 /\ h[n].live[w] >= h[n - 1].live[w]
              THEN HeldByRules(h, w, n - 1) +
                     (IF h[n].ts > h[n - 1].ts THEN h[n].ts - h[n - 1].ts ELSE 0)
              ELSE 0
<1> DEFINE S(k) == HoldStarts(h, w, k)
<1>1. S(n) \in SUBSET Nat /\ S(n - 1) \in SUBSET Nat /\ n \in Nat
    BY DEF HoldStarts
<1>2. n > 1 => h[n].live[w] \in Nat /\ h[n - 1].live[w] \in Nat
    <2>1. n > 1 => n - 1 \in 1 .. Len(h)
        OBVIOUS
    <2> QED
        BY <2>1, RecordTypes
<1>3. CASE /\ n > 1
           /\ h[n - 1].live[w] >= MinHolding
           /\ h[n].live[w] >= h[n - 1].live[w]
    <2> DEFINE m == First(S(n - 1))
    <2>1. S(n) = {n} \cup S(n - 1)
        BY <1>2, <1>3, HoldStartsStep, ConstantsAssumption
    <2>2. n - 1 \in S(n - 1)
        <3>1. n - 1 \in 1 .. Len(h)
            BY <1>3
        <3> QED
            BY <3>1, <1>3, HoldStartsStep
    <2>3. m \in S(n - 1) /\ (\A j \in S(n - 1) : m <= j) /\ m <= n - 1
        BY <1>1, <2>2, FirstExists
    <2>4. m \in 1 .. n - 1
        BY <2>3 DEF HoldStarts
    <2>5. First(S(n)) = m
        BY <1>1, <2>1, <2>3, <2>4, FirstIs
    <2>6. SumFunctionOnSet(Gaps(h), m + 1 .. n) =
             Gaps(h)[n] + SumFunctionOnSet(Gaps(h), m + 1 .. n - 1)
        <3>1. m + 1 .. n = (m + 1 .. n - 1) \cup {n} /\ n \notin m + 1 .. n - 1
            BY <2>4
        <3>2. IsFiniteSet(m + 1 .. n - 1)
            BY <2>4, FS_Interval
        <3>3. \A x \in (m + 1 .. n - 1) \cup {n} : Gaps(h)[x] \in Nat
            BY <2>4, GapTypes
        <3> QED
            BY <3>1, <3>2, <3>3, SumAdd
    <2>7. Gaps(h)[n] =
             IF h[n].ts > h[n - 1].ts THEN h[n].ts - h[n - 1].ts ELSE 0
        BY <1>3, GapTypes
    <2>8. Gaps(h)[n] \in Nat
        BY <1>3, GapTypes
    <2>9. SumFunctionOnSet(Gaps(h), m + 1 .. n - 1) \in Nat
        <3>1. \A x \in m + 1 .. n - 1 : Gaps(h)[x] \in Nat
            BY <2>4, GapTypes
        <3>2. IsFiniteSet(m + 1 .. n - 1)
            BY <2>4, FS_Interval
        <3> QED
            BY <3>1, <3>2, SumType
    <2>10. HeldByRules(h, w, n) = SumFunctionOnSet(Gaps(h), m + 1 .. n)
        BY <2>1, <2>5 DEF HeldByRules
    <2>11. HeldByRules(h, w, n - 1) = SumFunctionOnSet(Gaps(h), m + 1 .. n - 1)
        BY <2>2 DEF HeldByRules
    <2>12. HeldByRules(h, w, n) = HeldByRules(h, w, n - 1) + Gaps(h)[n]
        BY <2>6, <2>8, <2>9, <2>10, <2>11
    <2> QED
        BY <1>3, <2>7, <2>12
<1>4. CASE ~(/\ n > 1
             /\ h[n - 1].live[w] >= MinHolding
             /\ h[n].live[w] >= h[n - 1].live[w])
    <2>1. S(n) \subseteq {n}
        <3>1. n > 1 /\ ~(h[n - 1].live[w] >= MinHolding) => S(n - 1) = {}
            <4>1. n > 1 => n - 1 \in 1 .. Len(h)
                OBVIOUS
            <4> QED
                BY <4>1, HoldStartsStep
        <3> QED
            BY <1>4, <3>1, HoldStartsStep
    <2>2. CASE S(n) = {}
        BY <1>4, <2>2 DEF HeldByRules
    <2>3. CASE S(n) # {}
        <3>1. S(n) = {n}
            BY <2>1, <2>3
        <3>2. First(S(n)) = n
            BY <3>1, <1>1, FirstIs
        <3>3. n + 1 .. n = {}
            OBVIOUS
        <3>4. HeldByRules(h, w, n) = 0
            BY <3>1, <3>2, <3>3, SumEmpty DEF HeldByRules
        <3> QED
            BY <1>4, <3>4
    <2> QED
        BY <2>2, <2>3
<1> QED
    BY <1>3, <1>4

LEMMA HeldNat ==
    ASSUME NEW h \in Seq(Records), NEW w \in Wallets, NEW n \in 0 .. Len(h)
    PROVE  HeldByRules(h, w, n) \in Nat
<1>1. CASE HoldStarts(h, w, n) = {}
    BY <1>1 DEF HeldByRules
<1>2. CASE HoldStarts(h, w, n) # {}
    <2> DEFINE m == First(HoldStarts(h, w, n))
    <2>1. HoldStarts(h, w, n) \subseteq 1 .. n /\ HoldStarts(h, w, n) \in SUBSET Nat
        BY DEF HoldStarts
    <2>2. m \in 1 .. n
        BY <1>2, <2>1, FirstExists
    <2> HIDE DEF m
    <2>3. IsFiniteSet(m + 1 .. n)
        BY <2>2, FS_Interval
    <2>4. \A x \in m + 1 .. n : Gaps(h)[x] \in Nat
        BY <2>2, GapTypes
    <2>5. SumFunctionOnSet(Gaps(h), m + 1 .. n) \in Nat
        BY <2>3, <2>4, SumType
    <2> QED
        BY <1>2, <2>5 DEF HeldByRules, m
<1> QED
    BY <1>1, <1>2

LEMMA TrackedStep ==
    ASSUME NEW h, NEW w, NEW n \in Nat \ {0}
    PROVE  TrackedBy(h, w, n) <=>
              TrackedBy(h, w, n - 1) \/ h[n].live[w] >= MinHolding
<1>1. 1 .. n = (1 .. n - 1) \cup {n}
    OBVIOUS
<1> QED
    BY <1>1 DEF TrackedBy

LEMMA DoneStep ==
    ASSUME NEW h, NEW w, NEW k, NEW n \in Nat \ {0}
    PROVE  DoneBy(h, w, k, n) <=>
              \/ DoneBy(h, w, k, n - 1)
              \/ TrackedBy(h, w, n) /\ w \in h[n].done[k]
<1>1. 1 .. n = (1 .. n - 1) \cup {n}
    OBVIOUS
<1> QED
    BY <1>1 DEF DoneBy

\* Nothing is tracked, held or done before the first record, and whoever is not
\* tracked has done nothing.
LEMMA Untracked ==
    ASSUME NEW h, NEW w
    PROVE  /\ ~TrackedBy(h, w, 0)
           /\ \A n \in Nat : \A k : DoneBy(h, w, k, n) => TrackedBy(h, w, n)
<1>1. 1 .. 0 = {}
    OBVIOUS
<1>2. ASSUME NEW n \in Nat, NEW k, DoneBy(h, w, k, n) PROVE TrackedBy(h, w, n)
    <2>1. PICK i \in 1 .. n : TrackedBy(h, w, i)
        BY <1>2 DEF DoneBy
    <2>2. 1 .. i \subseteq 1 .. n
        OBVIOUS
    <2> QED
        BY <2>1, <2>2 DEF TrackedBy
<1> QED
    BY <1>1, <1>2 DEF TrackedBy

\* The level-3 stamp by the rules is what stamp_lvl3() makes of the one before.
LEMMA StampStep ==
    ASSUME NEW h \in Seq(Records), NEW w \in Wallets, NEW n \in 1 .. Len(h)
    PROVE  Lvl3SinceByRules(h, w, n) =
              IF ~Lvl3At(h, w, n) THEN NoStamp
              ELSE IF Lvl3SinceByRules(h, w, n - 1) = NoStamp THEN h[n].ts
              ELSE Lvl3SinceByRules(h, w, n - 1)
<1> DEFINE S(k) == Lvl3Starts(h, w, k)
           A(k) == Lvl3At(h, w, k)
<1>1. S(n) \in SUBSET (1 .. n) /\ S(n - 1) \in SUBSET (1 .. n - 1)
    BY DEF Lvl3Starts
<1>2. S(n) \in SUBSET Nat /\ S(n - 1) \in SUBSET Nat /\ n \in Nat
    BY <1>1
<1>3. ASSUME NEW i \in 1 .. n - 1
      PROVE  i \in S(n) <=> i \in S(n - 1) /\ A(n)
    <2>1. i .. n = (i .. n - 1) \cup {n} /\ i \in 1 .. n
        OBVIOUS
    <2> QED
        BY <2>1 DEF Lvl3Starts
<1>4. n \in S(n) <=> A(n)
    <2>1. n .. n = {n} /\ n \in 1 .. n
        OBVIOUS
    <2> QED
        BY <2>1 DEF Lvl3Starts
<1>5. S(n) = IF A(n) THEN {n} \cup S(n - 1) ELSE {}
    <2>1. 1 .. n = (1 .. n - 1) \cup {n}
        OBVIOUS
    <2> QED
        BY <1>1, <1>3, <1>4, <2>1
<1>6. S(n - 1) # {} =>
         /\ First(S(n - 1)) \in S(n - 1)
         /\ \A j \in S(n - 1) : First(S(n - 1)) <= j
    BY <1>2, FirstExists
<1>7. Lvl3SinceByRules(h, w, n - 1) = NoStamp <=> S(n - 1) = {}
    <2>1. CASE S(n - 1) = {}
        BY <2>1 DEF Lvl3SinceByRules
    <2>2. CASE S(n - 1) # {}
        <3>1. First(S(n - 1)) \in 1 .. Len(h)
            BY <1>1, <1>6, <2>2
        <3>2. h[First(S(n - 1))].ts \in Nat
            BY <3>1, RecordTypes
        <3> QED
            BY <2>2, <3>2 DEF Lvl3SinceByRules, NoStamp
    <2> QED
        BY <2>1, <2>2
<1>8. CASE ~A(n)
    BY <1>5, <1>8 DEF Lvl3SinceByRules
<1>9. CASE A(n) /\ S(n - 1) = {}
    <2>1. S(n) = {n}
        BY <1>5, <1>9
    <2>2. First(S(n)) = n
        BY <1>2, <2>1, FirstIs
    <2>3. Lvl3SinceByRules(h, w, n) = h[n].ts
        BY <2>1, <2>2 DEF Lvl3SinceByRules
    <2> QED
        BY <1>7, <1>9, <2>3
<1>10. CASE A(n) /\ S(n - 1) # {}
    <2> DEFINE m == First(S(n - 1))
    <2>1. m \in S(n - 1) /\ (\A j \in S(n - 1) : m <= j) /\ m \in 1 .. n - 1
        BY <1>1, <1>6, <1>10
    <2>2. m \in S(n) /\ \A j \in S(n) : m <= j
        BY <1>5, <1>10, <2>1
    <2>3. First(S(n)) = m
        BY <1>2, <2>2, FirstIs
    <2>4. Lvl3SinceByRules(h, w, n) = h[m].ts
        BY <2>2, <2>3 DEF Lvl3SinceByRules
    <2>5. Lvl3SinceByRules(h, w, n - 1) = h[m].ts
        BY <1>10 DEF Lvl3SinceByRules
    <2> QED
        BY <1>7, <1>10, <2>4, <2>5
<1> QED
    BY <1>8, <1>9, <1>10

-----------------------------------------------------------------------------
(* Appending a record leaves what the rules say of the earlier ones *)

LEMMA SamePast ==
    ASSUME NEW h \in Seq(Records), NEW r \in Records, NEW w \in Wallets,
           NEW n \in 0 .. Len(h)
    PROVE  /\ HeldByRules(Append(h, r), w, n) = HeldByRules(h, w, n)
           /\ TrackedBy(Append(h, r), w, n) <=> TrackedBy(h, w, n)
           /\ \A k : DoneBy(Append(h, r), w, k, n) <=> DoneBy(h, w, k, n)
           /\ Lvl3SinceByRules(Append(h, r), w, n) = Lvl3SinceByRules(h, w, n)
<1> DEFINE g == Append(h, r)
<1>1. g \in Seq(Records) /\ Len(g) = Len(h) + 1 /\ Len(h) \in Nat
    OBVIOUS
<1>2. \A j \in 1 .. n : g[j] = h[j]
    OBVIOUS
<1> HIDE DEF g
<1>3. ASSUME NEW m \in 0 .. n
      PROVE  /\ HeldByRules(g, w, m) = HeldByRules(h, w, m)
             /\ TrackedBy(g, w, m) <=> TrackedBy(h, w, m)
             /\ \A k : DoneBy(g, w, k, m) <=> DoneBy(h, w, k, m)
    <2>1. \A i \in 1 .. m : TrackedBy(g, w, i) <=> TrackedBy(h, w, i)
        <3> TAKE i \in 1 .. m
        <3>1. 1 .. i \subseteq 1 .. n
            OBVIOUS
        <3> QED
            BY <1>2, <3>1 DEF TrackedBy
    <2>2. 1 .. m \subseteq 1 .. n
        OBVIOUS
    <2>3. \A k : DoneBy(g, w, k, m) <=> DoneBy(h, w, k, m)
        BY <1>2, <2>1, <2>2 DEF DoneBy
    <2>4. TrackedBy(g, w, m) <=> TrackedBy(h, w, m)
        BY <1>2, <2>2 DEF TrackedBy
    <2>5. ASSUME NEW i \in 1 .. m PROVE Holding(g, w, i, m) <=> Holding(h, w, i, m)
        <3>1. i .. m \subseteq 1 .. n
            OBVIOUS
        <3>2. \A j \in i + 1 .. m : j \in 1 .. n /\ j - 1 \in 1 .. n
            OBVIOUS
        <3> QED
            BY <1>2, <3>1, <3>2 DEF Holding
    <2>6. HoldStarts(g, w, m) = HoldStarts(h, w, m)
        BY <2>5 DEF HoldStarts
    <2>7. ASSUME HoldStarts(h, w, m) # {}
          PROVE  LET i == First(HoldStarts(h, w, m)) IN
                 SumFunctionOnSet(Gaps(g), i + 1 .. m) =
                    SumFunctionOnSet(Gaps(h), i + 1 .. m)
        <3> DEFINE i == First(HoldStarts(h, w, m))
        <3>1. HoldStarts(h, w, m) \subseteq 1 .. m /\ HoldStarts(h, w, m) \in SUBSET Nat
            BY DEF HoldStarts
        <3>2. i \in 1 .. m
            BY <2>7, <3>1, FirstExists
        <3> HIDE DEF i
        <3>3. IsFiniteSet(i + 1 .. m)
            BY <3>2, FS_Interval
        <3>4. ASSUME NEW x \in i + 1 .. m PROVE Gaps(g)[x] = Gaps(h)[x]
            <4>1. /\ x \in 2 .. Len(h) /\ x \in 2 .. Len(g)
                  /\ x \in 1 .. n /\ x - 1 \in 1 .. n
                BY <1>1, <3>2
            <4> QED
                BY <1>2, <4>1 DEF Gaps
        <3>5. SumFunctionOnSet(Gaps(g), i + 1 .. m) =
                 SumFunctionOnSet(Gaps(h), i + 1 .. m)
            BY <3>3, <3>4, SumAgrees
        <3> QED
            BY <3>5 DEF i
    <2>8. HeldByRules(g, w, m) = HeldByRules(h, w, m)
        BY <2>6, <2>7 DEF HeldByRules
    <2> QED
        BY <2>3, <2>4, <2>8
<1>4. \A j \in 1 .. n : Lvl3At(g, w, j) <=> Lvl3At(h, w, j)
    BY <1>3 DEF Lvl3At
<1>5. Lvl3Starts(g, w, n) = Lvl3Starts(h, w, n)
    <2>1. ASSUME NEW i \in 1 .. n
          PROVE  (\A j \in i .. n : Lvl3At(g, w, j)) <=>
                    \A j \in i .. n : Lvl3At(h, w, j)
        <3>1. i .. n \subseteq 1 .. n
            OBVIOUS
        <3> QED
            BY <1>4, <3>1
    <2> QED
        BY <2>1 DEF Lvl3Starts
<1>6. Lvl3SinceByRules(g, w, n) = Lvl3SinceByRules(h, w, n)
    <2>1. CASE Lvl3Starts(h, w, n) = {}
        BY <1>5, <2>1 DEF Lvl3SinceByRules
    <2>2. CASE Lvl3Starts(h, w, n) # {}
        <3>1. Lvl3Starts(h, w, n) \in SUBSET (1 .. n)
            BY DEF Lvl3Starts
        <3>2. Lvl3Starts(h, w, n) \in SUBSET Nat
            BY <3>1
        <3>3. First(Lvl3Starts(h, w, n)) \in 1 .. n
            BY <2>2, <3>1, <3>2, FirstExists
        <3> QED
            BY <1>2, <1>5, <2>2, <3>3 DEF Lvl3SinceByRules
    <2> QED
        BY <2>1, <2>2
<1> QED
    BY <1>3, <1>6 DEF g

-----------------------------------------------------------------------------
(* The inductive invariant *)

LEMMA HistoryInitInv == HistoryInit => HistoryInv
<1> SUFFICES ASSUME HistoryInit PROVE HistoryInv
    OBVIOUS
<1>1. \A w \in Wallets : disk[w] = Absent
    BY DEF HistoryInit, Init, NoState
<1>2. Len(log) = 0 /\ log \in Seq(Records) /\ fetched \in [Tasks -> SUBSET Wallets]
    BY DEF HistoryInit, NobodyDone
<1>3. FileMatchesHistory /\ StampMatchesHistory
    BY <1>1, <1>2, Untracked DEF FileMatchesHistory, StampMatchesHistory, Known
<1> QED
    BY <1>1, <1>2, <1>3 DEF HistoryInv, Known, HistoryInit, Init

\* One wallet of the file, before and after the save that adds record r: e is
\* its entry after n records, f the one update, flags and stamp made of it.
LEMMA EntryKeepsRules ==
    ASSUME NEW h \in Seq(Records), NEW r \in Records, NEW w \in Wallets,
           NEW e \in Entry, NEW f \in Entry,
           TrackedBy(h, w, Len(h)),
           e.held_seconds = HeldByRules(h, w, Len(h)),
           e.tasks = {k \in Tasks : DoneBy(h, w, k, Len(h))},
           e.lvl3_since = Lvl3SinceByRules(h, w, Len(h)),
           Len(h) > 0,
           e.last_balance = h[Len(h)].live[w],
           e.last_check_ts = h[Len(h)].ts,
           Clock!Continues(e, f),
           f.tasks = e.tasks \cup {k \in Tasks : w \in r.done[k]},
           f.last_check_ts = r.ts, f.last_balance = r.live[w]
    PROVE  LET g == Append(h, r) IN
           /\ TrackedBy(g, w, Len(g))
           /\ f.held_seconds = HeldByRules(g, w, Len(g))
           /\ f.tasks = {k \in Tasks : DoneBy(g, w, k, Len(g))}
           /\ f.lvl3_since = Lvl3SinceByRules(g, w, Len(g))
<1> DEFINE g == Append(h, r)
           n == Len(h)
           m == Len(g)
<1>1. /\ g \in Seq(Records) /\ m = n + 1 /\ n \in Nat /\ n >= 1
      /\ g[m] = r /\ g[n] = h[n]
    OBVIOUS
<1>2. /\ HeldByRules(g, w, n) = e.held_seconds
      /\ TrackedBy(g, w, n)
      /\ \A k \in Tasks : DoneBy(g, w, k, n) <=> k \in e.tasks
      /\ Lvl3SinceByRules(g, w, n) = e.lvl3_since
    <2>1. n \in 0 .. Len(h)
        BY <1>1
    <2> QED
        BY <2>1, SamePast
<1> HIDE DEF g, n, m
<1>3. m \in 1 .. Len(g) /\ m - 1 = n /\ m > 1 /\ m \in Nat \ {0}
    BY <1>1 DEF m
<1>4. TrackedBy(g, w, m)
    BY <1>2, <1>3, TrackedStep
<1>5. f.held_seconds = HeldByRules(g, w, m)
    <2>1. HeldByRules(g, w, m) =
             IF e.last_balance >= MinHolding /\ f.last_balance >= e.last_balance
             THEN e.held_seconds + (IF f.last_check_ts > e.last_check_ts
                                    THEN f.last_check_ts - e.last_check_ts ELSE 0)
             ELSE 0
        BY <1>1, <1>2, <1>3, HeldStep DEF n
    <2> QED
        BY <2>1 DEF Clock!Continues, Clock!Unbroken
<1>6. f.tasks = {k \in Tasks : DoneBy(g, w, k, m)}
    <2>1. ASSUME NEW k \in Tasks
          PROVE  DoneBy(g, w, k, m) <=> k \in e.tasks \/ w \in r.done[k]
        BY <1>1, <1>2, <1>3, <1>4, DoneStep
    <2>2. f.tasks \subseteq Tasks /\ e.tasks \subseteq Tasks
        BY DEF Entry
    <2> QED
        BY <2>1, <2>2
<1>7. Clock!Level3(f) <=> Lvl3At(g, w, m)
    <2>1. f.tasks = Tasks <=> \A k \in Tasks : DoneBy(g, w, k, m)
        BY <1>6
    <2> QED
        BY <1>5, <2>1 DEF Clock!Level3, Lvl3At
<1>8. f.lvl3_since = Lvl3SinceByRules(g, w, m)
    BY <1>1, <1>2, <1>3, <1>7, StampStep DEF Clock!Continues
<1> QED
    BY <1>4, <1>5, <1>6, <1>8 DEF g, m

\* The same for a wallet whose clock starts with record r.
LEMMA EntryMeetsRules ==
    ASSUME NEW h \in Seq(Records), NEW r \in Records, NEW w \in Wallets,
           NEW f \in Entry,
           ~TrackedBy(h, w, Len(h)),
           r.live[w] >= MinHolding,
           Clock!Starts(f), f.tasks = {k \in Tasks : w \in r.done[k]}
    PROVE  LET g == Append(h, r) IN
           /\ TrackedBy(g, w, Len(g))
           /\ f.held_seconds = HeldByRules(g, w, Len(g))
           /\ f.tasks = {k \in Tasks : DoneBy(g, w, k, Len(g))}
           /\ f.lvl3_since = Lvl3SinceByRules(g, w, Len(g))
<1> DEFINE g == Append(h, r)
           n == Len(h)
           m == Len(g)
<1>1. /\ g \in Seq(Records) /\ m = n + 1 /\ n \in Nat
      /\ g[m] = r /\ (n >= 1 => g[n] = h[n])
    OBVIOUS
<1>2. ~TrackedBy(g, w, n)
    <2>1. n \in 0 .. Len(h)
        BY <1>1
    <2> QED
        BY <2>1, SamePast
<1> HIDE DEF g, n, m
<1>3. m \in 1 .. Len(g) /\ m - 1 = n /\ m \in Nat \ {0}
    BY <1>1 DEF m
<1>4. TrackedBy(g, w, m)
    BY <1>1, <1>3, TrackedStep
<1>5. HeldByRules(g, w, m) = 0
    <2>1. m > 1 => ~(g[m - 1].live[w] >= MinHolding)
        <3>1. m > 1 => n \in 1 .. n
            BY <1>1, <1>3
        <3> QED
            BY <1>2, <1>3, <3>1 DEF TrackedBy
    <2> QED
        BY <1>1, <1>3, <2>1, HeldStep
<1>6. f.held_seconds = 0 /\ f.lvl3_since = NoStamp
    BY DEF Clock!Starts
<1>7. f.tasks = {k \in Tasks : DoneBy(g, w, k, m)}
    <2>1. ASSUME NEW k \in Tasks PROVE DoneBy(g, w, k, m) <=> w \in r.done[k]
        <3>1. ~DoneBy(g, w, k, n)
            BY <1>1, <1>2, Untracked
        <3> QED
            BY <1>1, <1>3, <1>4, <3>1, DoneStep
    <2> QED
        BY <2>1
<1>8. Lvl3SinceByRules(g, w, m) = NoStamp
    <2>1. ~Lvl3At(g, w, m)
        BY <1>5 DEF Lvl3At
    <2> QED
        BY <1>1, <1>3, <2>1, StampStep
<1> QED
    BY <1>4, <1>5, <1>6, <1>7, <1>8 DEF g, m

LEMMA SaveKeepsHistory ==
    ASSUME IInv, IInv', HistoryInv, StampAndSave,
           log' = Append(log, [ts |-> t, live |-> live, done |-> fetched]),
           fetched' = NobodyDone
    PROVE  HistoryInv'
<1> DEFINE r == [ts |-> t, live |-> live, done |-> fetched]
<1>1. /\ disk \in States /\ disk' \in States
      /\ live \in Balances /\ t \in Nat /\ fetched \in Marks
      /\ log \in Seq(Records) /\ r \in Records
    BY DEF IInv, TypeOK, HistoryInv, Records, Marks
<1>2. disk' = Stamped(Marked(Updated(disk, live, t), fetched), t)
    BY DEF HistoryInv, StampAndSave
<1>3. /\ log' \in Seq(Records) /\ Len(log') = Len(log) + 1
      /\ log'[Len(log')] = r /\ Len(log) \in Nat
    BY <1>1
<1>4. ASSUME NEW w \in Wallets
      PROVE  /\ disk'[w] # Absent <=> TrackedBy(log', w, Len(log'))
             /\ disk'[w] # Absent =>
                   /\ disk'[w].held_seconds = HeldByRules(log', w, Len(log'))
                   /\ disk'[w].tasks = {k \in Tasks : DoneBy(log', w, k, Len(log'))}
                   /\ disk'[w].lvl3_since = Lvl3SinceByRules(log', w, Len(log'))
                   /\ disk'[w].last_balance = live[w]
                   /\ disk'[w].last_check_ts = t
    <2>1. /\ disk[w] # Absent => disk[w] \in Entry
          /\ disk'[w] # Absent => disk'[w] \in Entry
        BY <1>1 DEF States
    <2>2. /\ disk[w] # Absent <=> TrackedBy(log, w, Len(log))
          /\ disk[w] # Absent =>
                /\ disk[w].held_seconds = HeldByRules(log, w, Len(log))
                /\ disk[w].tasks = {k \in Tasks : DoneBy(log, w, k, Len(log))}
                /\ disk[w].lvl3_since = Lvl3SinceByRules(log, w, Len(log))
                /\ disk[w].last_balance = log[Len(log)].live[w]
                /\ disk[w].last_check_ts = log[Len(log)].ts
                /\ disk[w].held_seconds > 0 => disk[w].last_balance >= MinHolding
        BY DEF HistoryInv, FileMatchesHistory, StampMatchesHistory, Known, IInv,
               DiskInv
    <2> DEFINE marks == {k \in Tasks : w \in fetched[k]}
    <2>3. /\ disk[w] # Absent => /\ disk'[w] # Absent
                                 /\ Clock!Continues(disk[w], disk'[w])
                                 /\ disk'[w].tasks = disk[w].tasks \cup marks
          /\ disk[w] = Absent => (disk'[w] # Absent <=> live[w] >= MinHolding)
          /\ disk[w] = Absent /\ disk'[w] # Absent =>
                Clock!Starts(disk'[w]) /\ disk'[w].tasks = marks
          /\ disk'[w] # Absent =>
                disk'[w].last_check_ts = t /\ disk'[w].last_balance = live[w]
        BY <1>1, <1>2, <2>2, SavedEntry
    <2>4. r.ts = t /\ r.live = live /\ r.done = fetched
        OBVIOUS
    <2> HIDE DEF r
    <2>5. CASE disk[w] # Absent
        <3>1. Len(log) > 0
            <4>1. Len(log) # 0
                BY <2>2, <2>5, Untracked
            <4> QED
                BY <1>3, <4>1
        <3>2. LET g == Append(log, r) IN
              /\ TrackedBy(g, w, Len(g))
              /\ disk'[w].held_seconds = HeldByRules(g, w, Len(g))
              /\ disk'[w].tasks = {k \in Tasks : DoneBy(g, w, k, Len(g))}
              /\ disk'[w].lvl3_since = Lvl3SinceByRules(g, w, Len(g))
            BY <1>1, <2>1, <2>2, <2>3, <2>4, <2>5, <3>1, EntryKeepsRules
        <3> QED
            BY <2>3, <2>5, <3>2 DEF r
    <2>6. CASE disk[w] = Absent /\ live[w] >= MinHolding
        <3>1. LET g == Append(log, r) IN
              /\ TrackedBy(g, w, Len(g))
              /\ disk'[w].held_seconds = HeldByRules(g, w, Len(g))
              /\ disk'[w].tasks = {k \in Tasks : DoneBy(g, w, k, Len(g))}
              /\ disk'[w].lvl3_since = Lvl3SinceByRules(g, w, Len(g))
            BY <1>1, <2>1, <2>2, <2>3, <2>4, <2>6, EntryMeetsRules
        <3> QED
            BY <2>3, <2>6, <3>1 DEF r
    <2>7. CASE disk[w] = Absent /\ ~(live[w] >= MinHolding)
        <3>1. ~TrackedBy(log', w, Len(log))
            <4>1. Len(log) \in 0 .. Len(log)
                BY <1>3
            <4> QED
                BY <1>1, <2>2, <2>7, <4>1, SamePast DEF r
        <3>2. ~TrackedBy(log', w, Len(log'))
            <4>1. PICK m \in Nat \ {0} : m = Len(log')
                BY <1>3
            <4>2. m - 1 = Len(log) /\ ~TrackedBy(log', w, m - 1)
                BY <1>3, <3>1, <4>1
            <4>3. ~(log'[m].live[w] >= MinHolding)
                BY <1>3, <2>4, <2>7, <4>1
            <4> QED
                BY <4>1, <4>2, <4>3, TrackedStep
        <3> QED
            BY <2>3, <2>7, <3>2
    <2> QED
        BY <2>5, <2>6, <2>7
<1>5. FileMatchesHistory' /\ StampMatchesHistory'
    BY <1>4 DEF FileMatchesHistory, StampMatchesHistory, Known
<1>6. \A w \in Known(disk') :
         /\ disk'[w].last_balance = log'[Len(log')].live[w]
         /\ disk'[w].last_check_ts = log'[Len(log')].ts
    BY <1>3, <1>4 DEF Known
<1>7. fetched' \in [Tasks -> SUBSET Wallets] /\ pc' = "pay"
    BY DEF NobodyDone, StampAndSave
<1> QED
    BY <1>3, <1>5, <1>6, <1>7 DEF HistoryInv

LEMMA HistoryNextInv ==
    IInv /\ IInv' /\ HistoryInv /\ [HistoryNext]_historyVars => HistoryInv'
<1> SUFFICES ASSUME IInv, IInv', HistoryInv, [HistoryNext]_historyVars
             PROVE  HistoryInv'
    OBVIOUS
<1>1. CASE StampAndSave /\ log' = Append(log, [ts |-> t, live |-> live, done |-> fetched])
           /\ fetched' = NobodyDone
    BY <1>1, SaveKeepsHistory
<1>2. ASSUME UNCHANGED <<disk, log>>, fetched' \in [Tasks -> SUBSET Wallets],
             pc' = "refresh" => state' = Updated(disk', live', t'),
             pc' = "stamp" => state' = Marked(Updated(disk', live', t'), fetched')
      PROVE  HistoryInv'
    BY <1>2 DEF HistoryInv, FileMatchesHistory, StampMatchesHistory, Known
<1>3. fetched \in [Tasks -> SUBSET Wallets] /\ NobodyDone \in [Tasks -> SUBSET Wallets]
    BY DEF HistoryInv, NobodyDone
<1>4. CASE RefreshTasks /\ state' = Marked(state, fetched') /\ UNCHANGED log
           /\ fetched' \in [Tasks -> SUBSET Wallets]
    BY <1>2, <1>4 DEF RefreshTasks, HistoryInv
<1>5. CASE (StartTick \/ SnapshotHolders \/ Update) /\ UNCHANGED <<log, fetched>>
    BY <1>2, <1>3, <1>5 DEF StartTick, SnapshotHolders, Update
<1>6. CASE (World \/ UNCHANGED vars) /\ UNCHANGED <<log, fetched>>
    <2>1. UNCHANGED <<pc, state, disk, live, t>>
        BY <1>6 DEF World, AdvanceClock, SetClockBack, Trade, memory, vars
    <2> QED
        BY <1>2, <1>3, <1>6, <2>1 DEF HistoryInv
<1>7. CASE (FinishTick \/ AbortTick \/ Crash) /\ fetched' = NobodyDone /\ UNCHANGED log
    BY <1>2, <1>3, <1>7 DEF FinishTick, AbortTick, Crash, Forget
<1>8. Listed \subseteq [Tasks -> SUBSET Wallets]
    BY DEF Listed
<1> QED
    BY <1>1, <1>4, <1>5, <1>6, <1>7, <1>8 DEF HistoryNext, historyVars

-----------------------------------------------------------------------------
(* Theorems *)

\* Recording the history takes no step that the tracker does not take.
LEMMA HistoryIsRun == HistorySpec => Spec
<1>1. HistoryInit => Init
    BY DEF HistoryInit
<1>2. [HistoryNext]_historyVars => [Next]_vars
    BY DEF HistoryNext, historyVars, Next, Bot
<1> QED
    BY <1>1, <1>2, PTL DEF HistorySpec, Spec

LEMMA HistoryAlways == HistorySpec => []HistoryInv
<1>1. HistorySpec => []IInv
    BY HistoryIsRun, InvAlways, PTL
<1> QED
    BY <1>1, HistoryInitInv, HistoryNextInv, PTL DEF HistorySpec

\* However ticks are skipped, aborted or crashed and the clock is set back, the
\* five numbers that update() keeps of a wallet say of its held seconds and its
\* flags what the whole list of saved snapshots says.
THEOREM FileIsFoldOfHistory == HistorySpec => []FileMatchesHistory
<1>1. HistoryInv => FileMatchesHistory
    BY DEF HistoryInv
<1> QED
    BY <1>1, HistoryAlways, PTL

\* stamp_lvl3() dates level 3 from the first save of the current, unbroken
\* stretch, however long ago that was.
THEOREM StampIsStartOfLevel3 == HistorySpec => []StampMatchesHistory
<1>1. HistoryInv => StampMatchesHistory
    BY DEF HistoryInv
<1> QED
    BY <1>1, HistoryAlways, PTL
=============================================================================

--------------------------- MODULE LauncherProofs ---------------------------
(* Proofs about Launcher: what a coin's bot finds on the volume, for any     *)
(* coins, any list of files and any sequence of stops, redeploys and faults. *)
EXTENDS Launcher, FiniteSetTheorems, TLAPS

USE DEF volume, boot, process, retry

LEMMA MinOfTwo ==
    ASSUME NEW m \in Int, NEW n \in Int
    PROVE  Min({m, n}) = IF m <= n THEN m ELSE n
BY DEF Min

\* The clocks' file is one of the files; a list has only its own elements.
LEMMA FileFacts ==
    /\ Loyalty \in Files /\ Stats \in Files /\ Loyalty # Stats
    /\ Len(StateFiles) \in Nat
    /\ \A i \in 1 .. Len(StateFiles) : StateFiles[i] \in Files
BY LauncherAssumption DEF Files, Loyalty, Stats

LEMMA Bounds ==
    /\ MaxBackoff \in Nat /\ MaxBackoff >= 1
    /\ MaxDeaths \in Nat /\ MaxDeaths >= 1
BY LauncherAssumption

LEMMA InitInv == Init => IInv
<1> SUFFICES ASSUME Init PROVE IInv
    OBVIOUS
<1>1. /\ next \in 1 .. Len(StateFiles) + 1
      /\ backoff \in 1 .. MaxBackoff /\ deaths \in 0 .. MaxDeaths
    BY Bounds, FileFacts DEF Init
<1>2. TypeOK
    BY <1>1 DEF Init, TypeOK
<1>3. MarkedInv /\ WipeInv /\ MemoryInv /\ BotInv
    BY DEF Init, MarkedInv, WipeInv, MemoryInv, BotInv, Running
<1> QED
    BY <1>2, <1>3 DEF IInv

-----------------------------------------------------------------------------
LEMMA TypeStep == TypeOK /\ BotInv /\ [Next]_vars => TypeOK'
<1> SUFFICES ASSUME TypeOK, BotInv PROVE [Next]_vars => TypeOK'
    OBVIOUS
<1> USE DEF TypeOK
<1>1. Deploy => TypeOK'
    BY DEF Deploy
<1>2. Stop => TypeOK'
    BY DEF Stop, KillBot
<1>3. Boot \/ EndWipe => TypeOK'
    BY FileFacts DEF Boot, EndWipe, Wiping
<1>4. ReadMarker \/ OpenMarker \/ MarkerFails => TypeOK'
    BY DEF ReadMarker, OpenMarker, MarkerFails
<1>5. ASSUME RemoveFile PROVE TypeOK'
    <2>1. file' \in [Files -> SUBSET Coins] /\ next' \in 1 .. Len(StateFiles) + 1
        BY <1>5, FileFacts DEF RemoveFile
    <2>2. corrupt' \in BOOLEAN /\ faulty' \in BOOLEAN
        BY <1>5 DEF RemoveFile
    <2> QED
        BY <1>5, <2>1, <2>2 DEF RemoveFile
<1>6. WriteMarker => TypeOK'
    BY DEF WriteMarker, Settings
<1>7. ASSUME Spawn PROVE TypeOK'
    <2>1. backoff' \in 1 .. MaxBackoff /\ deaths' \in 0 .. MaxDeaths
        BY <1>7, Bounds DEF Spawn
    <2> QED
        BY <1>7, <2>1 DEF Spawn, StartBot
<1>8. WebExit => TypeOK'
    BY DEF WebExit, KillBot
<1>9. ASSUME BotExit PROVE TypeOK'
    <2>1. Min({deaths + 1, MaxDeaths}) \in 1 .. MaxDeaths
        BY Bounds, MinOfTwo
    <2>2. backoff' \in 1 .. MaxBackoff /\ deaths' \in 0 .. MaxDeaths
        BY <1>9, <2>1, Bounds DEF BotExit
    <2> QED
        BY <1>9, <2>2 DEF BotExit
<1>10. ASSUME Restart PROVE TypeOK'
    <2>1. Min({2 * backoff, MaxBackoff}) \in 1 .. MaxBackoff
        BY Bounds, MinOfTwo
    <2> QED
        BY <1>10, <2>1 DEF Restart, StartBot
<1>11. WebDies \/ BotDies \/ MinutePasses => TypeOK'
    BY DEF WebDies, BotDies, MinutePasses
<1>12. Load \/ GiveUpTick \/ Spoil => TypeOK'
    BY FileFacts DEF Load, GiveUpTick, Spoil
<1>13. ASSUME Save PROVE TypeOK'
    <2>1. clocks \cup {env.mint} \subseteq Coins
        BY <1>13 DEF Save, Settings, BotInv
    <2>2. file' \in [Files -> SUBSET Coins]
        BY <1>13, <2>1, FileFacts DEF Save
    <2> QED
        BY <1>13, <2>2 DEF Save
<1>14. (\E f \in Files : Write(f)) => TypeOK'
    BY FileFacts DEF Write, Settings
<1>15. UNCHANGED vars => TypeOK'
    BY DEF vars
<1> QED
    BY <1>1, <1>2, <1>3, <1>4, <1>5, <1>6, <1>7, <1>8, <1>9, <1>10, <1>11,
       <1>12, <1>13, <1>14, <1>15 DEF Next, Supervisor

-----------------------------------------------------------------------------
\* What the bot writes of a coin it was launched for is that coin's.
LEMMA BotWrites ==
    ASSUME IInv, NEW f \in Files, Save \/ Write(f)
    PROVE  /\ UNCHANGED <<env, marker, pc, next, faulty>> /\ Running
           /\ ~faulty => \A g \in Files : file'[g] \subseteq {marker'}
<1>1. Running /\ env.mint # NoCoin
    BY DEF Save, Write, IInv, TypeOK, BotInv
<1>2. ~faulty => env.mint = marker /\ clocks \subseteq {marker}
    BY <1>1, FileFacts DEF IInv, MarkedInv, MemoryInv
<1> QED
    BY <1>1, <1>2, FileFacts DEF Save, Write, IInv, TypeOK, MarkedInv

\* No file gains data by a wipe.
LEMMA WipeRemoves ==
    ASSUME TypeOK, RemoveFile
    PROVE  /\ \A f \in Files : file'[f] \subseteq file[f]
           /\ ~faulty' => /\ ~faulty
                          /\ file' = [file EXCEPT ![StateFiles[next]] = {}]
BY FileFacts DEF RemoveFile, TypeOK

LEMMA MarkedStep == IInv /\ [Next]_vars => MarkedInv'
<1> SUFFICES ASSUME IInv, [Next]_vars PROVE MarkedInv'
    OBVIOUS
<1> USE DEF MarkedInv, Running
<1>1. CASE Deploy \/ Stop
    BY <1>1 DEF Deploy, Stop, IInv
<1>2. CASE Boot \/ EndWipe
    BY <1>2 DEF Boot, EndWipe, Wiping, IInv
<1>3. CASE RemoveFile
    <2>1. UNCHANGED <<marker, pc>> /\ Wiping
        BY <1>3 DEF RemoveFile
    <2> QED
        BY <1>3, <2>1, WipeRemoves DEF IInv, Wiping
<1>4. CASE ReadMarker
    BY <1>4 DEF ReadMarker, IInv
<1>5. CASE OpenMarker \/ WriteMarker \/ MarkerFails
    BY <1>5 DEF OpenMarker, WriteMarker, MarkerFails, IInv, WipeInv
<1>6. CASE Spawn \/ WebExit \/ BotExit \/ Restart
    BY <1>6 DEF Spawn, WebExit, BotExit, Restart, IInv
<1>7. CASE \/ WebDies \/ BotDies \/ MinutePasses \/ Load \/ GiveUpTick \/ Spoil
           \/ UNCHANGED vars
    BY <1>7 DEF WebDies, BotDies, MinutePasses, Load, GiveUpTick, Spoil, vars, IInv
<1>8. ASSUME NEW f \in Files, Save \/ Write(f) PROVE MarkedInv'
    BY <1>8, BotWrites DEF IInv
<1> QED
    BY <1>1, <1>2, <1>3, <1>4, <1>5, <1>6, <1>7, <1>8, FileFacts DEF Next, Supervisor

-----------------------------------------------------------------------------
LEMMA WipeStep == IInv /\ [Next]_vars => WipeInv'
<1> SUFFICES ASSUME IInv, [Next]_vars PROVE WipeInv'
    OBVIOUS
<1> USE DEF WipeInv
<1>1. CASE Deploy \/ Stop
    BY <1>1 DEF Deploy, Stop, IInv
<1>2. CASE Boot
    BY <1>2 DEF Boot, IInv
<1>3. CASE RemoveFile
    <2>1. UNCHANGED <<env, marker, pc>> /\ Wiping /\ next' = next + 1
        BY <1>3 DEF RemoveFile
    <2>2. ASSUME pc = "coin", ~faulty', NEW i \in 1 .. next
          PROVE  file'[StateFiles[i]] = {}
        <3>1. StateFiles[i] \in Files
            BY <1>3, FileFacts DEF RemoveFile, IInv, TypeOK
        <3>2. CASE i = next
            BY <1>3, <2>2, <3>1, <3>2, WipeRemoves DEF IInv, TypeOK
        <3>3. CASE i \in 1 .. next - 1
            BY <1>3, <2>2, <3>1, <3>3, WipeRemoves DEF IInv, TypeOK
        <3> QED
            BY <3>2, <3>3 DEF IInv, TypeOK
    <2> QED
        BY <2>1, <2>2 DEF IInv, TypeOK, Wiping
<1>4. CASE EndWipe
    <2>1. UNCHANGED <<env, marker, file, faulty>> /\ pc' \in {"read", "mark"} /\ next' = 1
        BY <1>4 DEF EndWipe
    <2>2. ASSUME pc' = "mark", ~faulty, NEW f \in Files PROVE file[f] = {}
        <3>1. pc = "coin" /\ next > Len(StateFiles)
            BY <1>4, <2>2 DEF EndWipe, Wiping
        <3>2. PICK i \in 1 .. Len(StateFiles) : f = StateFiles[i]
            BY DEF Files
        <3> QED
            BY <2>2, <3>1, <3>2, FileFacts DEF IInv, TypeOK
    <2>3. pc' = "mark" => pc = "coin"
        BY <1>4 DEF EndWipe, Wiping
    <2> QED
        BY <2>1, <2>2, <2>3 DEF IInv
<1>5. CASE ReadMarker
    <2>1. ASSUME pc' = "mark", ~faulty, NEW f \in Files PROVE file[f] = {}
        <3>1. marker = NoCoin
            BY <1>5, <2>1 DEF ReadMarker
        <3> QED
            BY <2>1, <3>1, LauncherAssumption DEF IInv, TypeOK, MarkedInv
    <2>2. UNCHANGED <<env, marker, file, faulty, next>> /\ next = 1
        BY <1>5 DEF ReadMarker, IInv
    <2>3. pc' = "coin" => \A i \in 1 .. next' - 1 : file'[StateFiles[i]] = {}
        BY <2>2
    <2>4. /\ pc' \in {"spawn", "mark", "coin"}
          /\ pc' \in {"mark", "coin"} => env.mint \notin {NoCoin, marker}
        BY <1>5 DEF ReadMarker
    <2> QED
        BY <2>1, <2>2, <2>3, <2>4
<1>6. CASE OpenMarker \/ WriteMarker \/ MarkerFails
    BY <1>6 DEF OpenMarker, WriteMarker, MarkerFails, IInv
<1>7. CASE Spawn \/ WebExit \/ BotExit \/ Restart
    BY <1>7 DEF Spawn, WebExit, BotExit, Restart, IInv
<1>8. CASE \/ WebDies \/ BotDies \/ MinutePasses \/ Load \/ GiveUpTick \/ Spoil
           \/ UNCHANGED vars
    BY <1>8 DEF WebDies, BotDies, MinutePasses, Load, GiveUpTick, Spoil, vars, IInv
<1>9. ASSUME NEW f \in Files, Save \/ Write(f) PROVE WipeInv'
    BY <1>9, BotWrites DEF IInv, Running
<1> QED
    BY <1>1, <1>2, <1>3, <1>4, <1>5, <1>6, <1>7, <1>8, <1>9, FileFacts
       DEF Next, Supervisor

LEMMA MemoryStep == IInv /\ [Next]_vars => MemoryInv' /\ BotInv'
<1> SUFFICES ASSUME IInv, [Next]_vars PROVE MemoryInv' /\ BotInv'
    OBVIOUS
<1> USE DEF MemoryInv, BotInv, Running
<1>1. CASE Deploy \/ Stop
    BY <1>1 DEF Deploy, Stop, KillBot, IInv
<1>2. CASE Boot \/ EndWipe \/ ReadMarker \/ OpenMarker \/ WriteMarker \/ MarkerFails
    BY <1>2 DEF Boot, EndWipe, ReadMarker, OpenMarker, WriteMarker, MarkerFails,
                Wiping, IInv
<1>3. CASE RemoveFile
    <2>1. pc \notin {"poll", "wait"} /\ UNCHANGED <<env, pc, bot, clocks>>
        BY <1>3 DEF RemoveFile, Wiping
    <2> QED
        BY <2>1 DEF IInv
<1>4. CASE Spawn \/ WebExit \/ BotExit \/ Restart
    BY <1>4 DEF Spawn, StartBot, WebExit, KillBot, BotExit, Restart, IInv
<1>5. CASE WebDies \/ BotDies \/ MinutePasses \/ Load \/ GiveUpTick \/ Spoil
    BY <1>5 DEF WebDies, BotDies, MinutePasses, Load, GiveUpTick, Spoil, IInv
<1>6. CASE Save
    BY <1>6 DEF Save, IInv
<1>7. ASSUME NEW f \in Files, Write(f) PROVE MemoryInv' /\ BotInv'
    <2>1. file'[Loyalty] = file[Loyalty]
        BY <1>7, FileFacts DEF Write, IInv, TypeOK
    <2> QED
        BY <1>7, <2>1 DEF Write, IInv
<1>8. CASE UNCHANGED vars
    BY <1>8 DEF vars, IInv
<1> QED
    BY <1>1, <1>2, <1>3, <1>4, <1>5, <1>6, <1>7, <1>8 DEF Next, Supervisor

LEMMA Invariance == Spec => []IInv
<1>1. Init => IInv
    BY InitInv
<1>2. IInv /\ [Next]_vars => IInv'
    BY TypeStep, MarkedStep, WipeStep, MemoryStep DEF IInv
<1> QED
    BY <1>1, <1>2, PTL DEF Spec

-----------------------------------------------------------------------------
\* The launcher and the bot keep their variables to their types: the backoff
\* stays between a second and its cap.
THEOREM TypeCorrect == Spec => []TypeOK
<1>1. IInv => TypeOK
    BY DEF IInv
<1> QED
    BY <1>1, Invariance, PTL

\* start.py:72: no bot ever runs on another coin's data, unless a file could
\* not be removed or the marker not be written.
THEOREM BooksOfOneCoin == Spec => []CleanBooks
<1>1. IInv => CleanBooks
    BY DEF IInv, MarkedInv, CleanBooks
<1> QED
    BY <1>1, Invariance, PTL

\* start.py:75: no step of a launch loses data of the coin it is for.
THEOREM UnchangedLaunchWipesNothing == Spec => UnchangedLaunchKeepsBooks
<1> DEFINE Kept == \A f \in Files : \A c \in file[f] \ file'[f] :
                       c # env.mint \/ env.wipe \/ faulty
<1>1. ASSUME IInv, Next PROVE Kept
    <2>1. CASE RemoveFile
        <3>1. CASE pc = "flag"
            BY <3>1, <1>1 DEF IInv, WipeInv
        <3>2. CASE pc = "coin"
            BY <3>2, <1>1 DEF IInv, WipeInv, MarkedInv
        <3> QED
            BY <2>1, <3>1, <3>2 DEF RemoveFile, Wiping
    <2>2. CASE Save
        BY <2>2, <1>1, FileFacts DEF Save, IInv, TypeOK, MemoryInv
    <2>3. ASSUME NEW f \in Files, Write(f) PROVE Kept
        <3>1. f # Stats => \A g \in Files : file[g] \subseteq file'[g]
            BY <2>3, <1>1 DEF Write, IInv, TypeOK
        <3>2. f = Stats => /\ \A g \in Files \ {f} : file'[g] = file[g]
                           /\ env.mint \in file'[f]
            BY <2>3, <1>1 DEF Write, IInv, TypeOK
        <3>3. ~faulty => file[f] \subseteq {env.mint}
            BY <2>3, <1>1 DEF Write, IInv, MarkedInv, BotInv, Running
        <3> QED
            BY <3>1, <3>2, <3>3
    <2>4. file' = file => Kept
        OBVIOUS
    <2> QED
        BY <1>1, <2>1, <2>2, <2>3, <2>4
           DEF Next, Supervisor, Deploy, Stop, Boot, EndWipe, ReadMarker,
               OpenMarker, WriteMarker, MarkerFails, Spawn, WebExit, BotExit,
               Restart, WebDies, BotDies, MinutePasses, Load, GiveUpTick, Spoil
<1>2. UNCHANGED vars => Kept
    BY DEF vars
<1>3. IInv /\ [Next]_vars => [Kept]_vars
    BY <1>1, <1>2
<1> QED
    BY <1>3, Invariance, PTL DEF Spec, UnchangedLaunchKeepsBooks

\* loyalty_tracker.py:45: nothing comes between a load and its save, and what
\* does not parse is never replaced.
THEOREM SavesExtend == Spec => SaveExtendsFile
<1>1. IInv /\ [Next]_vars => [Save => clocks = file[Loyalty]]_vars
    BY DEF IInv, MemoryInv, Save
<1> QED
    BY <1>1, Invariance, PTL DEF Spec, SaveExtendsFile

-----------------------------------------------------------------------------
(* The backoff *)

\* Powers of two, from the number of subsets of 1 .. n: those with n + 1 are
\* those without it, n + 1 added.
LEMMA PowersDouble ==
    ASSUME NEW n \in Nat
    PROVE  2 ^ n \in Nat /\ 2 ^ (n + 1) = 2 * 2 ^ n
<1> DEFINE A == SUBSET (1 .. n)
           B == (SUBSET (1 .. n + 1)) \ A
<1>1. /\ IsFiniteSet(A) /\ Cardinality(A) = 2 ^ n
      /\ Cardinality(SUBSET (1 .. n + 1)) = 2 ^ (n + 1)
    <2>1. /\ IsFiniteSet(1 .. n) /\ Cardinality(1 .. n) = n
          /\ IsFiniteSet(1 .. n + 1) /\ Cardinality(1 .. n + 1) = n + 1
        BY FS_Interval
    <2> QED
        BY <2>1, FS_SUBSET
<1>2. ExistsBijection(A, B)
    <2> DEFINE g == [s \in A |-> s \cup {n + 1}]
    <2>1. \A s \in A : n + 1 \notin s /\ g[s] \in B
        OBVIOUS
    <2>2. \A r, s \in A : g[r] = g[s] => r = s
        <3>1. \A s \in A : g[s] \ {n + 1} = s
            BY <2>1
        <3> QED
            BY <3>1
    <2>3. ASSUME NEW u \in B PROVE u \ {n + 1} \in A /\ g[u \ {n + 1}] = u
        <3>1. \A x \in u : x \in 1 .. n \/ x = n + 1
            OBVIOUS
        <3>2. n + 1 \in u /\ u \ {n + 1} \in A
            BY <3>1
        <3> QED
            BY <3>2
    <2>4. g \in [A -> B]
        BY <2>1
    <2> QED
        BY <2>2, <2>3, <2>4
           DEF ExistsBijection, Bijection, Injection, Surjection, IsInjective
<1>3. IsFiniteSet(B) /\ Cardinality(B) = Cardinality(A)
    BY <1>1, <1>2, FS_Bijection
<1>4. A \cup B = SUBSET (1 .. n + 1) /\ A \cap B = {}
    <2>1. A \subseteq SUBSET (1 .. n + 1)
        OBVIOUS
    <2> QED
        BY <2>1
<1> HIDE DEF A, B
<1>5. Cardinality(A \cup B) = Cardinality(A) + Cardinality(B) - 0
    BY <1>1, <1>3, <1>4, FS_Union, FS_EmptySet
<1>6. Cardinality(A) \in Nat
    BY <1>1, FS_CardinalityType
<1>7. Cardinality(A \cup B) = 2 * Cardinality(A)
    BY <1>3, <1>5, <1>6
<1> QED
    BY <1>1, <1>4, <1>6, <1>7, Zenon

\* The waits between restarts are 1, 2, 4, ... seconds up to the cap, with one
\* doubling for every early death in a row and none for anything else.  The
\* deaths counted apart must reach the cap: a bound of the model, not of the
\* code.
THEOREM BackoffDoubles ==
    MaxBackoff <= 2 ^ (MaxDeaths - 1) => (Spec => []BackoffCountsDeaths)
<1> SUFFICES ASSUME MaxBackoff <= 2 ^ (MaxDeaths - 1)
             PROVE  Spec => []BackoffCountsDeaths
    OBVIOUS
<1>1. \A n \in Nat : 2 ^ n \in Nat /\ 2 ^ (n + 1) = 2 * 2 ^ n
    BY PowersDouble
<1>2. 2 ^ 0 = 1
    OBVIOUS
<1> DEFINE W(n) == Min({2 ^ n, MaxBackoff})
<1>3. \A n \in Nat : W(n) = IF 2 ^ n <= MaxBackoff THEN 2 ^ n ELSE MaxBackoff
    BY <1>1, MinOfTwo, Bounds
<1>4. W(0) = 1
    <2>1. W(0) = IF 2 ^ 0 <= MaxBackoff THEN 2 ^ 0 ELSE MaxBackoff
        BY <1>3
    <2> QED
        BY <1>2, <2>1, Bounds
<1>5. \A n \in Nat : Min({2 * W(n), MaxBackoff}) = W(n + 1)
    <2> TAKE n \in Nat
    <2>1. 2 ^ n \in Nat /\ 2 ^ (n + 1) = 2 * 2 ^ n
        BY <1>1
    <2>2. /\ W(n) = IF 2 ^ n <= MaxBackoff THEN 2 ^ n ELSE MaxBackoff
          /\ W(n + 1) = IF 2 * 2 ^ n <= MaxBackoff THEN 2 * 2 ^ n ELSE MaxBackoff
        BY <2>1, <1>3
    <2> HIDE DEF W
    <2>3. W(n) \in Int
        BY <2>1, <2>2, Bounds
    <2>4. Min({2 * W(n), MaxBackoff})
             = IF 2 * W(n) <= MaxBackoff THEN 2 * W(n) ELSE MaxBackoff
        BY <2>3, MinOfTwo, Bounds
    <2> QED
        BY <2>1, <2>2, <2>3, <2>4, Bounds
<1>6. W(MaxDeaths) = W(MaxDeaths - 1)
    <2> DEFINE m == MaxDeaths - 1
    <2>1. m \in Nat /\ m + 1 = MaxDeaths
        BY Bounds
    <2>2. 2 ^ m \in Nat /\ 2 ^ (m + 1) = 2 * 2 ^ m /\ MaxBackoff <= 2 ^ m
        BY <2>1, <1>1
    <2>3. 2 ^ MaxDeaths \in Nat /\ MaxBackoff <= 2 ^ MaxDeaths
        BY <2>1, <2>2, Bounds
    <2>4. W(MaxDeaths) = MaxBackoff
        BY <2>1, <2>3, <1>3, Bounds
    <2>5. W(m) = MaxBackoff
        BY <2>1, <2>2, <1>3, Bounds
    <2> QED
        BY <2>4, <2>5
<1>7. BackoffInv <=> /\ pc = "poll" => backoff = W(deaths)
                     /\ pc = "wait" => deaths # 0 /\ backoff = W(deaths - 1)
    BY DEF BackoffInv
<1>8. BackoffInv' <=> /\ pc' = "poll" => backoff' = W(deaths')
                      /\ pc' = "wait" => deaths' # 0 /\ backoff' = W(deaths' - 1)
    BY DEF BackoffInv
<1> HIDE DEF W
<1>9. Init => BackoffInv
    BY <1>7 DEF Init
<1>10. ASSUME IInv, BackoffInv, [Next]_vars PROVE BackoffInv'
    <2>1. deaths \in 0 .. MaxDeaths
        BY <1>10 DEF IInv, TypeOK
    <2>2. CASE Spawn
        BY <2>2, <1>4, <1>8 DEF Spawn
    <2>3. CASE BotExit
        <3>1. pc' = "wait" /\ backoff = W(deaths)
            BY <2>3, <1>7, <1>10 DEF BotExit
        <3>2. CASE grown
            BY <2>3, <3>1, <3>2, <1>4, <1>8 DEF BotExit
        <3>3. CASE ~grown
            <4>1. /\ backoff' = W(deaths)
                  /\ deaths' = Min({deaths + 1, MaxDeaths})
                BY <2>3, <3>1, <3>3 DEF BotExit
            <4>2. Min({deaths + 1, MaxDeaths})
                     = IF deaths + 1 <= MaxDeaths THEN deaths + 1 ELSE MaxDeaths
                BY <2>1, MinOfTwo, Bounds
            <4>3. CASE deaths # MaxDeaths
                <5>1. deaths' = deaths + 1
                    BY <4>1, <4>2, <4>3, <2>1, Bounds
                <5>2. deaths' # 0 /\ deaths' - 1 = deaths
                    BY <5>1, <2>1
                <5> QED
                    BY <5>2, <4>1, <3>1, <1>8
            <4>4. CASE deaths = MaxDeaths
                <5>1. deaths' = MaxDeaths
                    BY <4>1, <4>2, <4>4, <2>1, Bounds
                <5>2. deaths' # 0 /\ backoff' = W(deaths' - 1)
                    BY <5>1, <4>1, <4>4, <1>6, Bounds
                <5> QED
                    BY <5>2, <3>1, <1>8
            <4> QED
                BY <4>3, <4>4
        <3> QED
            BY <3>2, <3>3
    <2>4. CASE Restart
        <3>1. /\ pc' = "poll" /\ deaths' = deaths
              /\ deaths # 0 /\ backoff = W(deaths - 1)
              /\ backoff' = Min({2 * backoff, MaxBackoff})
            BY <2>4, <1>7, <1>10 DEF Restart
        <3>2. deaths - 1 \in Nat /\ (deaths - 1) + 1 = deaths
            BY <3>1, <2>1
        <3>3. backoff' = W(deaths)
            BY <3>1, <3>2, <1>5
        <3> QED
            BY <3>1, <3>3, <1>8
    <2>5. CASE UNCHANGED <<pc, backoff, deaths>>
        BY <2>5, <1>7, <1>8, <1>10
    <2>6. CASE pc' \notin {"poll", "wait"}
        BY <2>6, <1>8
    <2>7. \/ Spawn \/ BotExit \/ Restart
          \/ UNCHANGED <<pc, backoff, deaths>>
          \/ pc' \notin {"poll", "wait"}
        BY <1>10
           DEF Next, Supervisor, Deploy, Stop, Boot, RemoveFile, EndWipe,
               ReadMarker, OpenMarker, WriteMarker, MarkerFails, WebExit,
               WebDies, BotDies, MinutePasses, Load, GiveUpTick, Save, Write,
               Spoil, Wiping, vars
    <2> QED
        BY <2>2, <2>3, <2>4, <2>5, <2>6, <2>7
<1>11. BackoffInv => BackoffCountsDeaths
    BY DEF BackoffInv, BackoffCountsDeaths
<1> QED
    BY <1>9, <1>10, <1>11, Invariance, PTL DEF Spec
=============================================================================

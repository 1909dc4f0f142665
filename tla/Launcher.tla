------------------------------ MODULE Launcher ------------------------------
(***************************************************************************)
(* src/start.py: at the boot of a container the data volume is wiped for a *)
(* new coin, then the web and the bot are started and supervised.  The     *)
(* bot is its reads and writes of the volume (src/bot/loyalty_tracker.py,  *)
(* src/bot/cycle.py).                                                      *)
(*                                                                         *)
(* The platform stops the container between any two steps and starts it    *)
(* again, perhaps with other settings; either child dies at any time; the  *)
(* disk may refuse to remove a file, to write the marker, or spoil a file. *)
(*                                                                         *)
(* Abstractions: of a file only whose coins' data it holds; of time only   *)
(* whether a minute has passed since the bot was started.                  *)
(***************************************************************************)
EXTENDS Integers, Sequences, FiniteSetsExt

CONSTANTS
    Coins,          \* values of LOYALTY_MINT
    NoCoin,         \* LOYALTY_MINT is not set; the marker is absent or empty
    StateFiles,     \* _STATE_FILES, in the order they are removed
    MaxBackoff,     \* seconds, the cap of the backoff
    DiskFaults,     \* may a disk operation fail or a file be spoilt?
    MaxDeaths       \* bound: early deaths of the bot that are counted apart

Files == {StateFiles[i] : i \in 1 .. Len(StateFiles)}
Loyalty == "loyalty_state.json"
Stats == "stats.json"

ASSUME LauncherAssumption ==
    /\ StateFiles \in Seq(STRING)
    /\ {Loyalty, Stats} \subseteq Files
    /\ NoCoin \notin Coins
    /\ {MaxBackoff, MaxDeaths} \subseteq Nat \ {0}
    /\ DiskFaults \in BOOLEAN

VARIABLES
    env,        \* settings of the deployment: LOYALTY_MINT, WIPE_DATA
    marker,     \* mint.txt
    file,       \* [Files -> the coins whose data the file holds]
    corrupt,    \* the state file does not parse
    pc,         \* the step of the launcher about to run
    next,       \* index of the next file to remove
    web,        \* is the web process alive?
    bot,        \* "dead", "up", or "loaded" between load and save
    clocks,     \* whose data the state dict in its memory holds
    grown,      \* over a minute since the bot was started
    backoff,    \* seconds
    deaths,     \* ghost: deaths in a row within a minute of the start
    faulty      \* ghost: a file could not be removed, or the marker written

volume == <<marker, file, corrupt>>
boot == <<pc, next>>
process == <<bot, clocks, grown>>
retry == <<backoff, deaths>>
vars == <<env, volume, boot, web, process, retry, faulty>>

Settings == [mint : Coins \cup {NoCoin}, wipe : BOOLEAN]
Wiping == pc \in {"flag", "coin"}
Running == pc \in {"poll", "wait"}

Init ==
    /\ env \in Settings
    /\ marker = NoCoin
    /\ file = [f \in Files |-> {}]
    /\ corrupt = FALSE
    /\ pc = "down" /\ next = 1
    /\ web = FALSE
    /\ bot = "dead" /\ clocks = {} /\ grown = FALSE
    /\ backoff = 1 /\ deaths = 0
    /\ faulty = FALSE

KillBot == bot' = "dead" /\ clocks' = {} /\ grown' = FALSE

-----------------------------------------------------------------------------
(* The platform *)

Deploy ==
    /\ pc = "down"
    /\ env' \in Settings \ {env}
    /\ UNCHANGED <<volume, boot, web, process, retry, faulty>>

\* A redeploy (SIGTERM, passed on to both children), or a crash of the host.
Stop ==
    /\ pc # "down"
    /\ pc' = "down"
    /\ web' = FALSE
    /\ KillBot
    /\ UNCHANGED <<env, volume, next, retry, faulty>>

-----------------------------------------------------------------------------
(* _maybe_wipe_state() *)

\* WIPE_DATA removes every state file, whatever the coin.
Boot ==
    /\ pc = "down"
    /\ pc' = IF env.wipe THEN "flag" ELSE "read"
    /\ next' = 1
    /\ UNCHANGED <<env, volume, web, process, retry, faulty>>

\* A file that cannot be removed is reported and left.
RemoveFile ==
    /\ Wiping
    /\ next <= Len(StateFiles)
    /\ LET f == StateFiles[next] IN
       \/ /\ file' = [file EXCEPT ![f] = {}]
          /\ corrupt' = (corrupt /\ f # Loyalty)
          /\ UNCHANGED faulty
       \/ /\ DiskFaults /\ file[f] # {}
          /\ faulty' = TRUE
          /\ UNCHANGED <<file, corrupt>>
    /\ next' = next + 1
    /\ UNCHANGED <<env, marker, pc, web, process, retry>>

\* Mutant: the marker is left after a wipe.
EndWipeUnmarked ==
    /\ Wiping
    /\ next > Len(StateFiles)
    /\ pc' = IF pc = "flag" THEN "read" ELSE "spawn"
    /\ next' = 1
    /\ UNCHANGED <<env, volume, web, process, retry, faulty>>

EndWipe ==
    /\ Wiping
    /\ next > Len(StateFiles)
    /\ pc' = IF pc = "flag" THEN "read" ELSE "mark"
    /\ next' = 1
    /\ UNCHANGED <<env, volume, web, process, retry, faulty>>

\* Mutant: the marker is written before the files are removed.
MarkFirst ==
    /\ pc = "read"
    /\ pc' = IF marker # NoCoin /\ env.mint \notin {NoCoin, marker} THEN "coin"
             ELSE "spawn"
    /\ marker' = IF env.mint = NoCoin THEN marker ELSE env.mint
    /\ UNCHANGED <<env, file, corrupt, next, web, process, retry, faulty>>

\* An unset coin leaves everything; an empty marker wipes nothing.
ReadMarker ==
    /\ pc = "read"
    /\ pc' = IF env.mint \in {NoCoin, marker} THEN "spawn"
             ELSE IF marker = NoCoin THEN "mark" ELSE "coin"
    /\ UNCHANGED <<env, volume, next, web, process, retry, faulty>>

\* open(marker, "w") empties the file before anything is written to it.
OpenMarker ==
    /\ pc = "mark"
    /\ marker' = NoCoin
    /\ pc' = "write"
    /\ UNCHANGED <<env, file, corrupt, next, web, process, retry, faulty>>

WriteMarker ==
    /\ pc = "write"
    /\ marker' = env.mint
    /\ pc' = "spawn"
    /\ UNCHANGED <<env, file, corrupt, next, web, process, retry, faulty>>

\* Opening or writing fails: reported, and the launch goes on.
MarkerFails ==
    /\ DiskFaults
    /\ pc \in {"mark", "write"}
    /\ faulty' = TRUE
    /\ pc' = "spawn"
    /\ UNCHANGED <<env, volume, next, web, process, retry>>

-----------------------------------------------------------------------------
(* main(): start both, then look every second *)

StartBot == bot' = "up" /\ clocks' = {} /\ grown' = FALSE

Spawn ==
    /\ pc = "spawn"
    /\ web' = TRUE
    /\ StartBot
    /\ backoff' = 1 /\ deaths' = 0
    /\ pc' = "poll"
    /\ UNCHANGED <<env, volume, next, faulty>>

\* Mutant: a dead web is only looked for while the bot is alive.
WebExitBotUp ==
    /\ pc = "poll" /\ ~web /\ bot # "dead"
    /\ KillBot
    /\ pc' = "down"
    /\ UNCHANGED <<env, volume, next, web, retry, faulty>>

\* Without the web the container goes down, the bot with it.
WebExit ==
    /\ pc = "poll" /\ ~web
    /\ KillBot
    /\ pc' = "down"
    /\ UNCHANGED <<env, volume, next, web, retry, faulty>>

\* Mutant: the backoff is never reset.
BotExitNoReset ==
    /\ pc = "poll" /\ web /\ bot = "dead"
    /\ deaths' = IF grown THEN 1 ELSE Min({deaths + 1, MaxDeaths})
    /\ grown' = FALSE
    /\ pc' = "wait"
    /\ UNCHANGED <<env, volume, next, web, bot, clocks, backoff, faulty>>

\* The bot was found dead; a minute of health forgives its earlier deaths.
BotExit ==
    /\ pc = "poll" /\ web /\ bot = "dead"
    /\ backoff' = IF grown THEN 1 ELSE backoff
    /\ deaths' = IF grown THEN 1 ELSE Min({deaths + 1, MaxDeaths})
    /\ grown' = FALSE
    /\ pc' = "wait"
    /\ UNCHANGED <<env, volume, next, web, bot, clocks, faulty>>

\* Mutant: the backoff is not capped.
RestartUncapped ==
    /\ pc = "wait"
    /\ backoff' = 2 * backoff
    /\ StartBot
    /\ pc' = "poll"
    /\ UNCHANGED <<env, volume, next, web, deaths, faulty>>

\* The end of the sleep, during which nobody looks at the web.
Restart ==
    /\ pc = "wait"
    /\ backoff' = Min({2 * backoff, MaxBackoff})
    /\ StartBot
    /\ pc' = "poll"
    /\ UNCHANGED <<env, volume, next, web, deaths, faulty>>

Supervisor ==
    \/ Boot \/ RemoveFile \/ EndWipe \/ ReadMarker \/ OpenMarker \/ WriteMarker
    \/ MarkerFails \/ Spawn \/ WebExit \/ BotExit \/ Restart

-----------------------------------------------------------------------------
(* The children *)

WebDies ==
    /\ web
    /\ web' = FALSE
    /\ UNCHANGED <<env, volume, boot, process, retry, faulty>>

BotDies ==
    /\ bot # "dead"
    /\ bot' = "dead" /\ clocks' = {}
    /\ UNCHANGED <<env, volume, boot, web, grown, retry, faulty>>

\* Missing settings make the bot exit (config.py) before its first tick.
MinutePasses ==
    /\ bot # "dead" /\ env.mint # NoCoin
    /\ grown' = TRUE
    /\ UNCHANGED <<env, volume, boot, web, bot, clocks, retry, faulty>>

\* Mutant: a file that does not parse counts as a first run.
LoadOrStartOver ==
    /\ bot = "up" /\ env.mint # NoCoin
    /\ bot' = "loaded"
    /\ clocks' = IF corrupt THEN {} ELSE file[Loyalty]
    /\ UNCHANGED <<env, volume, boot, web, grown, retry, faulty>>

\* load_state(): what does not parse raises, and the tick is given up.
Load ==
    /\ bot = "up" /\ env.mint # NoCoin
    /\ ~corrupt
    /\ bot' = "loaded"
    /\ clocks' = file[Loyalty]
    /\ UNCHANGED <<env, volume, boot, web, grown, retry, faulty>>

\* A tick that fails before its save.
GiveUpTick ==
    /\ bot = "loaded"
    /\ bot' = "up" /\ clocks' = {}
    /\ UNCHANGED <<env, volume, boot, web, grown, retry, faulty>>

\* update() adds this coin's holders to what was loaded; save_state().
Save ==
    /\ bot = "loaded"
    /\ file' = [file EXCEPT ![Loyalty] = clocks \cup {env.mint}]
    /\ corrupt' = FALSE
    /\ bot' = "up" /\ clocks' = {}
    /\ UNCHANGED <<env, marker, boot, web, grown, retry, faulty>>

\* The rest of a tick: the stats are replaced, every other file is added to.
Write(f) ==
    /\ bot = "up" /\ env.mint # NoCoin
    /\ f # Loyalty
    /\ file' = [file EXCEPT ![f] =
                   (IF f = Stats THEN file[Loyalty] ELSE @) \cup {env.mint}]
    /\ UNCHANGED <<env, marker, corrupt, boot, web, process, retry, faulty>>

Spoil ==
    /\ DiskFaults
    /\ file[Loyalty] # {}
    /\ corrupt' = TRUE
    /\ UNCHANGED <<env, marker, file, boot, web, process, retry, faulty>>

Next ==
    \/ Deploy \/ Stop \/ Supervisor
    \/ WebDies \/ BotDies \/ MinutePasses
    \/ Load \/ GiveUpTick \/ Save \/ (\E f \in Files : Write(f)) \/ Spoil

Spec == Init /\ [][Next]_vars

\* The platform restarts a container that went down, and a launcher that is
\* not killed goes on.
FairSpec == Spec /\ WF_vars(Supervisor)

-----------------------------------------------------------------------------
\* Every variable has its type, and the backoff its bounds.
TypeOK ==
    /\ env \in Settings
    /\ marker \in Coins \cup {NoCoin}
    /\ file \in [Files -> SUBSET Coins]
    /\ pc \in {"down", "flag", "read", "coin", "mark", "write", "spawn",
               "poll", "wait"}
    /\ next \in 1 .. Len(StateFiles) + 1
    /\ bot \in {"dead", "up", "loaded"}
    /\ clocks \subseteq Coins
    /\ corrupt \in BOOLEAN /\ web \in BOOLEAN /\ grown \in BOOLEAN
    /\ faulty \in BOOLEAN
    /\ backoff \in 1 .. MaxBackoff
    /\ deaths \in 0 .. MaxDeaths

\* "A new coin means a fresh loyalty clock; old holders are irrelevant"
\* (start.py:72): whatever redeploys and stops led here, in the middle of a
\* wipe or of writing the marker too, the bot of a coin runs on files that
\* hold no other coin's data, as long as no disk operation has failed.
CleanBooks ==
    Running /\ env.mint # NoCoin /\ ~faulty =>
        \A f \in Files : file[f] \subseteq {env.mint}

\* "Never wipes an unchanged launch" (start.py:75): data of the coin that is
\* being launched are lost only if WIPE_DATA asks for it; the wipe that a stop
\* makes necessary twice finds nothing of the new coin.
UnchangedLaunchKeepsBooks ==
    [][\A f \in Files : \A c \in file[f] \ file'[f] :
          c # env.mint \/ env.wipe \/ faulty]_vars

\* A save replaces the clocks it was made from and no others: no wipe has come
\* between load and save (start.py:68), and a file that does not parse is not
\* replaced by clocks that start over (loyalty_tracker.py:45).
SaveExtendsFile == [][Save => clocks = file[Loyalty]]_vars

\* The wait before a restart doubles with every early death in a row up to the
\* cap, and depends on nothing else: neither an old death nor another fault.
BackoffCountsDeaths ==
    pc = "wait" => backoff = Min({2 ^ (deaths - 1), MaxBackoff})

\* "The lander stays up ... and a bot crash self-heals" (start.py:11): unless
\* the platform keeps stopping the container, a dead bot and a dead web are
\* both running again some time, even if the bot cannot start at all.
BothComeBack ==
    <>[][~Stop]_vars =>
        [](bot = "dead" => <>(bot # "dead")) /\ [](~web => <>web)
-----------------------------------------------------------------------------
(* The inductive invariant behind the properties of the data *)

\* Without disk faults every file is the marked coin's; an empty marker is a
\* volume that nobody has written to.
MarkedInv ==
    /\ ~faulty => \A f \in Files : file[f] \subseteq {marker}
    /\ ~faulty /\ (pc = "spawn" \/ Running) => env.mint \in {NoCoin, marker}

\* How far the launcher has come with a wipe, and why it makes it.
WipeInv ==
    /\ pc = "flag" => env.wipe
    /\ pc = "read" => next = 1
    /\ pc \in {"coin", "mark", "write"} => env.mint # NoCoin
    /\ pc \in {"coin", "mark"} => env.mint # marker
    /\ pc = "coin" /\ ~faulty =>
          \A i \in 1 .. next - 1 : file[StateFiles[i]] = {}
    /\ pc \in {"mark", "write"} /\ ~faulty => \A f \in Files : file[f] = {}

\* Between load and save the file is what was loaded.
MemoryInv == clocks = IF bot = "loaded" THEN file[Loyalty] ELSE {}

\* Only a started container has a bot, and one without a coin makes no tick.
BotInv ==
    /\ bot # "dead" => Running
    /\ bot = "loaded" => env.mint # NoCoin

\* The backoff the next early death will find: the doublings since the last
\* reset are the early deaths in a row.
BackoffInv ==
    /\ pc = "poll" => backoff = Min({2 ^ deaths, MaxBackoff})
    /\ pc = "wait" => deaths # 0 /\ backoff = Min({2 ^ (deaths - 1), MaxBackoff})

IInv == TypeOK /\ MarkedInv /\ WipeInv /\ MemoryInv /\ BotInv
=============================================================================

------------------------ MODULE PoolExclusionProofs ------------------------
(* Proofs about PoolExclusion: NoPoolPaid, WebShowsThePaid and               *)
(* WebShowsNoPool for every set of owners and every batch size.              *)
EXTENDS PoolExclusion, TLAPS

USE DEF memory, lookup, web, CutShort

LEMMA InitInv == Init => IInv
BY ExclusionAssumption
   DEF Init, IInv, TypeOK, LookedUpInv, AskedInv, PayInv, WebInv, Kinds,
       Standings, Earning, Entered, Programs, Excluded

\* What an account's change can do to the owners that matter.
LEMMA ChangeStep ==
    ASSUME NEW o \in Owners, Change(o), TypeOK, LookedUpInv
    PROVE  /\ Programs' \subseteq Programs \cup {o}
           /\ late \cap Programs' \subseteq late'
           /\ o \in Programs' /\ o \in classified \cup asked \cup copy \cup Entered
              => o \in late'
           /\ Entered' = Entered /\ Excluded' = Excluded
           /\ Earning(holding)' = Earning(holding)
<1>1. PICK k \in Kinds \ {account[o]} : account' = [account EXCEPT ![o] = k]
    BY DEF Change
<1>2. Programs' \subseteq Programs \cup {o}
    BY <1>1 DEF Programs, TypeOK
<1>3. o \in Programs' <=> account'[o] = "program"
    BY DEF Programs
<1>4. late \cap Programs' \subseteq late'
    <2>1. o \in late => account[o] = "program"
        BY DEF LookedUpInv, Programs
    <2>2. o \in late => account'[o] # "program"
        BY <1>1, <2>1 DEF TypeOK, Kinds
    <2>3. late' = late \cup {o} \/ late' = late \ {o}
        BY DEF Change
    <2> QED
        BY <1>3, <2>2, <2>3
<1>5. o \in Programs' /\ o \in classified \cup asked \cup copy \cup Entered => o \in late'
    BY <1>3 DEF Change
<1>6. UNCHANGED <<holding, pools>>
    BY DEF Change
<1> QED
    BY <1>2, <1>4, <1>5, <1>6 DEF Entered, Excluded, Earning

LEMMA TypeStep == TypeOK /\ [Next]_vars => TypeOK'
<1> SUFFICES ASSUME TypeOK, [Next]_vars PROVE TypeOK'
    OBVIOUS
<1> USE ExclusionAssumption DEF TypeOK
<1>1. CASE \E o \in Owners \ Static : Change(o)
    BY <1>1 DEF Change, Kinds
<1>2. CASE Snapshot
    <2>1. PICK live \in SUBSET Owners : \E above \in SUBSET live :
          \E kept \in SUBSET above :
             /\ holding' = [o \in Owners |->
                   IF o \in above THEN Standing(o, kept) ELSE "out"]
             /\ unasked' = IF Autodetect THEN live \ (classified \cup Excluded)
                                         ELSE {}
        BY <1>2 DEF Snapshot
    <2>2. holding' \in [Owners -> Standings] /\ unasked' \subseteq Owners
        BY <2>1 DEF Standing, Standings
    <2> QED
        BY <1>2, <2>2 DEF Snapshot
<1>3. CASE Ask
    BY <1>3 DEF Ask, kSubset
<1>4. CASE LookupFails \/ Classify \/ Publish \/ EndTick
    BY <1>4 DEF LookupFails, Classify, Publish, EndTick, Forget, Excluded, Earning
<1>5. CASE AbortTick \/ Die
    BY <1>5 DEF AbortTick, Die, Forget
<1>6. CASE ReadState \/ ReadStats
    BY <1>6 DEF ReadState, ReadStats, Earning
<1>7. CASE UNCHANGED vars
    BY <1>7 DEF vars
<1> QED
    BY <1>1, <1>2, <1>3, <1>4, <1>5, <1>6, <1>7 DEF Next, Bot

-----------------------------------------------------------------------------
LEMMA LookedUpStep == IInv /\ [Next]_vars => LookedUpInv'
<1> SUFFICES ASSUME IInv, [Next]_vars PROVE LookedUpInv'
    OBVIOUS
<1> USE DEF LookedUpInv
<1>1. ASSUME NEW o \in Owners \ Static, Change(o) PROVE LookedUpInv'
    <2>1. UNCHANGED <<classified, pools, asked, found, pc>>
        BY <1>1 DEF Change
    <2>2. late' \subseteq Programs'
        BY <1>1 DEF IInv, TypeOK, Change, Programs
    <2> QED
        BY <1>1, <2>1, <2>2, ChangeStep DEF IInv
<1>2. CASE Snapshot \/ LookupFails \/ ReadState \/ ReadStats \/ UNCHANGED vars
    BY <1>2 DEF IInv, Snapshot, LookupFails, ReadState, ReadStats, vars, Programs
<1>3. CASE Ask
    BY <1>3 DEF IInv, Ask, kSubset, Programs
<1>4. CASE Classify
    BY <1>4 DEF IInv, Classify, Programs
<1>5. CASE Publish \/ EndTick \/ AbortTick \/ Die
    BY <1>5 DEF IInv, Publish, EndTick, AbortTick, Die, Forget, Programs
<1> QED
    BY <1>1, <1>2, <1>3, <1>4, <1>5 DEF Next, Bot

LEMMA PayStep == IInv /\ [Next]_vars => PayInv'
<1> SUFFICES ASSUME IInv, [Next]_vars PROVE PayInv'
    OBVIOUS
<1> USE DEF PayInv
<1>1. ASSUME NEW o \in Owners \ Static, Change(o) PROVE PayInv'
    BY <1>1, ChangeStep DEF IInv, Change
<1>2. CASE Snapshot \/ Ask \/ LookupFails \/ Classify
    BY <1>2 DEF IInv, Snapshot, Ask, LookupFails, Classify
<1>3. CASE Publish
    BY <1>3 DEF Publish, Excluded, Earning
<1>4. CASE EndTick \/ AbortTick \/ Die
    BY <1>4 DEF EndTick, AbortTick, Die, Forget
<1>5. CASE ReadState \/ ReadStats \/ UNCHANGED vars
    BY <1>5 DEF IInv, ReadState, ReadStats, vars, Excluded, Earning
<1> QED
    BY <1>1, <1>2, <1>3, <1>4, <1>5 DEF Next, Bot

LEMMA AskedStep == IInv /\ Autodetect /\ [Next]_vars => AskedInv'
<1> SUFFICES ASSUME IInv, Autodetect, [Next]_vars PROVE AskedInv'
    OBVIOUS
<1> USE DEF AskedInv, IInv
<1>1. ASSUME NEW o \in Owners \ Static, Change(o) PROVE AskedInv'
    BY <1>1, ChangeStep DEF Change
<1>2. CASE Snapshot
    <2>1. PICK live \in SUBSET Owners : \E above \in SUBSET live :
          \E kept \in SUBSET above :
             /\ holding' = [o \in Owners |->
                   IF o \in above THEN Standing(o, kept) ELSE "out"]
             /\ unasked' = IF Autodetect THEN live \ (classified \cup Excluded)
                                         ELSE {}
        BY <1>2 DEF Snapshot
    <2>2. Entered' \subseteq live /\ unasked' = live \ (classified \cup Excluded)
        BY <2>1 DEF Entered
    <2>3. Excluded \subseteq Static \cup classified
        BY DEF Excluded, TypeOK
    <2> QED
        BY <1>2, <2>2, <2>3 DEF Snapshot
<1>3. CASE Ask
    BY <1>3 DEF Ask, kSubset, Entered
<1>4. CASE LookupFails \/ Classify \/ Publish
    BY <1>4 DEF LookupFails, Classify, Publish, Entered
<1>5. CASE EndTick \/ AbortTick \/ Die
    BY <1>5 DEF EndTick, AbortTick, Die, Forget, Entered
<1>6. CASE ReadState \/ ReadStats \/ UNCHANGED vars
    BY <1>6 DEF ReadState, ReadStats, vars, Entered
<1> QED
    BY <1>1, <1>2, <1>3, <1>4, <1>5, <1>6 DEF Next, Bot

-----------------------------------------------------------------------------
LEMMA WebStep == IInv /\ Autodetect /\ [Next]_vars => WebInv'
<1> SUFFICES ASSUME IInv, Autodetect, [Next]_vars PROVE WebInv'
    OBVIOUS
<1> USE DEF WebInv, IInv
<1>1. ASSUME NEW o \in Owners \ Static, Change(o) PROVE WebInv'
    <2>1. UNCHANGED <<published, pc, asking, copy, clean, sharp, asked, unasked>>
        BY <1>1 DEF Change
    <2>2. Earning(holding) \subseteq Entered
        BY DEF Earning, Entered
    <2> QED
        BY <1>1, <2>1, <2>2, ChangeStep
<1>2. CASE Snapshot
    <2>1. Earning(holding)' \subseteq Entered
        BY <1>2 DEF Snapshot, Standing, Earning, Entered
    <2>2. /\ pc = "idle" /\ pc' = "lookup" /\ Programs' = Programs
          /\ Excluded' = Excluded
          /\ UNCHANGED <<published, late, clean, asking, copy, sharp, asked>>
        BY <1>2 DEF Snapshot, Programs, Excluded
    <2>3. asked = {} /\ unasked' \cap (Static \cup classified) = {}
        BY <1>2, <2>2 DEF Snapshot, LookedUpInv, Excluded
    <2>4. clean => Earning(holding)' \subseteq Static \cup classified
        BY <2>1, <2>2 DEF AskedInv
    <2> QED
        BY <2>1, <2>2, <2>3, <2>4
<1>3. CASE Ask \/ LookupFails \/ Classify
    <2>1. /\ Programs' = Programs /\ pc = "lookup" /\ pc' \in {"lookup", "publish"}
          /\ Earning(holding)' = Earning(holding)
          /\ UNCHANGED <<published, late, clean, asking, copy, sharp>>
        BY <1>3 DEF Ask, LookupFails, Classify, Programs, Earning
    <2>2. Excluded' \subseteq Excluded \cup asked /\ Excluded \subseteq Excluded'
        BY <1>3 DEF Ask, LookupFails, Classify, Excluded, TypeOK
    <2>3. pc' = "lookup" => asked' \cup unasked' \subseteq asked \cup unasked
        BY <1>3 DEF Ask, LookupFails, Classify, kSubset
    <2> QED
        BY <2>1, <2>2, <2>3
<1>4. CASE Publish
    <2>1. /\ published' = Excluded /\ clean' = answered
          /\ sharp' = (sharp /\ answered)
          /\ late' = late \ pools /\ pc = "publish" /\ pc' = "pay"
          /\ UNCHANGED <<classified, pools, asking, copy, answered>>
          /\ Programs' = Programs /\ Entered' = Entered
          /\ Earning(holding)' = Earning(holding) /\ Excluded' = Excluded
        BY <1>4 DEF Publish, Programs, Entered, Earning, Excluded
    <2>2. Earning(holding) \subseteq Entered
        BY DEF Earning, Entered
    <2>3. answered => Entered \cap Programs \subseteq published' \cup late'
        BY <2>1 DEF AskedInv, LookedUpInv, Excluded
    <2>4. asking /\ sharp => copy \cap Programs \subseteq published' \cup late'
        BY <2>1 DEF Excluded
    <2> QED
        BY <2>1, <2>2, <2>3, <2>4
<1>5. CASE EndTick
    BY <1>5 DEF EndTick, Forget, Programs, Excluded, Earning, Entered
<1>6. CASE AbortTick \/ Die
    BY <1>6 DEF AbortTick, Die, Forget
<1>7. CASE ReadState \/ ReadStats
    BY <1>7 DEF ReadState, ReadStats, Programs, Excluded, Earning, Entered
<1>8. CASE UNCHANGED vars
    BY <1>8 DEF vars, Programs, Excluded, Earning, Entered
<1> QED
    BY <1>1, <1>2, <1>3, <1>4, <1>5, <1>6, <1>7, <1>8 DEF Next, Bot

LEMMA Inductive == Spec => []IInv
<1>1. IInv /\ [Next]_vars => IInv'
    BY TypeStep, LookedUpStep, PayStep, AskedStep, WebStep DEF IInv
<1> QED
    BY InitInv, <1>1, PTL DEF Spec

-----------------------------------------------------------------------------
\* Every variable keeps its type, and every known pool has been looked up.
THEOREM TypeCorrect == Spec => []TypeOK
BY Inductive, PTL DEF IInv

\* A program's account is paid only if the program came after the owner, or
\* this tick's lookup failed before the owner was ever asked about.
THEOREM PoolsUnpaid == Spec => []NoPoolPaid
<1>1. IInv => NoPoolPaid
    <2> SUFFICES ASSUME IInv PROVE NoPoolPaid
        OBVIOUS
    <2>1. paying \cap Excluded = {} /\ paying \subseteq Earning(holding)
        BY DEF IInv, PayInv
    <2>2. Earning(holding) \subseteq Entered
        BY DEF Earning, Entered
    <2>3. CASE pc = "pay"
        BY <2>1, <2>2, <2>3 DEF IInv, AskedInv, LookedUpInv, NoPoolPaid, Excluded
    <2>4. CASE pc # "pay"
        BY <2>4 DEF IInv, PayInv, NoPoolPaid
    <2> QED
        BY <2>3, <2>4
<1> QED
    BY Inductive, <1>1, PTL

\* A request that is overtaken by a tick shows, of those who go on earning, the
\* owners that the tick pays, with the old stats as with the new ones.
THEOREM WebAgrees == Spec => WebShowsThePaid
<1>1. ASSUME IInv, Autodetect, [Next]_vars, pc = "publish", pc' = "pay",
             asking, sharp'
      PROVE  /\ Promised \cap Shown = Promised \cap paying'
             /\ Promised \cap Shown' = Promised \cap paying'
    <2>1. Publish
        BY <1>1 DEF Next, Bot, Change, Snapshot, Ask, LookupFails, Classify, EndTick,
                    AbortTick, Die, Forget, ReadState, ReadStats, vars
    <2>2. /\ published' = Excluded /\ paying' = Earning(holding) \ Excluded
          /\ copy' = copy /\ sharp
        BY <1>1, <2>1 DEF Publish
    <2>3. published \subseteq Excluded /\ Earning(holding) \cap Excluded \subseteq published
        BY <1>1, <2>2 DEF IInv, WebInv
    <2> QED
        BY <2>2, <2>3 DEF Promised, Shown
<1>2. IInv /\ [Next]_vars
         => [Autodetect /\ pc = "publish" /\ pc' = "pay" /\ asking /\ sharp' =>
                /\ Promised \cap Shown = Promised \cap paying'
                /\ Promised \cap Shown' = Promised \cap paying']_vars
    BY <1>1
<1> QED
    BY Inductive, <1>2, PTL DEF Spec, WebShowsThePaid

\* No interleaving of a request's two reads with a bot whose lookups succeed
\* shows a program's account that it knew or could have known.
THEOREM PoolsUnshown == Spec => []WebShowsNoPool
<1>1. IInv => WebShowsNoPool
    BY DEF IInv, WebInv, WebShowsNoPool, Shown
<1> QED
    BY Inductive, <1>1, PTL
=============================================================================

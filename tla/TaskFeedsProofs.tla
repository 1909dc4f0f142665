-------------------------- MODULE TaskFeedsProofs --------------------------
(* Proofs about TaskFeeds: what a fetch returns, for any page size, any cap  *)
(* on pages, any wallets, and a list that moves while it is read.            *)
EXTENDS TaskFeeds, SequenceTheorems, TLAPS

USE DEF ghosts

LEMMA MinOfTwo ==
    ASSUME NEW m \in Int, NEW n \in Int
    PROVE  Min({m, n}) = IF m <= n THEN m ELSE n
BY DEF Min

LEMMA Limits == PageLimit \in Nat /\ PageLimit >= 1 /\ MaxPages \in Nat /\ MaxPages >= 1
BY FeedAssumption

\* The authors of a list are those of its messages that count.
LEMMA AuthorsOf ==
    ASSUME NEW s \in Seq(Message), NEW a
    PROVE  a \in Authors(s) <=>
               \E i \in 1 .. Len(s) : s[i].counts /\ s[i].author = a
BY DEF Authors, ToSet

LEMMA AuthorsAreWallets ==
    ASSUME NEW s \in Seq(Message)
    PROVE  Authors(s) \subseteq Wallets
<1> SUFFICES ASSUME NEW a \in Authors(s) PROVE a \in Wallets
    OBVIOUS
<1>1. PICK i \in 1 .. Len(s) : s[i].author = a
    BY AuthorsOf
<1>2. s[i] \in Message
    BY ElementOfSeq
<1> QED
    BY <1>1, <1>2 DEF Message

\* A part of a list.
LEMMA Slice ==
    ASSUME NEW s \in Seq(Message), NEW m \in Int, NEW n \in Int,
           1 <= m, m <= n, n <= Len(s)
    PROVE  /\ SubSeq(s, m, n) \in Seq(Message)
           /\ Len(SubSeq(s, m, n)) = n - m + 1
           /\ \A k \in 1 .. n - m + 1 : SubSeq(s, m, n)[k] = s[m + k - 1]
<1>1. \A i \in m .. n : s[i] \in Message
    BY ElementOfSeq
<1> QED
    BY <1>1, SubSeqProperties

LEMMA SliceAuthors ==
    ASSUME NEW s \in Seq(Message), NEW m \in Int, NEW n \in Int,
           1 <= m, n <= Len(s), NEW a
    PROVE  a \in Authors(SubSeq(s, m, n)) <=>
               \E i \in m .. n : s[i].counts /\ s[i].author = a
<1> DEFINE part == SubSeq(s, m, n)
<1>1. CASE m <= n
    <2>1. /\ part \in Seq(Message)
          /\ Len(part) = n - m + 1
          /\ \A k \in 1 .. n - m + 1 : part[k] = s[m + k - 1]
        BY <1>1, Slice
    <2> HIDE DEF part
    <2>2. ASSUME NEW k \in 1 .. Len(part), part[k].counts, part[k].author = a
          PROVE  \E i \in m .. n : s[i].counts /\ s[i].author = a
        <3>1. m + k - 1 \in m .. n /\ part[k] = s[m + k - 1]
            BY <2>1
        <3> QED
            BY <2>2, <3>1
    <2>3. ASSUME NEW i \in m .. n, s[i].counts, s[i].author = a
          PROVE  \E k \in 1 .. Len(part) : part[k].counts /\ part[k].author = a
        <3>1. i - m + 1 \in 1 .. Len(part) /\ part[i - m + 1] = s[i]
            BY <2>1
        <3> QED
            BY <2>3, <3>1
    <2>4. a \in Authors(part) <=>
              \E k \in 1 .. Len(part) : part[k].counts /\ part[k].author = a
        BY <2>1, AuthorsOf
    <2> QED
        BY <2>2, <2>3, <2>4 DEF part
<1>2. CASE n < m
    <2>1. part = <<>>
        BY <1>2, SubSeqEmpty
    <2>2. part \in Seq(Message) /\ Len(part) = 0
        BY <2>1, EmptySeq
    <2> HIDE DEF part
    <2>3. a \in Authors(part) <=>
              \E k \in 1 .. Len(part) : part[k].counts /\ part[k].author = a
        BY <2>2, AuthorsOf
    <2>4. 1 .. Len(part) = {} /\ m .. n = {}
        BY <1>2, <2>2
    <2> QED
        BY <2>3, <2>4 DEF part
<1> QED
    BY <1>1, <1>2

LEMMA EndOfPage ==
    ASSUME NEW n \in Nat, NEW o \in Nat
    PROVE  Min({o + PageLimit, n}) = IF o + PageLimit <= n THEN o + PageLimit ELSE n
BY FeedAssumption, MinOfTwo

\* The page at an offset: no author that the list has not, every one of its
\* messages, and the end of the list if it is short.
LEMMA PageAuthors ==
    ASSUME NEW s \in Seq(Message), NEW o \in Nat
    PROVE  Authors(SubSeq(s, o + 1, Min({o + PageLimit, Len(s)}))) \subseteq Authors(s)
<1>1. PICK n \in Nat : n = Min({o + PageLimit, Len(s)}) /\ n <= Len(s)
    BY FeedAssumption, EndOfPage
<1> SUFFICES ASSUME NEW a \in Authors(SubSeq(s, o + 1, n)) PROVE a \in Authors(s)
    BY <1>1
<1>2. \E i \in o + 1 .. n : s[i].counts /\ s[i].author = a
    BY <1>1, SliceAuthors
<1>3. o + 1 .. n \subseteq 1 .. Len(s)
    BY <1>1
<1> QED
    BY <1>2, <1>3, AuthorsOf

LEMMA PageComplete ==
    ASSUME NEW s \in Seq(Message), NEW o \in Nat, NEW i \in 1 .. Len(s),
           o < i, i <= o + PageLimit, s[i].counts
    PROVE  s[i].author \in Authors(SubSeq(s, o + 1, Min({o + PageLimit, Len(s)})))
<1>1. PICK n \in Nat : n = Min({o + PageLimit, Len(s)}) /\ n <= Len(s) /\ i <= n
    BY FeedAssumption, EndOfPage
<1>2. i \in o + 1 .. n
    BY <1>1
<1> QED
    BY <1>1, <1>2, SliceAuthors

LEMMA LongestPage ==
    ASSUME NEW s \in Seq(Message), NEW o \in Nat
    PROVE  /\ Len(SubSeq(s, o + 1, Min({o + PageLimit, Len(s)}))) \in Nat
           /\ Len(SubSeq(s, o + 1, Min({o + PageLimit, Len(s)}))) <= PageLimit
<1>1. PICK n \in Nat : n = Min({o + PageLimit, Len(s)}) /\ n <= Len(s) /\ n <= o + PageLimit
    BY FeedAssumption, EndOfPage
<1>2. CASE o + 1 <= n
    BY <1>1, <1>2, Limits, Slice
<1>3. CASE n < o + 1
    <2>1. SubSeq(s, o + 1, n) = <<>>
        BY <1>3, SubSeqEmpty
    <2> QED
        BY <1>1, <2>1, Limits, EmptySeq
<1> QED
    BY <1>1, <1>2, <1>3

LEMMA ShortPage ==
    ASSUME NEW s \in Seq(Message), NEW o \in Nat,
           Len(SubSeq(s, o + 1, Min({o + PageLimit, Len(s)}))) < PageLimit
    PROVE  Len(s) < o + PageLimit
<1> SUFFICES ASSUME o + PageLimit <= Len(s) PROVE FALSE
    BY FeedAssumption
<1>1. Min({o + PageLimit, Len(s)}) = o + PageLimit
    BY FeedAssumption, EndOfPage
<1>2. PageLimit \in Nat \ {0}
    BY FeedAssumption
<1>3. Len(SubSeq(s, o + 1, o + PageLimit)) = o + PageLimit - (o + 1) + 1
    BY <1>2, Slice
<1> QED
    BY <1>1, <1>2, <1>3

-----------------------------------------------------------------------------
LEMMA InitInv == FeedInit => FeedInv
<1> SUFFICES ASSUME FeedInit PROVE FeedInv
    OBVIOUS
<1>1. feed \in Seq(Message) /\ Len(feed) = 0
    BY EmptySeq DEF FeedInit
<1>2. FeedTypeOK
    <2>1. calls \in 0 .. MaxPages /\ newer \in 0 .. Len(feed) /\ offset \in Nat
        BY <1>1, Limits DEF FeedInit
    <2> QED
        BY <1>1, <2>1 DEF FeedInit, FeedTypeOK
<1>3. ProgressInv /\ NobodyInvented /\ AheadInv
    BY DEF FeedInit, ProgressInv, NobodyInvented, AheadInv
<1> QED
    BY <1>2, <1>3 DEF FeedInv

\* What the three changes do to the list.
LEMMA PostChange ==
    ASSUME FeedTypeOK, NEW m \in Message
    PROVE  LET g == <<m>> \o feed IN
           /\ g \in Seq(Message) /\ Len(g) = Len(feed) + 1
           /\ \A i \in 2 .. Len(g) : g[i] = feed[i - 1]
BY DEF FeedTypeOK

LEMMA DeleteChange ==
    ASSUME FeedTypeOK, NEW k \in 1 .. Len(feed)
    PROVE  LET g == [feed EXCEPT ![k].counts = FALSE] IN
           /\ g \in Seq(Message) /\ Len(g) = Len(feed)
           /\ \A i \in 1 .. Len(g) :
                 g[i].counts => feed[i].counts /\ g[i].author = feed[i].author
<1> DEFINE e == [feed[k] EXCEPT !.counts = FALSE]
           g == [feed EXCEPT ![k] = e]
<1>1. feed \in Seq(Message) /\ feed[k] \in Message
    BY ElementOfSeq DEF FeedTypeOK
<1>2. e \in Message /\ e.counts = FALSE
    BY <1>1 DEF Message
<1> HIDE DEF e
<1>3. /\ g \in Seq(Message) /\ Len(g) = Len(feed)
      /\ \A i \in 1 .. Len(feed) : g[i] = IF i = k THEN e ELSE feed[i]
    BY <1>1, <1>2, ExceptSeq
<1>4. g = [feed EXCEPT ![k].counts = FALSE]
    BY DEF e
<1> HIDE DEF g
<1> QED
    BY <1>2, <1>3, <1>4

LEMMA UnlistChange ==
    ASSUME FeedTypeOK, NEW k \in 1 .. Len(feed)
    PROVE  /\ RemoveAt(feed, k) \in Seq(Message)
           /\ Len(RemoveAt(feed, k)) = Len(feed) - 1
<1>1. feed \in Seq(Message) /\ \A i \in 1 .. Len(feed) : feed[i] \in Message
    BY ElementOfSeq DEF FeedTypeOK
<1>2. /\ SubSeq(feed, 1, k - 1) \in Seq(Message)
      /\ Len(SubSeq(feed, 1, k - 1)) = k - 1
    <2>1. \A i \in 1 .. k - 1 : feed[i] \in Message
        BY <1>1
    <2> QED
        BY <1>1, <2>1, SubSeqProperties
<1>3. /\ SubSeq(feed, k + 1, Len(feed)) \in Seq(Message)
      /\ Len(SubSeq(feed, k + 1, Len(feed))) = Len(feed) - k
    <2>1. \A i \in k + 1 .. Len(feed) : feed[i] \in Message
        BY <1>1
    <2> QED
        BY <1>1, <2>1, SubSeqProperties
<1>4. k - 1 + (Len(feed) - k) = Len(feed) - 1
    BY <1>1
<1> QED
    BY <1>2, <1>3, <1>4, ConcatProperties DEF RemoveAt

-----------------------------------------------------------------------------
LEMMA TypeStep == FeedInv /\ [FeedNext]_feedVars => FeedTypeOK'
<1> SUFFICES ASSUME FeedInv PROVE [FeedNext]_feedVars => FeedTypeOK'
    OBVIOUS
<1>0. FeedTypeOK /\ ProgressInv
    BY DEF FeedInv
<1>1. ASSUME NEW m \in Message, Post(m) PROVE FeedTypeOK'
    <2>1. feed' \in Seq(Message) /\ Len(feed') = Len(feed) + 1
        BY <1>0, <1>1, PostChange DEF Post, Changed
    <2>2. Authors(feed') \subseteq Wallets
        BY <2>1, AuthorsAreWallets
    <2>3. newer' \in 0 .. Len(feed')
        BY <1>0, <1>1, <2>1 DEF Post, FeedTypeOK
    <2> QED
        BY <1>0, <1>1, <2>1, <2>2, <2>3 DEF Post, Changed, FeedTypeOK
<1>2. ASSUME NEW i \in 1 .. Len(feed), Delete(i) PROVE FeedTypeOK'
    <2>1. feed' \in Seq(Message) /\ Len(feed') = Len(feed)
        BY <1>0, <1>2, DeleteChange DEF Delete, Changed
    <2>2. Authors(feed') \subseteq Wallets
        BY <2>1, AuthorsAreWallets
    <2> QED
        BY <1>0, <1>2, <2>1, <2>2 DEF Delete, Changed, FeedTypeOK
<1>3. ASSUME NEW i \in 1 .. Len(feed), Unlist(i) PROVE FeedTypeOK'
    <2>1. feed' \in Seq(Message) /\ Len(feed') = Len(feed) - 1
        BY <1>0, <1>3, UnlistChange DEF Unlist, Changed
    <2>2. Authors(feed') \subseteq Wallets
        BY <2>1, AuthorsAreWallets
    <2>3. newer' \in 0 .. Len(feed')
        BY <1>0, <1>3, <2>1 DEF Unlist, FeedTypeOK
    <2> QED
        BY <1>0, <1>3, <2>1, <2>2, <2>3 DEF Unlist, Changed, FeedTypeOK
<1>4. StartFetch => FeedTypeOK'
    BY <1>0, AuthorsAreWallets DEF StartFetch, FeedTypeOK
<1>5. ASSUME ReadPage PROVE FeedTypeOK'
    <2>1. Counted(SubSeq(feed, offset + 1, Min({offset + PageLimit, Len(feed)})))
              \subseteq Wallets
        BY <1>0, PageAuthors, AuthorsAreWallets DEF Counted, FeedTypeOK
    <2>2. offset' \in Nat /\ calls' \in 0 .. MaxPages
        BY <1>0, <1>5, FeedAssumption DEF ReadPage, NextOffset, FeedTypeOK, ProgressInv
    <2> QED
        BY <1>0, <1>5, <2>1, <2>2 DEF ReadPage, FeedTypeOK
<1>6. ASSUME EndFetch PROVE FeedTypeOK'
    <2>1. calls' \in 0 .. MaxPages /\ newer' \in 0 .. Len(feed') /\ offset' \in Nat
        BY <1>0, <1>6, Limits DEF EndFetch, FeedTypeOK
    <2> QED
        BY <1>0, <1>6, <2>1 DEF EndFetch, FeedTypeOK
<1>7. UNCHANGED feedVars => FeedTypeOK'
    BY <1>0 DEF feedVars, FeedTypeOK
<1> QED
    BY <1>1, <1>2, <1>3, <1>4, <1>5, <1>6, <1>7 DEF FeedNext

LEMMA ProgressStep == FeedInv /\ [FeedNext]_feedVars => ProgressInv' /\ NobodyInvented'
<1> SUFFICES ASSUME FeedInv PROVE [FeedNext]_feedVars => ProgressInv' /\ NobodyInvented'
    OBVIOUS
<1> USE DEF ProgressInv, NobodyInvented
<1>0. FeedTypeOK /\ ProgressInv /\ NobodyInvented
    BY DEF FeedInv
<1>1. ASSUME NEW m \in Message, Post(m) PROVE ProgressInv' /\ NobodyInvented'
    BY <1>0, <1>1 DEF Post, Changed
<1>2. ASSUME NEW i \in 1 .. Len(feed), Delete(i) \/ Unlist(i)
      PROVE  ProgressInv' /\ NobodyInvented'
    <2>1. CASE Delete(i)
        BY <1>0, <2>1 DEF Delete, Changed
    <2>2. CASE Unlist(i)
        <3>1. fetch = "idle" => newer' = 0
            BY <1>0, <2>2 DEF Unlist
        <3> QED
            BY <1>0, <2>2, <3>1 DEF Unlist, Changed
    <2> QED
        BY <1>2, <2>1, <2>2
<1>3. StartFetch => ProgressInv' /\ NobodyInvented'
    BY <1>0, FeedAssumption DEF StartFetch
<1>4. ASSUME ReadPage PROVE ProgressInv' /\ NobodyInvented'
    <2>1. Counted(SubSeq(feed, offset + 1, Min({offset + PageLimit, Len(feed)})))
              \subseteq Authors(feed)
        BY <1>0, PageAuthors DEF Counted, FeedTypeOK
    <2>2. out' \subseteq posted'
        BY <1>0, <1>4, <2>1 DEF ReadPage
    <2>3. fetch' = "page" => calls' < MaxPages
        BY <1>0, <1>4, FeedAssumption DEF ReadPage, LastPage, FeedTypeOK
    <2> QED
        BY <1>0, <1>4, <2>2, <2>3 DEF ReadPage
<1>5. EndFetch => ProgressInv' /\ NobodyInvented'
    BY DEF EndFetch
<1>6. UNCHANGED feedVars => ProgressInv' /\ NobodyInvented'
    BY <1>0 DEF feedVars
<1> QED
    BY <1>1, <1>2, <1>3, <1>4, <1>5, <1>6 DEF FeedNext

LEMMA AheadStep == FeedInv /\ [FeedNext]_feedVars => AheadInv'
<1> SUFFICES ASSUME FeedInv PROVE [FeedNext]_feedVars => AheadInv'
    OBVIOUS
<1>0. FeedTypeOK /\ ProgressInv /\ AheadInv
    BY DEF FeedInv
<1>1. ASSUME NEW m \in Message, Post(m) PROVE AheadInv'
    <2> SUFFICES ASSUME fetch' # "idle", ~shrunk', ~cut',
                        NEW i \in newer' + 1 .. Len(feed'), feed'[i].counts
                 PROVE  feed'[i].author \in out' \/ (fetch' = "page" /\ i > offset')
        BY DEF AheadInv
    <2>1. UNCHANGED <<fetch, offset, out, shrunk, cut>> /\ newer' = newer + 1
        BY <1>1 DEF Post, Changed
    <2>2. /\ Len(feed') = Len(feed) + 1
          /\ \A k \in 2 .. Len(feed') : feed'[k] = feed[k - 1]
        BY <1>0, <1>1, PostChange DEF Post, Changed
    <2>3. newer \in Nat /\ offset \in Nat /\ Len(feed) \in Nat
        BY <1>0 DEF FeedTypeOK
    <2>4. i - 1 \in newer + 1 .. Len(feed) /\ feed'[i] = feed[i - 1]
        BY <2>1, <2>2, <2>3
    <2>5. feed[i - 1].author \in out \/ (fetch = "page" /\ i - 1 > offset)
        BY <1>0, <2>1, <2>4 DEF AheadInv
    <2> QED
        BY <2>1, <2>3, <2>4, <2>5
<1>2. ASSUME NEW k \in 1 .. Len(feed), Delete(k) PROVE AheadInv'
    <2>1. UNCHANGED <<fetch, offset, out, newer, shrunk, cut>>
        BY <1>2 DEF Delete, Changed
    <2>2. /\ Len(feed') = Len(feed)
          /\ \A i \in 1 .. Len(feed') :
                feed'[i].counts => feed[i].counts /\ feed'[i].author = feed[i].author
        BY <1>0, <1>2, DeleteChange DEF Delete, Changed
    <2>3. newer + 1 .. Len(feed) \subseteq 1 .. Len(feed)
        BY <1>0 DEF FeedTypeOK
    <2> QED
        BY <1>0, <2>1, <2>2, <2>3 DEF AheadInv
<1>3. ASSUME NEW k \in 1 .. Len(feed), Unlist(k) PROVE AheadInv'
    BY <1>3 DEF Unlist, Changed, AheadInv
<1>4. ASSUME StartFetch PROVE AheadInv'
    BY <1>0, <1>4 DEF StartFetch, AheadInv, ProgressInv, FeedTypeOK
<1>5. ASSUME ReadPage PROVE AheadInv'
    <2> DEFINE items == SubSeq(feed, offset + 1, Min({offset + PageLimit, Len(feed)}))
    <2> SUFFICES ASSUME ~shrunk', ~cut',
                        NEW i \in newer' + 1 .. Len(feed'), feed'[i].counts
                 PROVE  feed'[i].author \in out' \/ (fetch' = "page" /\ i > offset')
        BY DEF AheadInv
    <2>1. /\ UNCHANGED <<feed, newer, shrunk>>
          /\ offset' = offset + PageLimit
          /\ out' = out \cup Authors(items)
          /\ fetch = "page" /\ fetch' \in {"page", "done"}
          /\ fetch' = "done" => LastPage(items)
          /\ cut' = (Len(items) = PageLimit /\ LastPage(items))
        BY <1>5 DEF ReadPage, Counted, NextOffset
    <2>2. /\ feed \in Seq(Message) /\ offset \in Nat
          /\ i \in 1 .. Len(feed) /\ i \in newer + 1 .. Len(feed)
        BY <1>0, <2>1 DEF FeedTypeOK
    <2>3. CASE i <= offset
        BY <1>0, <2>1, <2>2, <2>3 DEF AheadInv, ProgressInv
    <2>4. CASE offset < i /\ i <= offset + PageLimit
        BY <2>1, <2>2, <2>4, PageComplete
    <2>5. CASE i > offset + PageLimit
        <3>1. Len(items) \in Nat /\ Len(items) <= PageLimit
            BY <2>2, LongestPage
        <3>2. Len(items) < PageLimit => Len(feed) < offset + PageLimit
            BY <2>2, ShortPage
        <3> HIDE DEF items
        <3>3. Len(items) = PageLimit
            BY <2>2, <2>5, <3>1, <3>2, Limits
        <3> QED
            BY <2>1, <2>5, <3>3
    <2> QED
        BY <2>2, <2>3, <2>4, <2>5, Limits
<1>6. EndFetch => AheadInv'
    BY DEF EndFetch, AheadInv
<1>7. UNCHANGED feedVars => AheadInv'
    BY <1>0 DEF feedVars, AheadInv
<1> QED
    BY <1>1, <1>2, <1>3, <1>4, <1>5, <1>6, <1>7 DEF FeedNext

LEMMA Invariance == FeedSpec => []FeedInv
<1>1. FeedInit => FeedInv
    BY InitInv
<1>2. FeedInv /\ [FeedNext]_feedVars => FeedInv'
    BY TypeStep, ProgressStep, AheadStep DEF FeedInv
<1> QED
    BY <1>1, <1>2, PTL DEF FeedSpec

-----------------------------------------------------------------------------
\* A fetch ends after _MAX_PAGES pages, and its variables keep their types.
THEOREM FetchBounded == FeedSpec => []FeedTypeOK
<1>1. FeedInv => FeedTypeOK
    BY DEF FeedInv
<1> QED
    BY <1>1, Invariance, PTL

\* community.py:29: no wallet is marked that had no post while the list was read.
THEOREM NoFabrication == FeedSpec => []NobodyInvented
<1>1. FeedInv => NobodyInvented
    BY DEF FeedInv
<1> QED
    BY <1>1, Invariance, PTL

\* community.py:79: a fetch that ends on a short page, with no message removed
\* meanwhile, has found everyone with an older post, whatever was posted.
THEOREM OlderPostersFound == FeedSpec => []PostersFound
<1>1. ASSUME FeedInv PROVE PostersFound
    <2> SUFFICES ASSUME fetch = "done", ~shrunk, ~cut,
                        NEW a \in Authors(SubSeq(feed, newer + 1, Len(feed)))
                 PROVE  a \in out
        BY DEF PostersFound
    <2>1. feed \in Seq(Message) /\ newer \in Nat
        BY <1>1 DEF FeedInv, FeedTypeOK
    <2>2. PICK i \in newer + 1 .. Len(feed) : feed[i].counts /\ feed[i].author = a
        BY <2>1, SliceAuthors
    <2> QED
        BY <1>1, <2>2 DEF FeedInv, AheadInv
<1> QED
    BY <1>1, Invariance, PTL
=============================================================================

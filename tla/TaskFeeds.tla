----------------------------- MODULE TaskFeeds -----------------------------
(***************************************************************************)
(* fetch_engaged_from_api() of src/bot/community.py: the posters of a      *)
(* community, read page by page from a list that moves meanwhile.          *)
(*                                                                         *)
(* Abstractions: a message is its author and whether it counts (a top-     *)
(* level post in our community that is not deleted).  The newest message   *)
(* comes first; a service that lists the oldest first moves less.          *)
(***************************************************************************)
EXTENDS Integers, SequencesExt

CONSTANTS
    Wallets,        \* the authors
    PageLimit,      \* _PAGE_LIMIT
    MaxPages,       \* _MAX_PAGES
    MaxMessages     \* bound: length of the list

ASSUME FeedAssumption ==
    /\ {PageLimit, MaxPages} \subseteq Nat \ {0}
    /\ MaxMessages \in Nat

Message == [author : Wallets, counts : BOOLEAN]
Authors(messages) == {m.author : m \in {n \in ToSet(messages) : n.counts}}

VARIABLES
    feed,       \* the messages of the community
    fetch,      \* "idle", "page", or "done" with a result
    offset,     \* of the page to ask for
    calls,      \* pages read
    out,        \* the wallets found so far
    newer,      \* ghost: messages posted since the fetch began, still listed
    posted,     \* ghost: authors with a post in the list at some time
    shrunk,     \* ghost: a message has left the list meanwhile
    cut         \* ghost: the fetch has ended on a full page

ghosts == <<newer, posted, shrunk, cut>>
feedVars == <<feed, fetch, offset, calls, out, ghosts>>

FeedInit ==
    /\ feed = <<>>
    /\ fetch = "idle"
    /\ offset = 0 /\ calls = 0
    /\ out = {} /\ posted = {}
    /\ newer = 0 /\ shrunk = FALSE /\ cut = FALSE

\* The list changes; nobody's post is remembered before a fetch begins.
Changed(messages) ==
    /\ feed' = messages
    /\ posted' = IF fetch = "idle" THEN {} ELSE posted \cup Authors(messages)
    /\ UNCHANGED <<fetch, offset, calls, out, cut>>

Post(m) ==
    /\ Len(feed) < MaxMessages
    /\ Changed(<<m>> \o feed)
    /\ newer' = IF fetch = "idle" THEN 0 ELSE newer + 1
    /\ UNCHANGED shrunk

\* deletedAt is set.
Delete(i) ==
    /\ Changed([feed EXCEPT ![i].counts = FALSE])
    /\ UNCHANGED <<newer, shrunk>>

\* The service no longer lists the message.
Unlist(i) ==
    /\ Changed(RemoveAt(feed, i))
    /\ newer' = IF i <= newer THEN newer - 1 ELSE newer
    /\ shrunk' = (fetch # "idle")

StartFetch ==
    /\ fetch = "idle"
    /\ fetch' = "page"
    /\ posted' = Authors(feed)
    /\ UNCHANGED <<feed, offset, calls, out, newer, shrunk, cut>>

\* Mutant: every author counts, those of replies and deleted posts too.
CountedAll(items) == {m.author : m \in ToSet(items)}

Counted(items) == Authors(items)

\* Mutant: the next page begins one message too late.
NextOffsetLate == offset + PageLimit + 1

NextOffset == offset + PageLimit

\* Mutant: the cap on pages is off by one.
LastPageOnceMore(items) ==
    \/ Len(items) < PageLimit
    \/ Counted(items) \subseteq out
    \/ calls = MaxPages

\* An empty or short page, no new wallet, or the last page allowed.
LastPage(items) ==
    \/ Len(items) < PageLimit
    \/ Counted(items) \subseteq out
    \/ calls + 1 = MaxPages

ReadPage ==
    /\ fetch = "page"
    /\ LET items == SubSeq(feed, offset + 1, Min({offset + PageLimit, Len(feed)})) IN
       /\ out' = out \cup Counted(items)
       /\ cut' = (Len(items) = PageLimit /\ LastPage(items))
       /\ fetch' = IF LastPage(items) THEN "done" ELSE "page"
    /\ offset' = NextOffset
    /\ calls' = calls + 1
    /\ UNCHANGED <<feed, newer, posted, shrunk>>

\* The result is used, or an error of any page drops what came before it.
EndFetch ==
    /\ fetch # "idle"
    /\ fetch' = "idle"
    /\ offset' = 0 /\ calls' = 0 /\ out' = {}
    /\ newer' = 0 /\ posted' = {} /\ shrunk' = FALSE /\ cut' = FALSE
    /\ UNCHANGED feed

FeedNext ==
    \/ \E m \in Message : Post(m)
    \/ \E i \in 1 .. Len(feed) : Delete(i) \/ Unlist(i)
    \/ StartFetch \/ ReadPage \/ EndFetch

FeedSpec == FeedInit /\ [][FeedNext]_feedVars

-----------------------------------------------------------------------------
\* Every variable has its type, and no fetch reads more than MaxPages pages.
FeedTypeOK ==
    /\ feed \in Seq(Message)
    /\ fetch \in {"idle", "page", "done"}
    /\ offset \in Nat /\ calls \in 0 .. MaxPages
    /\ out \subseteq Wallets /\ posted \subseteq Wallets
    /\ newer \in 0 .. Len(feed)
    /\ shrunk \in BOOLEAN /\ cut \in BOOLEAN

\* "We never fabricate engagement" (community.py:29): whoever is returned has
\* had a post that counts in the list while it was read.
NobodyInvented == out \subseteq posted

\* The fetch returns "the set of wallet addresses that posted" (community.py:79):
\* everyone with a post that was listed when it began and still counts, although
\* new messages push the list on under its offsets.  What hides a post is a
\* message that leaves the list, and an end on a full page (it brought no new
\* wallet, or is the last).
PostersFound ==
    fetch = "done" /\ ~shrunk /\ ~cut =>
        Authors(SubSeq(feed, newer + 1, Len(feed))) \subseteq out

-----------------------------------------------------------------------------
(* The inductive invariant behind the three *)

ProgressInv ==
    /\ fetch = "idle" => out = {} /\ newer = 0 /\ calls = 0 /\ offset = 0
    /\ fetch = "page" => calls < MaxPages
    /\ fetch # "done" => ~cut
    /\ fetch # "idle" => Authors(feed) \subseteq posted

\* An older post that counts has been read or is still to come.
AheadInv ==
    fetch # "idle" /\ ~shrunk /\ ~cut =>
        \A i \in newer + 1 .. Len(feed) :
            feed[i].counts =>
                \/ feed[i].author \in out
                \/ fetch = "page" /\ i > offset

FeedInv == FeedTypeOK /\ ProgressInv /\ NobodyInvented /\ AheadInv
=============================================================================

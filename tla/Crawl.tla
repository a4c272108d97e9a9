------------------------------- MODULE Crawl -------------------------------
(***************************************************************************)
(* A full walk through what a site lists, page by page, while the list     *)
(* goes on changing (connectors/web, and the full scans of                 *)
(* apps/worker/tasks/fetch.py): Yandex Afisha by offset, the rubrics of    *)
(* afisha.ru side by side, KudaGo and Timepad several pages at once.       *)
(*                                                                         *)
(* A listing is a number, its place in the order of the list; a rubric     *)
(* lists a set of them.  What a listing tells of its event is a matter of  *)
(* Schedules: one that yields no date is no record.  The three attempts at *)
(* a page are one, which of two failures a site answers with is left open, *)
(* and a walk ends on the day it began on.  Images, texts and prices are   *)
(* left out; where the next walk begins is a matter of Upkeep.             *)
(***************************************************************************)
EXTENDS Schedules

CONSTANTS Sites,      \* which of the four are walked
          Rubrics,    \* of afisha.ru; the others list everything under the first
          Listings,   \* numbers
          Listed,     \* Listed[s][r]: what rubric r lists when the walk begins
          Tale,       \* what a listing tells of its event
          PageSize, MaxPages,
          Width,      \* the pages of one batch, by site
          MaxChanges, MaxMishaps

ASSUME CrawlAssumption ==
  /\ Sites \subseteq {"yandex", "afisha", "kudago", "timepad"}
  /\ Rubrics \subseteq Nat /\ 1 \in Rubrics /\ IsFiniteSet(Rubrics)
  /\ Listings \subseteq Nat /\ IsFiniteSet(Listings)
  /\ Listed \in [Sites -> [Rubrics -> SUBSET Listings]]
  /\ Tale \in [Listings -> Tales]
  /\ PageSize \in Nat \ {0} /\ MaxPages \in Nat \ {0} /\ Width \in [Sites -> Nat \ {0}]
  /\ \A s \in Sites \cap {"yandex", "afisha"} : Width[s] = 1
  /\ MaxChanges \in Nat /\ MaxMishaps \in Nat

VARIABLES who,     \* the site that is walked
          list,    \* list[r]: what the rubric lists now
          walk,    \* walk[r]: the page it is at, the answers in hand
          seen,    \* the external ids that the walk has come across
          kept,    \* the listings whose record is stored
          clashed, \* two rubrics have written through the one session at once
          stood,   \* history: what the rubric has listed all the time
          gone, come, lost, \* history: listings taken out and put in, pages lost
          mishaps

crawl == <<now, who, walk, seen, kept, clashed>>
record == <<stood, gone, come, lost, mishaps>>
crawlVars == <<crawl, list, record>>

Lanes == IF who = "afisha" THEN Rubrics ELSE {1}
Rows(i) == CASE who = "yandex" -> BuildDates(Tale[i])
             [] who = "afisha" -> ListingDates(Tale[i])
             [] who = "kudago" -> TrimmedDates(Tale[i])
             [] who = "timepad" -> BuildRecord(Tale[i].sessions, IF Tale[i].run THEN "exhibition" ELSE "other")
Records(S) == {i \in S : Rows(i) # {}}

Place(S, i) == Cardinality({j \in S : j <= i})
PageOf(S, p) == {i \in S : (p - 1) * PageSize < Place(S, i) /\ Place(S, i) <= p * PageSize}
Beyond(S, p) == (p - 1) * PageSize >= Cardinality(S)

None == "none"
Lost == [items |-> {}, total |-> -1]
Going(p) == [at |-> "ask", page |-> p, got |-> <<>>, fresh |-> {}, reason |-> None]
Ended(why) == [at |-> "end", page |-> 0, got |-> <<>>, fresh |-> {}, reason |-> why]
Over(l) == walk[l].at = "end"

CrawlInit ==
  /\ now \in Clocks /\ who \in Sites
  /\ list = Listed[who] /\ stood = Listed[who]
  /\ walk = [l \in Rubrics |-> IF l \in Lanes THEN Going(1) ELSE Ended(None)]
  /\ seen = {} /\ kept = {} /\ clashed = FALSE
  /\ gone = [r \in Rubrics |-> 0] /\ come = [r \in Rubrics |-> 0]
  /\ lost = 0 /\ mishaps = 0

CrawlTypeOK ==
  /\ now \in Clocks /\ who \in Sites /\ list \in [Rubrics -> SUBSET Listings] /\ stood \in [Rubrics -> SUBSET Listings]
  /\ \A l \in Rubrics :
       /\ walk[l].at \in {"ask", "write", "end"} /\ walk[l].page \in Nat /\ walk[l].fresh \subseteq Listings
       /\ walk[l].reason \in STRING /\ DOMAIN walk[l].got \subseteq Nat
  /\ seen \subseteq Listings /\ kept \subseteq Listings /\ clashed \in BOOLEAN
  /\ gone \in [Rubrics -> Nat] /\ come \in [Rubrics -> Nat] /\ lost \in Nat /\ mishaps \in 0..MaxMishaps

Disrupted == mishaps < MaxMishaps /\ mishaps' = mishaps + 1

-----------------------------------------------------------------------------
(* The site.                                                               *)

Changes == FoldFunction(+, 0, gone) + FoldFunction(+, 0, come)

Withdraw(r, i) ==
  /\ i \in list[r] /\ Changes < MaxChanges
  /\ list' = [list EXCEPT ![r] = @ \ {i}]
  /\ stood' = [stood EXCEPT ![r] = @ \ {i}]
  /\ gone' = [gone EXCEPT ![r] = @ + 1]
  /\ UNCHANGED <<crawl, come, lost, mishaps>>

Publish(r, i) ==
  /\ i \notin list[r] \cup Listed[who][r] /\ Changes < MaxChanges
  /\ list' = [list EXCEPT ![r] = @ \cup {i}]
  /\ come' = [come EXCEPT ![r] = @ + 1]
  /\ UNCHANGED <<crawl, stood, gone, lost, mishaps>>

-----------------------------------------------------------------------------
(* Asking for a page.                                                      *)

Batch(l) == {p \in walk[l].page..(walk[l].page + Width[who] - 1) : p <= MaxPages}
Asked(l) == walk[l].at = "ask" /\ DOMAIN walk[l].got = Batch(l)
Answer(l, p, a) == [walk EXCEPT ![l].got = [q \in DOMAIN @ \cup {p} |-> IF q = p THEN a ELSE @[q]]]

\* A page past the end is an error for KudaGo, and its first page is read instead.
FetchPage(l, p) ==
  /\ walk[l].at = "ask" /\ p \in Batch(l) \ DOMAIN walk[l].got
  /\ LET q == IF who = "kudago" /\ Beyond(list[l], p) THEN 1 ELSE p
     IN walk' = Answer(l, p, [items |-> PageOf(list[l], q), total |-> Cardinality(list[l])])
  /\ UNCHANGED <<now, who, seen, kept, clashed, list, record>>

\* An error ends the scan of Yandex and one rubric of afisha.ru, which is told from the
\* others when it was throttled only; in a batch it costs the page.
FetchFails(l, p) ==
  /\ walk[l].at = "ask" /\ p \in Batch(l) \ DOMAIN walk[l].got /\ Disrupted
  /\ \/ /\ who = "yandex" /\ walk' = [walk EXCEPT ![l] = Ended("failed")]
        /\ UNCHANGED lost
     \/ /\ who = "afisha" /\ \E why \in {"rate_limited", None} : walk' = [walk EXCEPT ![l] = Ended(why)]
        /\ UNCHANGED lost
     \/ /\ who \in {"kudago", "timepad"} /\ walk' = Answer(l, p, Lost)
        /\ lost' = lost + 1
  /\ UNCHANGED <<now, who, seen, kept, clashed, list, stood, gone, come>>

\* Timepad's categories could not be resolved: nothing is fetched, and nothing said.
NoCategories ==
  /\ who = "timepad" /\ walk[1] = Going(1) /\ Disrupted
  /\ walk' = [walk EXCEPT ![1] = Ended(None)]
  /\ UNCHANGED <<now, who, seen, kept, clashed, list, stood, gone, come, lost>>

-----------------------------------------------------------------------------
(* One page at a time: Yandex and afisha.ru.                               *)

\* Fault: a page with fewer records than its size is taken for the last one.
VerdictByRecords(p, a) ==
  IF Cardinality(Records(a.items)) < PageSize THEN "exhausted"
  ELSE IF p = MaxPages THEN "max_pages" ELSE None

\* What the walk does after a page: an empty one ends it, or one without a date.
Verdict(p, a) ==
  IF Records(a.items) = {} THEN (IF who = "afisha" /\ a.items # {} THEN "out_of_window" ELSE "empty_page")
  ELSE IF p * PageSize >= a.total THEN "exhausted"
  ELSE IF p = MaxPages THEN (IF who = "yandex" THEN "completed_iteration" ELSE "max_pages")
  ELSE None

GoOn(l) ==
  LET why == Verdict(walk[l].page, walk[l].got[walk[l].page])
  IN IF why = None THEN Going(walk[l].page + 1) ELSE Ended(why)

Sequential == who \in {"yandex", "afisha"}
Writing == {l \in Lanes : walk[l].at = "write"}

\* A record is new once per scan; the new ones are handed to the session, which the rubrics
\* share.
TakePage(l) ==
  /\ Sequential /\ Asked(l)
  /\ LET fresh == Records(walk[l].got[walk[l].page].items) \ seen
     IN /\ seen' = seen \cup fresh
        /\ IF fresh = {} THEN walk' = [walk EXCEPT ![l] = GoOn(l)]
           ELSE walk' = [walk EXCEPT ![l].at = "write", ![l].fresh = fresh]
        /\ clashed' = (clashed \/ (fresh # {} /\ Writing # {}))
  /\ UNCHANGED <<now, who, kept, list, record>>

WritePage(l) ==
  /\ Sequential /\ walk[l].at = "write"
  /\ kept' = kept \cup walk[l].fresh
  /\ walk' = [walk EXCEPT ![l] = GoOn(l)]
  /\ UNCHANGED <<now, who, seen, clashed, list, record>>

\* The write fails, by a fault of the database, or by another rubric's write, from which
\* the session never recovers.  It ends the scan, or a rubric without a word.
WriteFails(l) ==
  /\ Sequential /\ walk[l].at = "write"
  /\ IF clashed THEN UNCHANGED mishaps ELSE Disrupted
  /\ walk' = [walk EXCEPT ![l] = Ended(IF who = "yandex" THEN "failed" ELSE None)]
  /\ lost' = lost + 1
  /\ UNCHANGED <<now, who, seen, kept, clashed, list, stood, gone, come>>

-----------------------------------------------------------------------------
(* Several pages at once: KudaGo and Timepad.                              *)

Good(l) == {p \in Batch(l) : walk[l].got[p] # Lost}
Got(l, P) == UNION {walk[l].got[p].items : p \in P}

\* Each page of the batch is stored in turn, and the batch looked at: nothing came back at
\* all, or a page past the window.
TakeBatch(l) ==
  /\ who = "kudago" /\ Asked(l)
  /\ kept' = kept \cup Records(Got(l, Good(l)))
  /\ LET next == walk[l].page + Width[who]
     IN walk' = [walk EXCEPT ![l] =
          IF Good(l) = {} THEN Ended("errors")
          ELSE IF \E p \in Good(l) : Records(walk[l].got[p].items) = {} THEN Ended("empty_page")
          ELSE IF next > MaxPages THEN Ended("completed_iteration")
          ELSE Going(next)]
  /\ UNCHANGED <<now, who, seen, clashed, list, record>>

\* A fault of the database ends the scan at one of its pages.
BatchFails(l) ==
  /\ who = "kudago" /\ Asked(l) /\ Disrupted
  /\ \E n \in Good(l) : kept' = kept \cup Records(Got(l, {p \in Good(l) : p < n}))
  /\ walk' = [walk EXCEPT ![l] = Ended("failed")]
  /\ UNCHANGED <<now, who, seen, clashed, list, stood, gone, come, lost>>

\* Timepad's pages are gathered until one is short; then one record of each event is made.
GatherBatch(l) ==
  /\ who = "timepad" /\ Asked(l)
  /\ seen' = seen \cup Got(l, Good(l))
  /\ LET short == \E p \in Good(l) : Cardinality(walk[l].got[p].items) < PageSize
         next == walk[l].page + Width[who]
     IN walk' = [walk EXCEPT ![l] =
          IF short \/ next > MaxPages
          THEN [Going(1) EXCEPT !.at = "write", !.fresh = Records(seen'), !.reason = IF short THEN "exhausted" ELSE "max_pages"]
          ELSE Going(next)]
  /\ UNCHANGED <<now, who, kept, clashed, list, record>>

StoreSweep(l) ==
  /\ who = "timepad" /\ walk[l].at = "write"
  /\ \/ kept' = walk[l].fresh /\ walk' = [walk EXCEPT ![l] = Ended(@.reason)] /\ UNCHANGED mishaps
     \/ Disrupted /\ walk' = [walk EXCEPT ![l] = Ended("failed")] /\ UNCHANGED kept
  /\ UNCHANGED <<now, who, seen, clashed, list, stood, gone, come, lost>>

-----------------------------------------------------------------------------
Walk(l) ==
  \/ \E p \in 1..MaxPages : FetchPage(l, p) \/ FetchFails(l, p)
  \/ TakePage(l) \/ WritePage(l) \/ WriteFails(l)
  \/ TakeBatch(l) \/ BatchFails(l) \/ GatherBatch(l) \/ StoreSweep(l)

CrawlNext ==
  \/ \E l \in Lanes : Walk(l)
  \/ NoCategories
  \/ \E r \in Lanes, i \in Listings : Withdraw(r, i) \/ Publish(r, i)

CrawlSpec == CrawlInit /\ [][CrawlNext]_crawlVars

-----------------------------------------------------------------------------
(* Properties.                                                             *)

\* What was listed all the time, has a date to come, and is not stored.
Missed(r) == Records(stood[r]) \ kept

\* The walk has been through to the end of the list.
Through(l) ==
  Over(l) /\ walk[l].reason \in {"exhausted", "completed_iteration"}
    /\ Cardinality(list[l]) + gone[l] <= MaxPages * PageSize

\* A list that shrinks during the walk moves what follows into pages that were read already.
\* A walk page by page misses one listing at most for each that was taken out, whatever is
\* put in; a batch, whose pages are answered in any order, one for each of its pages; and the
\* pages that were lost.
LittleMissed ==
  (\A l \in Lanes : Over(l)) => \A l \in Lanes : Through(l) =>
    Cardinality(Missed(l)) <= Width[who] * gone[l] + (Width[who] - 1) * come[l] + PageSize * lost

\* At whatever hour a walk begins, and whatever sessions an event has, each connector
\* tells of it what Honest says: none makes a date up, and none leaves the next session out
\* but a listing of afisha.ru between its first and last, and KudaGo behind Cap that are over.
DatesHonest == CrawlInit => \A e \in Tales : Honest(e)

\* "Full in-window sweep over every offset" (yandex_afisha_connector.py:169).
SweepsEveryOffset ==
  who = "yandex" /\ Over(1) /\ walk[1].reason # "failed" /\ gone[1] = 0 /\ Cardinality(list[1]) <= MaxPages * PageSize
    => Missed(1) = {}

\* "stop once a page comes back empty - i.e. we've paged past the in-window horizon"
\* (fetch.py:182): no batch is begun when the last one went past the end.
EndsPastTheList ==
  who = "kudago" /\ Changes = 0 /\ walk[1].at = "ask" /\ walk[1].page > 1 => ~Beyond(list[1], walk[1].page - 1)

\* "a crash keeps the pages already fetched instead of losing everything"
\* (afisha_ru_connector.py:204): what a scan counts as fetched is stored.
CountedIsStored ==
  who = "afisha" /\ mishaps = 0 /\ (\A l \in Lanes : Over(l)) => seen = kept
=============================================================================

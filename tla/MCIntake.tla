------------------------------ MODULE MCIntake ------------------------------
(***************************************************************************)
(* Small instances of Crawl and Places.  The two share no state: a         *)
(* behaviour either walks a list of five, to which two may be added, or    *)
(* gives four candidates their venues after such a walk.                   *)
(***************************************************************************)
EXTENDS Crawl, Places, TLC

\* Listings 3 and 4 tell of nothing in the window.
Tomorrow == [sessions |-> {10}, run |-> FALSE, permanent |-> FALSE]
Later == [sessions |-> {13}, run |-> FALSE, permanent |-> FALSE]
MCTale == [i \in Listings |-> IF i \in {3, 4} THEN Later ELSE Tomorrow]

MCListed ==
  [s \in Sites |-> [r \in Rubrics |->
     CASE s = "afisha" /\ r = 1 -> {1, 2, 3, 5, 6}
       [] s = "afisha" /\ r = 2 -> {2, 7}
       [] s # "afisha" /\ r = 1 -> {1, 2, 4, 5, 6}
       [] OTHER -> {}]]
MCWidth == [s \in Sites |-> IF s \in {"kudago", "timepad"} THEN 2 ELSE 1]

\* A building with two halls, of which one source names neither, and a factory next to it.
Academy == {"hall", "academy"}
MCCand ==
  <<[name |-> Academy \cup {"big"}, addr |-> {}, at |-> 0, title |-> <<"requiem">>, start |-> 1],
    [name |-> Academy \cup {"small"}, addr |-> {}, at |-> -100, title |-> <<"dune">>, start |-> 1],
    [name |-> Academy, addr |-> {}, at |-> Nowhere, title |-> <<"dune", "two">>, start |-> 1],
    [name |-> {"factory"}, addr |-> {}, at |-> 120, title |-> <<"dune">>, start |-> 1]>>
InStreet == [at |-> 50, addr |-> {"street"}]
MCGeo ==
  [p \in {"api", "maps", "osm"} |-> [q \in SUBSET {"academy", "hall", "big", "small", "factory"} |->
     CASE p = "maps" /\ q = Academy -> {InStreet, [InStreet EXCEPT !.at = 5000]}
       [] p = "osm" /\ q = {"academy"} -> {InStreet}
       [] p = "api" /\ q = Academy -> {[InStreet EXCEPT !.at = 120]}
       [] OTHER -> {}]]

MCLength == [w \in Words |-> CASE w \in {"hall", "two"} -> 3 [] w \in {"big", "small"} -> 7 [] OTHER -> 8]
MCLatin == [w \in Words |-> w]
MCAntonyms == {<<{"big"}, {"small"}>>}
MCNameRatio(a, b) ==
  IF a \subseteq b \/ b \subseteq a THEN 100
  ELSE (200 * Cardinality(a \cap b)) \div (Cardinality(a) + Cardinality(b))
MCTitleRatio(a, b) == MCNameRatio(Range(a), Range(b))

VARIABLE part

Walked ==
  /\ now = Min(Clocks) /\ who = "yandex" /\ list = Listed[who] /\ stood = list
  /\ walk = [l \in Rubrics |-> Ended("exhausted")]
  /\ seen = Records(list[1]) /\ kept = Records(list[1]) /\ clashed = FALSE
  /\ gone = [r \in Rubrics |-> 0] /\ come = [r \in Rubrics |-> 0]
  /\ lost = 0 /\ mishaps = 0

MCInit ==
  /\ PlacesInit
  /\ \/ part = "walk" /\ CrawlInit
     \/ part = "venues" /\ Walked
MCNext ==
  \/ part = "walk" /\ CrawlNext /\ UNCHANGED <<placeVars, part>>
  \/ part = "venues" /\ PlacesNext /\ UNCHANGED <<crawlVars, part>>

MCSpec == MCInit /\ [][MCNext]_<<crawlVars, placeVars, part>>
=============================================================================

------------------------------ MODULE Matching ------------------------------
(***************************************************************************)
(* Whether two titles are of one event (core/matching/title_match.py) and  *)
(* two names of one place (core/matching/venue_match.py).                  *)
(*                                                                         *)
(* A title is a sequence of words, a name or an address a set of them, as  *)
(* the code splits them; Latin[w] is a word in the one alphabet that both  *)
(* are compared in.  Words with one stem differ in a declension ending; of *)
(* the three rules of the code, whose relation is not transitive, the      *)
(* model keeps the relation, and no title has two forms of a word.         *)
(***************************************************************************)
EXTENDS Integers, FiniteSets, Functions

CONSTANTS Words, Latin, Stem, Length,
          Numbers, Years, Ages,  \* "2", "2026", and the 18 of "18+"
          Filler, Activity,      \* words that tell how, or what kind
          Common,                \* words of venues that tell nothing, in Latin
          Antonyms,              \* pairs of sets, as (big, small) of a building's halls
          TitleRatio(_, _),      \* token_sort_ratio of two titles, 0..100
          NameRatio(_, _)        \* token_set_ratio of two names

ASSUME MatchingAssumption ==
  /\ DOMAIN Latin = Words /\ DOMAIN Stem = Words /\ Length \in [Words -> Nat]
  /\ Years \cup Ages \subseteq Numbers
  /\ Numbers \cup Filler \cup Activity \subseteq Words
  /\ \A p \in Antonyms : p[1] \cup p[2] \subseteq Words

Small(S, T) == IF Cardinality(S) <= Cardinality(T) THEN S ELSE T
Big(S, T) == IF Cardinality(S) <= Cardinality(T) THEN T ELSE S

-----------------------------------------------------------------------------
(* Titles.                                                                 *)

Key(t) == [i \in DOMAIN t |-> Latin[t[i]]]
YearsIn(t) == Range(t) \cap Years
NumbersIn(t) == (Range(t) \cap Numbers) \ Years

\* _subset_extra: every word of S has its form in T; what T has beyond that.
Covered(S, T) == \A s \in S : \E u \in T : Stem[s] = Stem[u]
Extra(S, T) == {u \in T : \A s \in S : Stem[s] # Stem[u]}

\* Of two shows at one place and minute.
SameSlotTitle(a, b) ==
  /\ a # <<>> /\ b # <<>>
  /\ NumbersIn(a) \ Ages = NumbersIn(b) \ Ages
  /\ Key(a) = Key(b) \/ Covered(Small(Range(a), Range(b)), Big(Range(a), Range(b)))

Telling(w) == Length[w] >= 4 /\ w \notin Filler \cup Activity
Plain(w) == w \in Filler \cup Years \/ Length[w] <= 2

\* One title within the other, held by a word that tells; "auto" lets the rest only tell how.
Within(a, b, level) ==
  LET S == Small(Range(a), Range(b))  T == Big(Range(a), Range(b))
  IN /\ Covered(S, T) /\ \E w \in S : Telling(w)
     /\ level = "auto" => \A w \in Extra(S, T) : Plain(w)

SameEvent(a, b, level, strictNumbers) ==
  /\ a # <<>> /\ b # <<>>
  /\ YearsIn(a) = {} \/ YearsIn(b) = {} \/ YearsIn(a) = YearsIn(b)
  /\ strictNumbers => NumbersIn(a) = NumbersIn(b)
  /\ \/ Key(a) = Key(b)
     \/ level # "safe" /\ (Within(a, b, level) \/ TitleRatio(a, b) >= IF level = "auto" THEN 92 ELSE 85)

-----------------------------------------------------------------------------
(* Names of places.                                                        *)

Contrasts(a, b) ==
  \E p \in Antonyms : \E i \in {1, 2} : a \cap p[i] # {} /\ b \cap p[3 - i] # {}

IsSubset(a, b) ==
  a # {} /\ b # {} /\ Small(a, b) \subseteq Big(a, b) /\ \E w \in Small(a, b) : Length[w] >= 4

\* The words of a name that tell, all of them within another's name or address.
NameWithin(a, haystack) ==
  LET D == {w \in a : Length[w] >= 4 /\ Latin[w] \notin Common}
  IN /\ Cardinality({Latin[w] : w \in D}) >= 2 \/ \E w \in D : Length[w] >= 7
     /\ {Latin[w] : w \in D} \subseteq {Latin[w] : w \in haystack}

NoMatch == -1

\* name_match_score: how well two names near one another are one place.  Two that list one
\* show on one date are held to less.
NameMatchScore(a, b, coHost, addrA, addrB) ==
  LET r == NameRatio(a, b)
  IN IF Contrasts(a, b) THEN NoMatch
     ELSE IF r >= 85 THEN r
     ELSE IF NameWithin(a, b \cup addrB) \/ NameWithin(b, a \cup addrA) THEN (IF r > 70 THEN r ELSE 70)
     ELSE IF IsSubset(a, b) \/ (coHost /\ r >= 70) THEN r
     ELSE NoMatch
=============================================================================

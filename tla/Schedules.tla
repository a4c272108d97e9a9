------------------------------ MODULE Schedules ------------------------------
(***************************************************************************)
(* The dates that the connectors make of what a site tells of an event     *)
(* (connectors/web): Yandex Afisha with its best-effort question for the   *)
(* sessions, the listing of afisha.ru with its question for one schedule,  *)
(* the sessions that Timepad posts one by one, and the rows of KudaGo; and *)
(* the one date that the normalizer takes of them.                         *)
(*                                                                         *)
(* An event e is told by its sessions; by [run], when it is open from the  *)
(* first of them to the last; by [permanent].  Dates are sets of rows, for *)
(* the sites list them in order; a row without an end ends as it begins.   *)
(* Titles, prices, places are left out.                                    *)
(***************************************************************************)
EXTENDS Integers, FiniteSets, FiniteSetsExt

CONSTANTS DayLen,  \* clock units of a day; the first is midnight, no session begins then
          Days,    \* the days that a session may be on
          Clocks,  \* when a walk may begin: what it takes for now all along
          Ahead,   \* the days that the window reaches beyond today
          Cap      \* the dates that are kept of an event

ASSUME SchedulesAssumption ==
  /\ DayLen \in Nat \ {0, 1} /\ Days \in Nat \ {0}
  /\ Clocks \subseteq 0..(Days * DayLen) /\ Ahead \in Nat /\ Cap \in Nat \ {0}

VARIABLE now

Day(t) == t \div DayLen
Today == Day(now)
Times == {t \in 0..(Days * DayLen - 1) : t % DayLen # 0}
FarFuture == Days * DayLen * 2

\* A permanent event tells of no session, a run of the days it opens and closes.
Tales ==
  {[sessions |-> S, run |-> r, permanent |-> FALSE] : S \in SUBSET Times, r \in BOOLEAN}
    \cup {[sessions |-> {}, run |-> FALSE, permanent |-> TRUE]}

InWindow(d) == Today <= d /\ d <= Today + Ahead
Until == now + Ahead * DayLen
First(e) == Min(e.sessions)
Last(e) == Max(e.sessions)
Row(from, to, clock) == [from |-> from, to |-> to, clock |-> clock]
Timed(t) == Row(t, t, TRUE)
AllDay(d) == Row(d * DayLen, (d + 1) * DayLen - 1, FALSE)
FirstFew(S) == {x \in S : Cardinality({y \in S : y < x}) < Cap}

-----------------------------------------------------------------------------
(* Yandex Afisha.                                                          *)

DaysListed(e) == FirstFew({d \in {Day(t) : t \in e.sessions} : InWindow(d)})

\* The hour is known of an event with one showtime; a permanent one begins on a fixed day;
\* what has begun and lists no day in the window is taken to be open till its end.
BuildDates(e) ==
  IF e.permanent THEN {Row(0, FarFuture, FALSE)}
  ELSE IF ~e.run /\ DaysListed(e) # {}
       THEN {IF e.sessions = {t} THEN Timed(t) ELSE AllDay(Day(t)) :
               t \in {u \in e.sessions : Day(u) \in DaysListed(e)}}
       ELSE IF e.sessions # {} /\ Day(First(e)) <= Today /\ Today <= Day(Last(e))
            THEN {Row(Day(First(e)) * DayLen, (Day(Last(e)) + 1) * DayLen - 1, FALSE)}
            ELSE {}

NeedsSchedule(rows) ==
  (\A r \in rows : ~r.clock) /\ \E r \in rows : r.to - r.from <= DayLen

RowsFromSessions(S) == {Timed(t) : t \in FirstFew({u \in S : InWindow(Day(u))})}

\* Whatever the question fails on keeps the days of the list.
AugmentSchedules(rows, e, answered) ==
  IF NeedsSchedule(rows) /\ answered /\ RowsFromSessions(e.sessions) # {}
  THEN RowsFromSessions(e.sessions)
  ELSE rows

-----------------------------------------------------------------------------
(* afisha.ru, Timepad, KudaGo.                                             *)

\* The list tells the first and the last session; an exhibition is one run from today, or
\* its opening, to its end.
ListingDates(e) ==
  IF e.run /\ e.sessions # {} /\ Day(Last(e)) - Day(First(e)) > 1
  THEN IF Day(Last(e)) < Today THEN {}
       ELSE {Row(Max({First(e), Today * DayLen}), Last(e), FALSE)}
  ELSE {Timed(t) : t \in {u \in e.sessions : InWindow(Day(u)) /\ u \in {First(e), Last(e)}}}

\* Fault: the first sessions are taken, and then those in the window.
FewThenWindow(e, here) == {Timed(t) : t \in {u \in FirstFew(e.sessions \cap here) : InWindow(Day(u))}}

\* The sessions of one event in this city; none at all leaves what the list told.
GraphqlSchedule(e, here) == {Timed(t) : t \in FirstFew({u \in e.sessions \cap here : InWindow(Day(u))})}

\* One record of all the sessions that were read.  A stage tells the soonest to come with its
\* hour, as does what is over in a day; anything else the days from there to the last.
BuildRecord(read, kind) ==
  LET group == {t \in read : t <= Until}
      future == {t \in group : t >= now}
      multiday == Day(Max(group)) > Day(Min(future))
  IN IF future = {} THEN {}
     ELSE IF kind = "stage" \/ (kind # "exhibition" /\ ~multiday) THEN {Timed(Min(future))}
     ELSE {Row(Day(Min(future)) * DayLen, Day(Max(group)) * DayLen, FALSE)}

\* KudaGo tells its rows as they are, the first few; the window decides on the event alone.
KudagoRows(e) ==
  IF e.run /\ e.sessions # {} THEN {Row(First(e), Last(e), TRUE)} ELSE {Timed(t) : t \in e.sessions}
InKudagoWindow(e) ==
  \E r \in KudagoRows(e) :
    (now <= r.from /\ r.from <= Until) \/ (now <= r.to /\ r.to <= Until) \/ (r.from < now /\ r.to >= now)
TrimmedDates(e) ==
  IF InKudagoWindow(e) THEN {r \in KudagoRows(e) : r.from \in FirstFew({q.from : q \in KudagoRows(e)})} ELSE {}

-----------------------------------------------------------------------------
(* The normalizer.                                                         *)

Soonest(S) == {r \in S : \A q \in S : r.from <= q.from}

\* One date of the rows: the soonest to begin, those with an hour first, or what is going on.
ParseDates(rows) ==
  LET upcoming == {r \in rows : now <= r.from /\ r.from <= Until}
      timed == {r \in upcoming : r.clock}
      ongoing == {r \in rows : r.from < now /\ now <= r.to}
  IN IF timed # {} THEN Soonest(timed)
     ELSE IF upcoming # {} THEN Soonest(upcoming)
     ELSE Soonest(ongoing)

-----------------------------------------------------------------------------
(* What the dates owe to the event.                                        *)

\* What is told of the event e covers the session t.
Covers(rows, t) == \E r \in rows : r.from <= t /\ t <= r.to

\* Every date is of a session, or within the run.
Real(rows, e) ==
  \A r \in rows :
    IF e.run THEN Day(r.from) >= Day(First(e)) /\ Day(r.to) <= Day(Last(e))
    ELSE e.permanent \/ \E t \in e.sessions : r.from <= t /\ t <= r.to

\* And none of them was over before today.
Truthful(rows, e) == Real(rows, e) /\ \A r \in rows : r.to >= Today * DayLen

\* The next session of those that may be told of is told of.
NextTold(rows, S) == S # {} => Covers(rows, Min(S))

\* A record that tells of something to come gets a date to come, or one that is going on.
Dated(rows) ==
  (\E r \in rows : r.to >= now /\ r.from <= Until) => \E r \in ParseDates(rows) : r.to >= now

\* What each connector tells of the event e, whatever questions go unanswered and
\* caps leave out.  Nobody makes a date up, and all but KudaGo tell of none that was over
\* before today.  Yandex Afisha, the schedules of afisha.ru and Timepad always tell the next
\* session; a listing of afisha.ru, that knows the first and the last session, exactly when
\* it is one of these; KudaGo exactly while fewer than Cap sessions are over.  Rows that
\* reach the present date the event by one that does; Timepad's record is its own date.
Honest(e) ==
  LET asked == {AugmentSchedules(BuildDates(e), e, answered) : answered \in BOOLEAN}
                 \cup {GraphqlSchedule(e, Times)}
      kinds == IF e.run THEN {"exhibition"} ELSE {"stage", "other"}
      posted == {BuildRecord(e.sessions, k) : k \in kinds}
      next == {t \in e.sessions : InWindow(Day(t))}
      coming == {t \in e.sessions : now <= t /\ t <= Until}
      over == {t \in e.sessions : t < now}
  IN /\ \A rows \in asked \cup posted \cup {ListingDates(e)} : Truthful(rows, e)
     /\ Real(TrimmedDates(e), e)
     /\ \A rows \in asked \cup {ListingDates(e), TrimmedDates(e)} : Dated(rows)
     /\ ~e.run => /\ \A rows \in asked : NextTold(rows, next)
                  /\ \A rows \in posted : NextTold(rows, coming)
                  /\ NextTold(ListingDates(e), next) <=> (next = {} \/ Min(next) \in {First(e), Last(e)})
     /\ NextTold(TrimmedDates(e), coming) <=> (e.run \/ coming = {} \/ Cardinality(over) < Cap)

\* "Keep events relevant within the lookahead window" (kudago_connector.py:124): an event
\* that was let in for a session to come tells of one.
KudagoRelevant ==
  \A e \in Tales : InKudagoWindow(e) => \E r \in TrimmedDates(e) : r.to >= now

\* "Discrete upcoming session dates are the honest representation" (yandex_afisha_connector.py:384):
\* only what runs on is told as a span.
SpansAreRuns ==
  \A e \in Tales : \A r \in BuildDates(e) : r.to - r.from < DayLen \/ e.run \/ e.permanent
=============================================================================

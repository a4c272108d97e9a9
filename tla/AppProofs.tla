------------------------------ MODULE AppProofs ------------------------------
(***************************************************************************)
(* What the Mini App keeps, for any number of phones, items, cities,       *)
(* events, keys of a pane, taps, losses and moves: its panes, its frame    *)
(* and the marks that several phones share; and what holds of submissions  *)
(* for any number of them, of administrators, decisions and crashes.       *)
(***************************************************************************)
EXTENDS MiniApp, Submissions, FiniteSetTheorems, SequenceTheorems, TLAPS

-----------------------------------------------------------------------------
(* The panes.                                                              *)

\* What a pane may want, the requests for it, and the states of a pane.
Wished == [key : Keys, nonce : Nat]
Flights == [want : Wished \cup {Blank}, role : {"screen", "warm"}, stage : Nat, again : BOOLEAN]
PaneStates ==
  [want : Wished \cup {Blank}, shown : Wished \cup {Blank}, timer : BOOLEAN, flights : SUBSET Flights,
   loading : BOOLEAN, error : BOOLEAN, failed : BOOLEAN, warm : SUBSET (Wished \cup {Blank})]

\* A pane whose cleanup drops what is on its way has at most one request for the screen,
\* or its timer: the one for what is wanted now; nothing has failed until it is over.
Tidy(x, p) ==
  /\ \A f \in OnScreen(p) : f.want = p.want
  /\ \A f, g \in OnScreen(p) : f = g
  /\ p.timer => OnScreen(p) = {} /\ p.want # Blank
  /\ p.failed => Resting(p)
  /\ p.warm # {} => x.is["warms"]
  /\ Honest(x, p)

PaneInv == OnPane => pane \in PaneStates /\ (Effects.is["drops"] => Tidy(Effects, pane))

\* Every effect has its traits, and none both keeps answers and shows a skeleton.
LEMMA EffectFacts ==
  ASSUME NEW s \in DOMAIN EffectOf
  PROVE  /\ EffectOf[s].is \in [Traits -> BOOLEAN] /\ EffectOf[s].stages \in Nat
         /\ ~(EffectOf[s].is["warms"] /\ EffectOf[s].is["spins"])
<1>1. ASSUME NEW T, NEW n \in Nat, "warms" \in T => "spins" \notin T
      PROVE  /\ Effect(T, n).is \in [Traits -> BOOLEAN] /\ Effect(T, n).stages \in Nat
             /\ ~(Effect(T, n).is["warms"] /\ Effect(T, n).is["spins"])
  <2>1. Effect(T, n).is = [t \in Traits |-> t \in T] /\ Effect(T, n).stages = n
    BY DEF Effect
  <2>2. "warms" \in Traits /\ "spins" \in Traits
    BY DEF Traits
  <2>3. [t \in Traits |-> t \in T] \in [Traits -> BOOLEAN]
    OBVIOUS
  <2>4. [t \in Traits |-> t \in T]["warms"] = ("warms" \in T) /\ [t \in Traits |-> t \in T]["spins"] = ("spins" \in T)
    BY <2>2, Zenon
  <2>5. QED
    BY <2>1, <2>3, <2>4, <1>1, Zenon
<1>2. \E T, n : EffectOf[s] = Effect(T, n) /\ n \in Nat /\ ("warms" \in T => "spins" \notin T)
  <2>1. CASE s \in {"pins", "clusters", "search", "detail"}
    BY <2>1 DEF EffectOf, Pins, Clusters, Search, Detail
  <2>2. CASE s \in {"faces", "rings", "tastes", "venue"}
    BY <2>2 DEF EffectOf, Faces, Rings, Tastes, Venue
  <2>3. CASE s \in {"forYou", "collection", "friend", "saved", "followed"}
    BY <2>3 DEF EffectOf, ForYou, Collection, Friend, Saved, Followed
  <2>4. QED
    BY <2>1, <2>2, <2>3 DEF EffectOf
<1>3. QED
  BY <1>1, <1>2

TraitsOK(x) ==
  /\ x.is \in [Traits -> BOOLEAN] /\ x.stages \in Nat
  /\ ~(x.is["warms"] /\ x.is["spins"])

\* Nothing that is wanted is blank.
LEMMA NoBlank == Nothing \notin Keys => Blank \notin Wished
  BY DEF Blank, Wished

\* A trait is there or not.
LEMMA TraitsType ==
  ASSUME NEW x, TraitsOK(x), NEW t \in Traits
  PROVE  x.is[t] \in BOOLEAN
  BY DEF TraitsOK

\* The pane that wants something else, before it looks for an answer.
Calm(x, p, w, refresh) ==
  [p EXCEPT !.want = w, !.flights = Cleaned(x, p, refresh), !.timer = FALSE, !.failed = FALSE,
            !.error = FALSE, !.warm = IF refresh THEN {} ELSE @]

\* A pane that wants something else has let go of what was on its way.
LEMMA CalmFacts ==
  ASSUME NEW x, NEW p \in PaneStates, NEW w \in Wished \cup {Blank}, NEW refresh,
         NEW q, q = Calm(x, p, w, refresh)
  PROVE  /\ q \in PaneStates
         /\ q.want = w /\ ~q.timer /\ ~q.failed /\ ~q.error
         /\ q.warm \subseteq p.warm
         /\ x.is["drops"] => OnScreen(q) = {}
<1>1. Cleaned(x, p, refresh) \in SUBSET Flights
  BY DEF Cleaned, PaneStates
<1>2. (IF refresh THEN {} ELSE p.warm) \in SUBSET (Wished \cup {Blank})
  BY DEF PaneStates
<1>3. x.is["drops"] => {f \in Cleaned(x, p, refresh) : f.role = "screen"} = {}
  BY DEF Cleaned
<1>4. QED
  BY <1>1, <1>2, <1>3 DEF Calm, PaneStates, OnScreen

\* A request asks for what is wanted, for the screen or ahead of it.
LEMMA FlightType ==
  ASSUME NEW w \in Wished \cup {Blank}, NEW r \in {"screen", "warm"}
  PROVE  Flight(w, r) \in Flights /\ Flight(w, r).want = w /\ Flight(w, r).role = r
  BY DEF Flight, Flights

\* Wanting something else leaves a tidy pane: one request or the timer, nothing failed.
LEMMA WantsTidy ==
  ASSUME NEW x, TraitsOK(x), NEW p \in PaneStates, NEW w \in Wished \cup {Blank}, NEW refresh,
         Nothing \notin Keys, x.is["drops"] => Tidy(x, p)
  PROVE  /\ Wants(x, p, w, refresh) \in PaneStates
         /\ x.is["drops"] => Tidy(x, Wants(x, p, w, refresh))
<1> SUFFICES ASSUME NEW q, q = Calm(x, p, w, refresh), NEW r, r = Wants(x, p, w, refresh)
             PROVE  r \in PaneStates /\ (x.is["drops"] => Tidy(x, r))
  OBVIOUS
<1>1. /\ q \in PaneStates
      /\ q.want = w /\ ~q.timer /\ ~q.failed /\ ~q.error
      /\ q.warm \subseteq p.warm
      /\ x.is["drops"] => OnScreen(q) = {}
  <2>1. q \in PaneStates
    BY CalmFacts
  <2>2. q.want = w
    BY DEF Calm, PaneStates
  <2>3. ~q.timer /\ ~q.failed /\ ~q.error
    BY CalmFacts
  <2>4. q.warm \subseteq p.warm
    BY CalmFacts
  <2>5. x.is["drops"] => OnScreen(q) = {}
    BY CalmFacts
  <2>6. QED
    BY <2>1, <2>2, <2>3, <2>4, <2>5
<1>2. \A t \in Traits : x.is[t] \in BOOLEAN
  BY TraitsType
<1>3. r = IF w.key = Nothing
          THEN IF x.is["empties"] THEN [q EXCEPT !.shown = Blank, !.loading = FALSE]
                                  ELSE [q EXCEPT !.error = p.error]
          ELSE IF w \in q.warm THEN [q EXCEPT !.shown = w]
          ELSE [q EXCEPT !.loading = x.is["spins"],
                         !.shown = IF x.is["clears"] THEN Blank ELSE @,
                         !.timer = x.is["waits"],
                         !.flights = IF x.is["waits"] THEN @ ELSE @ \cup {Flight(w, "screen")}]
  BY DEF Wants, Calm
<1>4. CASE w = Blank
  <2>0. r = [q EXCEPT !.shown = Blank, !.loading = FALSE] \/ r = [q EXCEPT !.error = p.error]
    BY <1>3, <1>4 DEF Blank
  <2>1. r \in PaneStates /\ r.want = w /\ ~r.timer /\ ~r.failed /\ r.flights = q.flights
    BY <1>1, <2>0 DEF PaneStates
  <2>2. r.warm = q.warm
    BY <1>1, <2>0 DEF PaneStates
  <2>3. x.is["drops"] => OnScreen(r) = {}
    BY <1>1, <2>1 DEF OnScreen
  <2>4. x.is["drops"] => (r.warm # {} => x.is["warms"])
    BY <1>1, <2>2 DEF Tidy
  <2>5. QED
    BY <1>4, <2>1, <2>3, <2>4 DEF Tidy, Honest, Resting
<1>5. CASE w # Blank /\ w \in q.warm
  <2>1. w \in Wished /\ w.key # Nothing
    BY <1>5 DEF Wished
  <2>2. r = [q EXCEPT !.shown = w]
    BY <1>3, <1>5, <2>1
  <2>3. /\ r \in PaneStates /\ r.want = w /\ ~r.timer /\ ~r.failed /\ r.flights = q.flights
        /\ r.shown = w /\ ~r.error
    BY <1>1, <2>1, <2>2 DEF PaneStates
  <2>4. r.warm = q.warm
    BY <1>1, <2>2 DEF PaneStates
  <2>5. x.is["drops"] => OnScreen(r) = {}
    BY <1>1, <2>3 DEF OnScreen
  <2>6. x.is["drops"] => x.is["warms"]
    BY <1>1, <1>5 DEF Tidy
  <2>7. x.is["drops"] => ~x.is["spins"]
    BY <2>6 DEF TraitsOK
  <2>8. QED
    BY <1>5, <2>1, <2>3, <2>5, <2>6, <2>7 DEF Tidy, Honest, Resting
<1>6. CASE w # Blank /\ w \notin q.warm
  <2>1. w \in Wished /\ w.key # Nothing
    BY <1>6 DEF Wished
  <2>2. x.is["waits"] \in BOOLEAN /\ x.is["spins"] \in BOOLEAN
    BY <1>2 DEF Traits
  <2>3. /\ r.want = w /\ ~r.failed /\ ~r.error /\ (r.loading <=> x.is["spins"])
        /\ (r.timer <=> x.is["waits"]) /\ r.warm = q.warm
        /\ r.flights = IF x.is["waits"] THEN q.flights ELSE q.flights \cup {Flight(w, "screen")}
        /\ r.shown = IF x.is["clears"] THEN Blank ELSE q.shown
    BY <1>1, <1>3, <1>6, <2>1 DEF PaneStates
  <2>4. r \in PaneStates
    <3>1. Flight(w, "screen") \in Flights
      BY <2>1, FlightType
    <3>2. CASE x.is["waits"]
      <4>1. r = [q EXCEPT !.loading = x.is["spins"], !.shown = IF x.is["clears"] THEN Blank ELSE @,
                          !.timer = x.is["waits"], !.flights = q.flights]
        BY <1>1, <1>3, <1>6, <2>1, <3>2
      <4>2. QED
        BY <1>1, <2>2, <4>1 DEF PaneStates
    <3>3. CASE ~x.is["waits"]
      <4>1. r = [q EXCEPT !.loading = x.is["spins"], !.shown = IF x.is["clears"] THEN Blank ELSE @,
                          !.timer = x.is["waits"], !.flights = q.flights \cup {Flight(w, "screen")}]
        BY <1>1, <1>3, <1>6, <2>1, <3>3 DEF PaneStates
      <4>2. q.flights \cup {Flight(w, "screen")} \in SUBSET Flights
        BY <1>1, <3>1 DEF PaneStates
      <4>3. QED
        BY <1>1, <2>2, <4>1, <4>2 DEF PaneStates
    <3>4. QED
      BY <3>2, <3>3
  <2>5. ASSUME x.is["drops"]
        PROVE  Tidy(x, r)
    <3>1. r.warm # {} => x.is["warms"]
      BY <1>1, <2>3, <2>5 DEF Tidy
    <3>2. CASE x.is["waits"]
      <4>1. OnScreen(r) = {} /\ r.timer
        BY <1>1, <2>3, <2>5, <3>2 DEF OnScreen
      <4>2. QED
        BY <1>6, <2>2, <2>3, <3>1, <4>1 DEF Tidy, Honest, Resting
    <3>3. CASE ~x.is["waits"]
      <4>1. OnScreen(r) = {Flight(w, "screen")} /\ ~r.timer
        BY <1>1, <2>1, <2>3, <2>5, <3>3, FlightType DEF OnScreen
      <4>2. Flight(w, "screen").want = w
        BY <2>1, FlightType
      <4>3. QED
        BY <1>6, <2>2, <2>3, <3>1, <4>1, <4>2 DEF Tidy, Honest, Resting
    <3>4. QED
      BY <3>2, <3>3
  <2>6. QED
    BY <2>4, <2>5
<1>7. QED
  BY <1>4, <1>5, <1>6

\* The timer that fires becomes the one request.
LEMMA FiredTidy ==
  ASSUME NEW x, NEW p \in PaneStates, p.timer
  PROVE  /\ Fired(p) \in PaneStates
         /\ x.is["drops"] /\ Tidy(x, p) => Tidy(x, Fired(p))
<1>1. p.want \in Wished \cup {Blank}
  BY DEF PaneStates
<1>2. Flight(p.want, "screen") \in Flights /\ Flight(p.want, "screen").want = p.want
      /\ Flight(p.want, "screen").role = "screen"
  BY <1>1, FlightType
<1> SUFFICES ASSUME NEW r, r = Fired(p)
             PROVE  r \in PaneStates /\ (x.is["drops"] /\ Tidy(x, p) => Tidy(x, r))
  OBVIOUS
<1>3. r = [p EXCEPT !.timer = FALSE, !.flights = p.flights \cup {Flight(p.want, "screen")}]
  BY DEF Fired
<1>4. r \in PaneStates
  <2>1. p.flights \cup {Flight(p.want, "screen")} \in SUBSET Flights
    BY <1>2 DEF PaneStates
  <2>2. QED
    BY <1>3, <2>1 DEF PaneStates
<1>5. /\ r.want = p.want /\ r.shown = p.shown /\ ~r.timer /\ (r.failed <=> p.failed)
      /\ (r.error <=> p.error) /\ (r.loading <=> p.loading) /\ r.warm = p.warm
      /\ r.flights = p.flights \cup {Flight(p.want, "screen")}
  BY <1>3 DEF PaneStates
<1>6. ASSUME x.is["drops"], Tidy(x, p)
      PROVE  Tidy(x, r)
  <2>1. OnScreen(p) = {} /\ ~Resting(p) /\ p.want # Blank
    BY <1>6 DEF Tidy, Resting
  <2>2. OnScreen(r) = {Flight(p.want, "screen")}
    BY <1>2, <1>5, <2>1 DEF OnScreen
  <2>3. QED
    BY <1>2, <1>5, <1>6, <2>1, <2>2 DEF Tidy, Honest, Resting
<1>7. QED
  BY <1>4, <1>6

\* What a step makes of a request: it is over, or it is another one for the same thing.
LEMMA OverTidy ==
  ASSUME NEW x, NEW p \in PaneStates, NEW f \in p.flights, NEW r \in PaneStates, Tidy(x, p),
         r.flights = p.flights \ {f}, r.want = p.want, r.timer <=> p.timer,
         r.warm # {} => x.is["warms"],
         f.role = "screen" =>
           /\ r.failed \/ r.shown = p.want
           /\ x.is["flags"] => (r.error <=> r.failed)
           /\ r.error /\ x.is["blanks"] => r.shown = Blank
           /\ ~r.loading,
         f.role = "warm" =>
           /\ r.shown = p.shown /\ (r.failed <=> p.failed)
           /\ (r.error <=> p.error) /\ (r.loading <=> p.loading)
  PROVE  Tidy(x, r)
<1>1. f.role \in {"screen", "warm"}
  BY DEF PaneStates, Flights
<1>2. CASE f.role = "warm"
  <2>1. OnScreen(r) = OnScreen(p)
    BY <1>2 DEF OnScreen
  <2>2. QED
    BY <1>2, <2>1 DEF Tidy, Honest, Resting
<1>3. CASE f.role = "screen"
  <2>1. OnScreen(p) = {f} /\ ~p.timer
    BY <1>3 DEF Tidy, OnScreen
  <2>2. OnScreen(r) = {}
    BY <2>1 DEF OnScreen
  <2>3. Resting(r)
    BY <2>1, <2>2 DEF Resting
  <2>4. QED
    BY <1>3, <2>1, <2>2, <2>3 DEF Tidy, Honest
<1>4. QED
  BY <1>1, <1>2, <1>3

\* An answer shows what is wanted, or is dropped.
LEMMA LandedTidy ==
  ASSUME NEW x, TraitsOK(x), NEW p \in PaneStates, NEW f \in p.flights
  PROVE  /\ Landed(x, p, f) \in PaneStates
         /\ Tidy(x, p) => Tidy(x, Landed(x, p, f))
<1> SUFFICES ASSUME NEW r, r = Landed(x, p, f)
             PROVE  r \in PaneStates /\ (Tidy(x, p) => Tidy(x, r))
  OBVIOUS
<1>1. f \in Flights /\ f.want \in Wished \cup {Blank} /\ f.role \in {"screen", "warm"}
  BY DEF PaneStates, Flights
<1>2. PICK kept : kept = IF x.is["warms"] THEN p.warm \cup {f.want} ELSE p.warm
  OBVIOUS
<1>3. kept \in SUBSET (Wished \cup {Blank})
  BY <1>1, <1>2 DEF PaneStates
<1>4. r = IF f.role = "warm" THEN [p EXCEPT !.flights = p.flights \ {f}, !.warm = kept]
          ELSE [p EXCEPT !.flights = p.flights \ {f}, !.warm = kept, !.shown = f.want, !.loading = FALSE,
                          !.error = FALSE]
  BY <1>2 DEF Landed
<1>5. r \in PaneStates
  <2>1. p.flights \ {f} \in SUBSET Flights
    BY DEF PaneStates
  <2>2. CASE f.role = "warm"
    <3>1. r = [p EXCEPT !.flights = p.flights \ {f}, !.warm = kept]
      BY <1>4, <2>2
    <3>2. QED
      BY <1>3, <2>1, <3>1 DEF PaneStates
  <2>3. CASE f.role = "screen"
    BY <1>1, <1>3, <1>4, <2>1, <2>3 DEF PaneStates
  <2>4. QED
    BY <1>1, <2>2, <2>3
<1>6. /\ r.flights = p.flights \ {f} /\ r.want = p.want /\ (r.timer <=> p.timer) /\ r.warm = kept
      /\ (r.failed <=> p.failed)
  BY <1>4 DEF PaneStates
<1>7. f.role = "screen" => r.shown = f.want /\ ~r.error /\ ~r.loading
  BY <1>4 DEF PaneStates
<1>8. f.role = "warm" => r.shown = p.shown /\ (r.error <=> p.error) /\ (r.loading <=> p.loading)
  BY <1>4 DEF PaneStates
<1>9. ASSUME Tidy(x, p)
      PROVE  Tidy(x, r)
  <2>1. r.warm # {} => x.is["warms"]
    BY <1>2, <1>6, <1>9 DEF Tidy
  <2>2. f.role = "screen" => f.want = p.want /\ ~p.failed
    BY <1>9 DEF Tidy, OnScreen, Resting
  <2>3. QED
    BY <1>5, <1>6, <1>7, <1>8, <1>9, <2>1, <2>2, OverTidy
<1>10. QED
  BY <1>5, <1>9

\* A failure is of what is wanted, or is dropped.
LEMMA FailedTidy ==
  ASSUME NEW x, TraitsOK(x), NEW p \in PaneStates, NEW f \in p.flights
  PROVE  /\ Failed(x, p, f) \in PaneStates
         /\ Tidy(x, p) => Tidy(x, Failed(x, p, f))
<1> SUFFICES ASSUME NEW r, r = Failed(x, p, f)
             PROVE  r \in PaneStates /\ (Tidy(x, p) => Tidy(x, r))
  OBVIOUS
<1>1. f.role \in {"screen", "warm"}
  BY DEF PaneStates, Flights
<1>2. x.is["flags"] \in BOOLEAN
  BY TraitsType DEF Traits
<1>3. r = IF f.role = "warm" THEN [p EXCEPT !.flights = p.flights \ {f}]
          ELSE [p EXCEPT !.flights = p.flights \ {f}, !.failed = TRUE, !.loading = FALSE,
                         !.error = x.is["flags"], !.shown = IF x.is["blanks"] THEN Blank ELSE @]
  BY DEF Failed
<1>4. r \in PaneStates
  <2>1. p.flights \ {f} \in SUBSET Flights
    BY DEF PaneStates
  <2>2. CASE f.role = "warm"
    BY <1>3, <2>1, <2>2 DEF PaneStates
  <2>3. CASE f.role = "screen"
    BY <1>2, <1>3, <2>1, <2>3 DEF PaneStates
  <2>4. QED
    BY <1>1, <2>2, <2>3
<1>5. /\ r.flights = p.flights \ {f} /\ r.want = p.want /\ (r.timer <=> p.timer) /\ r.warm = p.warm
  BY <1>3 DEF PaneStates
<1>6. f.role = "screen" => /\ r.failed /\ ~r.loading /\ (r.error <=> x.is["flags"])
                           /\ (x.is["blanks"] => r.shown = Blank)
  BY <1>2, <1>3 DEF PaneStates
<1>7. f.role = "warm" => /\ r.shown = p.shown /\ (r.error <=> p.error) /\ (r.loading <=> p.loading)
                         /\ (r.failed <=> p.failed)
  BY <1>3 DEF PaneStates
<1>8. ASSUME Tidy(x, p)
      PROVE  Tidy(x, r)
  <2>1. r.warm # {} => x.is["warms"]
    BY <1>5, <1>8 DEF Tidy
  <2>3. QED
    BY <1>4, <1>5, <1>6, <1>7, <1>8, <2>1, OverTidy
<1>9. QED
  BY <1>4, <1>8

\* A request that is sent once more, or goes on to its next stage, is still the one.
LEMMA AgainTidy ==
  ASSUME NEW x, NEW p \in PaneStates, NEW f \in p.flights, NEW g \in Flights,
         g.want = f.want, g.role = f.role
  PROVE  LET r == [p EXCEPT !.flights = (@ \ {f}) \cup {g}]
         IN  r \in PaneStates /\ (Tidy(x, p) => Tidy(x, r))
<1> SUFFICES ASSUME NEW r, r = [p EXCEPT !.flights = (@ \ {f}) \cup {g}]
             PROVE  r \in PaneStates /\ (Tidy(x, p) => Tidy(x, r))
  OBVIOUS
<1>1. f.role \in {"screen", "warm"} /\ (p.flights \ {f}) \cup {g} \in SUBSET Flights
  BY DEF PaneStates, Flights
<1>2. r \in PaneStates
  BY <1>1 DEF PaneStates
<1>3. /\ r.flights = (p.flights \ {f}) \cup {g} /\ r.want = p.want /\ (r.timer <=> p.timer)
      /\ r.warm = p.warm /\ r.shown = p.shown /\ (r.failed <=> p.failed) /\ (r.error <=> p.error)
      /\ (r.loading <=> p.loading)
  BY DEF PaneStates
<1>4. CASE f.role = "warm"
  <2>1. OnScreen(r) = OnScreen(p)
    BY <1>3, <1>4 DEF OnScreen
  <2>2. QED
    BY <1>2, <1>3, <2>1 DEF Tidy, Honest, Resting
<1>5. CASE f.role = "screen"
  <2>1. OnScreen(r) = (OnScreen(p) \ {f}) \cup {g} /\ f \in OnScreen(p)
    BY <1>3, <1>5 DEF OnScreen
  <2>2. ASSUME Tidy(x, p)
        PROVE  Tidy(x, r)
    <3>1. OnScreen(p) = {f} /\ OnScreen(r) = {g} /\ g.want = p.want
      BY <2>1, <2>2 DEF Tidy
    <3>2. QED
      BY <1>3, <2>2, <3>1 DEF Tidy, Honest, Resting
  <2>3. QED
    BY <1>2, <2>2
<1>6. QED
  BY <1>1, <1>4, <1>5

\* The effect of the scene has its traits.
LEMMA PaneSpace ==
  OnPane => TraitsOK(Effects) /\ Nothing \notin Keys
  BY EffectFacts, MiniAppAssumption DEF OnPane, Effects, TraitsOK

\* A pane that is not mounted is tidy.
LEMMA UnmountedTidy == Unmounted \in PaneStates /\ \A x : Tidy(x, Unmounted)
<1>1. Unmounted \in PaneStates
  BY DEF Unmounted, PaneStates
<1>2. /\ OnScreen(Unmounted) = {} /\ Unmounted.warm = {} /\ Unmounted.want = Blank
      /\ Unmounted.timer = FALSE /\ Unmounted.failed = FALSE
  BY DEF Unmounted, OnScreen
<1>3. \A x : Tidy(x, Unmounted)
  BY <1>2 DEF Tidy, Honest, Resting
<1>4. QED
  BY <1>1, <1>3

\* So is the pane that the App begins with.
LEMMA PaneInit == AppInit => PaneInv /\ opens \in Nat
  BY UnmountedTidy DEF AppInit, PaneInv

PaneIInv == PaneInv /\ opens \in Nat

\* What a user does to the marks leaves the panes and the frame alone.
LEMMA UserApart ==
  ASSUME NEW d, User(d)
  PROVE  UNCHANGED <<scene, pane, shell>> /\ (opens \in Nat => opens' \in Nat)
<1>1. CASE OpenPage(d)
  BY <1>1 DEF OpenPage, screen
<1>2. CASE ClosePage(d)
  BY <1>2 DEF ClosePage, screen, counters
<1>3. ASSUME NEW i \in Items, Tap(d, i) \/ AcceptInvite(d, i)
      PROVE  UNCHANGED <<scene, pane, shell, opens>>
  <2>1. PICK on : Mark(d, i, on)
    BY <1>3 DEF Tap, AcceptInvite
  <2>2. QED
    BY <2>1 DEF Mark, screen
<1>4. ASSUME NEW c \in Cities, Pick(d, c) \/ SettleCity(d, c)
      PROVE  UNCHANGED <<scene, pane, shell, opens>>
  BY <1>4 DEF Pick, SettleCity, screen, counters
<1>5. CASE Locate(d)
  BY <1>5 DEF Locate, screen, counters
<1>6. QED
  BY <1>1, <1>2, <1>3, <1>4, <1>5 DEF User

\* So does what the server answers.
LEMMA ServerApart ==
  ASSUME NEW m, Server(m) \/ Answer(m)
  PROVE  UNCHANGED <<scene, pane, shell, opens>>
<1>1. CASE Toggle(m)
  BY <1>1 DEF Toggle, screen, counters
<1>2. CASE Merge(m) \/ Listed(m) \/ LookForCity(m)
  BY <1>2 DEF Merge, Listed, LookForCity, screen, counters
<1>3. CASE SetCity(m) \/ SaveLocation(m)
  BY <1>3 DEF SetCity, SaveLocation, screen, counters
<1>4. CASE AdoptToggle(m) \/ AdoptLoad(m) \/ Lose(m)
  BY <1>4 DEF AdoptToggle, AdoptLoad, Lose, screen, counters
<1>5. QED
  BY <1>1, <1>2, <1>3, <1>4 DEF Server, Answer

\* A move in the frame is one of the scene of the frame, and leaves all else alone.
LEMMA FrameApart ==
  ASSUME Frame
  PROVE  /\ scene = "shell" /\ UNCHANGED <<scene, account, phone, wire, last, messy, overtaken, pane, opens>>
         /\ taps' \in {taps, taps + 1}
<1>1. (\E s : Move(s) \/ Settle(s)) =>
        /\ scene = "shell" /\ UNCHANGED <<scene, account, phone, wire, last, messy, overtaken, pane, opens>>
        /\ taps' \in {taps, taps + 1}
  BY DEF Move, Settle, Becomes, tapHistory
<1>2. (\E e \in Shown : TapEvent(e) \/ ChooseFound(e)) \/ (\E es \in SUBSET Shown : TapPoint(es))
        => \E s : Move(s)
  BY DEF TapEvent, ChooseFound, TapPoint
<1>3. SwipeSheet \/ TapOnMap \/ TapVenue \/ Dim \/ Zoom => \E s : Move(s)
  BY DEF SwipeSheet, TapOnMap, TapVenue, Dim, Zoom
<1>4. (\E v \in Views : Press(v) \/ Follow(v)) => \E s : Move(s)
  BY DEF Press, Follow
<1>5. (\E l : LayOver(l) \/ Cross(l)) => \E s : Move(s)
  BY DEF LayOver, Cross
<1>6. PickTile(ToCategories(shell)) \/ PickTile(ToCategory(shell)) \/ PressBack \/ Accept \/ (\E i : Browse(i))
        => \E s : Move(s)
  BY DEF PickTile, PressBack, Accept, Browse
<1>7. Boot \/ LinkOpens \/ LinkFails \/ InviteShows \/ Rise \/ CloseLate \/ FadeOut => \E s : Settle(s)
  BY DEF Boot, LinkOpens, LinkFails, InviteShows, Rise, CloseLate, FadeOut
<1>8. QED
  BY <1>1, <1>2, <1>3, <1>4, <1>5, <1>6, <1>7 DEF Frame

\* Another key keeps the pane tidy.
LEMMA TurnStep ==
  ASSUME PaneIInv, NEW k \in Keys \cup {Nothing}, Turn(k)
  PROVE  PaneIInv'
<1>1. OnPane /\ UNCHANGED <<scene, opens>>
  BY DEF Turn
<1>2. PICK w \in Wished \cup {Blank} : pane' = Wants(Effects, pane, w, FALSE)
  BY DEF Turn, Wished, PaneIInv
<1>3. /\ Wants(Effects, pane, w, FALSE) \in PaneStates
      /\ Effects.is["drops"] => Tidy(Effects, Wants(Effects, pane, w, FALSE))
  BY <1>1, PaneSpace, WantsTidy DEF PaneIInv, PaneInv
<1>4. QED
  BY <1>1, <1>2, <1>3 DEF PaneIInv, PaneInv, OnPane, Effects

\* So does a refresh.
LEMMA RefreshStep ==
  ASSUME PaneIInv, Refresh
  PROVE  PaneIInv'
<1>1. OnPane /\ UNCHANGED scene /\ opens' \in Nat /\ pane.want # Blank
  BY DEF Refresh, PaneIInv
<1>2. PICK w : w = [pane.want EXCEPT !.nonce = opens + 1] /\ pane' = Wants(Effects, pane, w, TRUE)
  BY DEF Refresh
<1>3. w \in Wished \cup {Blank}
  BY <1>1, <1>2 DEF PaneIInv, PaneInv, PaneStates, Wished
<1>4. /\ Wants(Effects, pane, w, TRUE) \in PaneStates
      /\ Effects.is["drops"] => Tidy(Effects, Wants(Effects, pane, w, TRUE))
  BY <1>1, <1>3, PaneSpace, WantsTidy DEF PaneIInv, PaneInv
<1>5. QED
  BY <1>1, <1>2, <1>4 DEF PaneIInv, PaneInv, OnPane, Effects

\* So does an answer that lands, early or late, and one that fails.
LEMMA AnswerStep ==
  ASSUME PaneIInv, OnPane, NEW f \in pane.flights, Land(f) \/ LandEarly(f) \/ Fail(f) \/ TimeOut(f)
  PROVE  PaneIInv'
<1>1. UNCHANGED <<scene, opens>> /\ pane \in PaneStates /\ TraitsOK(Effects)
  BY PaneSpace DEF Land, LandEarly, Fail, TimeOut, Keep, PaneIInv, PaneInv
<1>2. \/ pane' = Advanced(pane, f) \/ pane' = Landed(Effects, pane, f)
      \/ pane' = Failed(Effects, pane, f) \/ pane' = Repeated(pane, f)
  BY DEF Land, LandEarly, Fail, TimeOut
<1>3. f \in Flights
  BY <1>1 DEF PaneStates
<1>4. pane' \in PaneStates /\ (Tidy(Effects, pane) => Tidy(Effects, pane'))
  <2>1. CASE pane' = Advanced(pane, f)
    <3>1. PICK g : g = [f EXCEPT !.stage = f.stage + 1]
      OBVIOUS
    <3>2. g \in Flights /\ g.want = f.want /\ g.role = f.role
      BY <1>3, <3>1 DEF Flights
    <3>3. pane' = [pane EXCEPT !.flights = (@ \ {f}) \cup {g}]
      BY <2>1, <3>1 DEF Advanced
    <3>4. QED
      BY <1>1, <3>2, <3>3, AgainTidy
  <2>2. CASE pane' = Repeated(pane, f)
    <3>1. PICK g : g = [f EXCEPT !.again = TRUE]
      OBVIOUS
    <3>2. g \in Flights /\ g.want = f.want /\ g.role = f.role
      BY <1>3, <3>1 DEF Flights
    <3>3. pane' = [pane EXCEPT !.flights = (@ \ {f}) \cup {g}]
      BY <2>2, <3>1 DEF Repeated
    <3>4. QED
      BY <1>1, <3>2, <3>3, AgainTidy
  <2>3. CASE pane' = Landed(Effects, pane, f)
    BY <1>1, <2>3, LandedTidy
  <2>4. CASE pane' = Failed(Effects, pane, f)
    BY <1>1, <2>4, FailedTidy
  <2>5. QED
    BY <1>2, <2>1, <2>2, <2>3, <2>4
<1>5. QED
  BY <1>1, <1>4 DEF PaneIInv, PaneInv, OnPane, Effects

\* What is fetched ahead does not count as a request for the screen.
LEMMA PrefetchStep ==
  ASSUME PaneIInv, NEW k \in Keys, Prefetch(k)
  PROVE  PaneIInv'
<1>1. OnPane /\ UNCHANGED <<scene, opens>> /\ pane \in PaneStates
  BY DEF Prefetch, Keep, PaneIInv, PaneInv
<1>2. PICK w \in Wished : pane' = [pane EXCEPT !.flights = @ \cup {Flight(w, "warm")}]
  BY DEF Prefetch, Wished, PaneIInv
<1>3. Flight(w, "warm") \in Flights /\ Flight(w, "warm").role = "warm"
  BY FlightType
<1>4. pane.flights \cup {Flight(w, "warm")} \in SUBSET Flights
  BY <1>1, <1>3 DEF PaneStates
<1> SUFFICES ASSUME NEW r, r = pane'
             PROVE  r \in PaneStates /\ (Tidy(Effects, pane) => Tidy(Effects, r))
  BY <1>1 DEF PaneIInv, PaneInv, OnPane, Effects
<1>5. r \in PaneStates
  BY <1>1, <1>2, <1>4 DEF PaneStates
<1>6. /\ r.flights = pane.flights \cup {Flight(w, "warm")} /\ r.want = pane.want /\ (r.timer <=> pane.timer)
      /\ r.warm = pane.warm /\ r.shown = pane.shown /\ (r.failed <=> pane.failed)
      /\ (r.error <=> pane.error) /\ (r.loading <=> pane.loading)
  BY <1>1, <1>2 DEF PaneStates
<1>7. OnScreen(r) = OnScreen(pane)
  BY <1>3, <1>6 DEF OnScreen
<1>8. QED
  BY <1>5, <1>6, <1>7 DEF Tidy, Honest, Resting

\* No step of the panes breaks it.
LEMMA ScreenStep ==
  ASSUME PaneIInv, Screen
  PROVE  PaneIInv'
<1>1. CASE ~OnPane
  <2>1. UNCHANGED scene
    BY DEF Screen, Turn, Refresh, Leave, Fire, Land, LandEarly, Fail, TimeOut, Prefetch, Keep
  <2>2. opens' \in Nat
    BY <1>1 DEF Screen, Turn, Refresh, Leave, Fire, Land, LandEarly, Fail, TimeOut, Prefetch, Keep, PaneIInv
  <2>3. QED
    BY <1>1, <2>1, <2>2 DEF PaneIInv, PaneInv, OnPane
<1>2. CASE OnPane /\ Leave
  <2>1. pane' = Unmounted /\ UNCHANGED <<scene, opens>>
    BY <1>2 DEF Leave, Keep
  <2>2. QED
    BY <2>1, UnmountedTidy DEF PaneIInv, PaneInv
<1>3. CASE OnPane /\ Fire
  <2>1. pane' = Fired(pane) /\ pane.timer /\ UNCHANGED <<scene, opens>>
    BY <1>3 DEF Fire, Keep
  <2>2. pane \in PaneStates /\ (Effects.is["drops"] => Tidy(Effects, pane))
    BY <1>3 DEF PaneIInv, PaneInv
  <2>4. Fired(pane) \in PaneStates /\ (Effects.is["drops"] => Tidy(Effects, Fired(pane)))
    BY <2>1, <2>2, FiredTidy
  <2>5. QED
    BY <2>1, <2>4 DEF PaneIInv, PaneInv, OnPane, Effects
<1>4. QED
  BY <1>1, <1>2, <1>3, TurnStep, RefreshStep, AnswerStep, PrefetchStep DEF Screen

\* No step of the App does.
LEMMA PaneStep ==
  ASSUME PaneIInv, [AppNext]_appVars
  PROVE  PaneIInv'
<1>1. ASSUME UNCHANGED <<scene, pane>>, opens' \in Nat
      PROVE  PaneIInv'
  BY <1>1 DEF PaneIInv, PaneInv, OnPane, Effects
<1>2. CASE UNCHANGED appVars
  BY <1>1, <1>2 DEF appVars, counters, screen, PaneIInv
<1>3. CASE \E d \in Phones : User(d)
  BY <1>1, <1>3, UserApart DEF PaneIInv
<1>4. CASE \E m \in wire : Server(m) \/ Answer(m)
  BY <1>1, <1>4, ServerApart DEF PaneIInv
<1>5. CASE Frame
  BY <1>1, <1>5, FrameApart DEF PaneIInv
<1>6. QED
  BY <1>2, <1>3, <1>4, <1>5, ScreenStep DEF AppNext

\* A pane that rests shows the answer to what is wanted now, or that its request failed,
\* whatever earlier answers arrive after it: the cleanup of its effect drops them.
THEOREM ScreenIsHonest == AppSpec => []ScreenHonest
<1>1. AppInit => PaneIInv
  BY PaneInit DEF PaneIInv
<1>2. PaneIInv /\ [AppNext]_appVars => PaneIInv'
  BY PaneStep
<1>3. PaneIInv => ScreenHonest
  BY DEF PaneIInv, PaneInv, ScreenHonest, Tidy
<1>4. QED
  BY <1>1, <1>2, <1>3, PTL DEF AppSpec

-----------------------------------------------------------------------------
(* The frame.                                                              *)

\* What is laid over the map, the events that a marker or the sheet is of, and the states
\* of the frame.
Laid == {"disclosure", "onboarding", "drawer", "search", "venue", "filters", "friend", "collection", "list"}
Lit == Shown \cup {None}
FrameStates ==
  [surface : Surfaces, view : Views, over : SUBSET Laid, selected : Lit, ready : BOOLEAN,
   rising : BOOLEAN, closing : BOOLEAN, focused : Lit, fading : BOOLEAN, peek : SUBSET Shown,
   link : {None, "event", "inviting", "invited"}, booting : BOOLEAN, paths : Seq(Views), at : Nat,
   popped : BOOLEAN, meant : Lit, lit : Lit, hasty : BOOLEAN]

\* What was done last is what the sheet and the marker show; a swipe that still closes
\* a sheet makes what is opened meanwhile hasty.
Meant(s) ==
  /\ s.selected # None /\ ~s.closing => s.selected = s.meant
  /\ s.meant # None /\ ~s.hasty => s.selected = s.meant
  /\ s.closing /\ s.meant # None => s.hasty
  /\ ~s.fading => s.focused = s.lit
  /\ s.fading => s.lit = None

\* A friend is laid over the friends alone, the list of a point over the map.
Placed(s) == ("friend" \in s.over => s.view = "friends") /\ (s.peek # {} => s.view = "map")

\* The tabs of a browser's history, each another one than its neighbours, and the one at hand.
Pathed(s) ==
  /\ s.at \in 1..Len(s.paths)
  /\ s.surface = "web" =>
       /\ s.paths[s.at] = s.view /\ ~s.popped
       /\ \A i \in 1..(Len(s.paths) - 1) : s.paths[i] # s.paths[i + 1]

Steady(s) == s \in FrameStates /\ Meant(s) /\ Placed(s) /\ Pathed(s)

\* What follows a change leaves all of it but what covers the map and the sheet's rise.
SameLook(r, t) ==
  /\ r.surface = t.surface /\ r.view = t.view /\ r.selected = t.selected /\ (r.closing <=> t.closing)
  /\ r.focused = t.focused /\ (r.fading <=> t.fading) /\ r.link = t.link
  /\ r.meant = t.meant /\ r.lit = t.lit /\ (r.hasty <=> t.hasty)
SamePath(r, t) == r.paths = t.paths /\ r.at = t.at /\ (r.popped <=> t.popped)

\* What goes with its tab: a friend off the friends, a peek off the map.
LEMMA DroppedFacts ==
  ASSUME NEW t \in FrameStates, NEW r, r = Dropped(t)
  PROVE  /\ r \in FrameStates /\ SameLook(r, t) /\ SamePath(r, t) /\ Placed(r)
         /\ r.over = (IF t.view # "friends" THEN t.over \ {"friend"} ELSE t.over)
         /\ r.peek = (IF t.view # "map" THEN {} ELSE t.peek)
<1>1. PICK peek, over : /\ peek = (IF t.view # "map" THEN {} ELSE t.peek)
                        /\ over = (IF t.view # "friends" THEN t.over \ {"friend"} ELSE t.over)
  OBVIOUS
<1>2. r = [t EXCEPT !.peek = peek, !.over = over]
  BY <1>1 DEF Dropped
<1>3. peek \in SUBSET Shown /\ over \in SUBSET Laid
  BY <1>1 DEF FrameStates
<1>4. r \in FrameStates
  BY <1>2, <1>3 DEF FrameStates
<1>5. SameLook(r, t) /\ SamePath(r, t)
  BY <1>2, <1>3 DEF FrameStates, SameLook, SamePath
<1>6. r.over = over /\ r.peek = peek
  BY <1>2, <1>3 DEF FrameStates
<1>7. Placed(r)
  BY <1>1, <1>5, <1>6 DEF Placed, SameLook
<1>8. QED
  BY <1>1, <1>4, <1>5, <1>6, <1>7

\* The rise of the sheet changes nothing else.
LEMMA RisingFacts ==
  ASSUME NEW t \in FrameStates, NEW s, NEW r, r = Rising(s, t)
  PROVE  /\ r \in FrameStates /\ SameLook(r, t) /\ SamePath(r, t)
         /\ r.over = t.over /\ r.peek = t.peek
<1>1. \/ r = [t EXCEPT !.ready = FALSE, !.rising = FALSE]
      \/ r = [t EXCEPT !.ready = TRUE, !.rising = FALSE]
      \/ r = [t EXCEPT !.rising = TRUE]
      \/ r = t
  BY DEF Rising
<1>2. CASE r = [t EXCEPT !.ready = FALSE, !.rising = FALSE]
  BY <1>2 DEF FrameStates, SameLook, SamePath
<1>3. CASE r = [t EXCEPT !.ready = TRUE, !.rising = FALSE]
  BY <1>3 DEF FrameStates, SameLook, SamePath
<1>4. CASE r = [t EXCEPT !.rising = TRUE]
  BY <1>4 DEF FrameStates, SameLook, SamePath
<1>5. CASE r = t
  BY <1>5 DEF SameLook, SamePath
<1>6. QED
  BY <1>1, <1>2, <1>3, <1>4, <1>5

\* A change keeps the history of the browser, or moves within it.
Moved(s, t) ==
  /\ t.surface = s.surface
  /\ \/ SamePath(t, s)
     \/ /\ t.surface = "web" /\ t.paths = s.paths /\ t.popped
        /\ t.at \in 1..Len(s.paths) /\ t.view = s.paths[t.at] /\ t.view # s.view

\* A tab is put after the one at hand: what came later is gone.
LEMMA PutAfter ==
  ASSUME NEW p \in Seq(Views), NEW at \in 1..Len(p), NEW v \in Views, v # p[at],
         \A i \in 1..(Len(p) - 1) : p[i] # p[i + 1],
         NEW q, q = Append(SubSeq(p, 1, at), v)
  PROVE  /\ q \in Seq(Views) /\ at + 1 \in 1..Len(q) /\ q[at + 1] = v
         /\ \A i \in 1..(Len(q) - 1) : q[i] # q[i + 1]
<1>1. \A i \in 1..at : p[i] \in Views
  BY ElementOfSeq
<1>2. PICK b : b = SubSeq(p, 1, at)
  OBVIOUS
<1>3. at \in Int /\ 1 <= at /\ at <= Len(p) /\ Len(p) \in Nat
  BY LenProperties
<1>4. /\ b \in Seq(Views) /\ Len(b) = at /\ \A i \in 1..at : b[i] = p[i]
  <2>1. /\ SubSeq(p, 1, at) \in Seq(Views)
        /\ Len(SubSeq(p, 1, at)) = IF 1 <= at THEN at - 1 + 1 ELSE 0
        /\ \A i \in 1..(at - 1 + 1) : SubSeq(p, 1, at)[i] = p[1 + i - 1]
    BY <1>1, <1>3, SubSeqProperties
  <2>2. QED
    BY <1>2, <1>3, <2>1
<1>5. /\ q \in Seq(Views) /\ Len(q) = at + 1 /\ q[at + 1] = v
      /\ \A i \in 1..at : q[i] = b[i]
  BY <1>2, <1>4, AppendProperties
<1>6. ASSUME NEW i \in 1..(Len(q) - 1)
      PROVE  q[i] # q[i + 1]
  <2>1. i \in 1..at /\ q[i] = p[i]
    BY <1>3, <1>4, <1>5
  <2>2. CASE i = at
    BY <1>5, <2>1, <2>2
  <2>3. CASE i # at
    <3>1. i + 1 \in 1..at /\ i \in 1..(Len(p) - 1)
      BY <1>3, <2>1, <2>3
    <3>2. q[i + 1] = p[i + 1]
      BY <1>4, <1>5, <3>1
    <3>3. QED
      BY <2>1, <3>1, <3>2
  <2>4. QED
    BY <2>2, <2>3
<1>7. QED
  BY <1>3, <1>5, <1>6

\* The address names the tab, whichever way the tab was changed.
LEMMA AddressedFacts ==
  ASSUME NEW s, Steady(s), NEW t \in FrameStates, Moved(s, t), NEW r, r = Addressed(s, t)
  PROVE  /\ r \in FrameStates /\ SameLook(r, t) /\ r.over = t.over /\ r.peek = t.peek
         /\ Pathed(r)
<1>1. /\ s.paths \in Seq(Views) /\ s.at \in 1..Len(s.paths) /\ s.view \in Views /\ t.view \in Views
      /\ s.surface \in Surfaces
  BY DEF Steady, FrameStates, Pathed
<1>2. CASE t.surface = "phone" \/ (t.view = s.view /\ SamePath(t, s))
  <2>1. r = t
    BY <1>2 DEF Addressed
  <2>2. Pathed(r)
    BY <1>1, <1>2, <2>1 DEF Steady, Moved, SamePath, Pathed
  <2>3. QED
    BY <2>1, <2>2 DEF SameLook
<1>3. CASE t.surface = "web" /\ t.popped /\ t.view # s.view
  <2>1. r = [t EXCEPT !.popped = FALSE]
    BY <1>3 DEF Addressed
  <2>2. ~SamePath(t, s)
    BY <1>3 DEF Moved, SamePath, Steady, Pathed
  <2>3. /\ r \in FrameStates /\ SameLook(r, t) /\ r.over = t.over /\ r.peek = t.peek
        /\ r.paths = t.paths /\ r.at = t.at /\ ~r.popped
    BY <2>1 DEF FrameStates, SameLook
  <2>4. Pathed(r)
    BY <1>1, <1>3, <2>2, <2>3 DEF Moved, Steady, Pathed, SameLook
  <2>5. QED
    BY <2>3, <2>4
<1>4. CASE t.surface = "web" /\ ~t.popped /\ t.view # s.view
  <2>1. SamePath(t, s) /\ s.surface = "web"
    BY <1>4 DEF Moved
  <2>2. s.paths[s.at] = s.view /\ \A i \in 1..(Len(s.paths) - 1) : s.paths[i] # s.paths[i + 1]
    BY <2>1 DEF Steady, Pathed
  <2>3. PICK q : q = Append(SubSeq(s.paths, 1, s.at), t.view)
    OBVIOUS
  <2>4. r = [t EXCEPT !.paths = q, !.at = t.at + 1]
    BY <1>4, <2>1, <2>2, <2>3 DEF Addressed, SamePath
  <2>5. /\ q \in Seq(Views) /\ s.at + 1 \in 1..Len(q) /\ q[s.at + 1] = t.view
        /\ \A i \in 1..(Len(q) - 1) : q[i] # q[i + 1]
    BY <1>1, <1>4, <2>2, <2>3, PutAfter
  <2>6. /\ r \in FrameStates /\ SameLook(r, t) /\ r.over = t.over /\ r.peek = t.peek
        /\ r.paths = q /\ r.at = t.at + 1 /\ ~r.popped
    <3>1. PICK n \in Nat : n = t.at + 1
      BY DEF FrameStates
    <3>2. r = [t EXCEPT !.paths = q, !.at = n]
      BY <2>4, <3>1
    <3>3. r \in FrameStates
      BY <2>5, <3>2 DEF FrameStates
    <3>4. SameLook(r, t) /\ r.over = t.over /\ r.peek = t.peek
      BY <3>2 DEF FrameStates, SameLook
    <3>5. r.paths = q /\ r.at = n /\ ~r.popped
      BY <1>4, <3>2 DEF FrameStates
    <3>6. QED
      BY <3>1, <3>3, <3>4, <3>5
  <2>7. Pathed(r)
    BY <2>1, <2>5, <2>6 DEF Pathed, SamePath, SameLook
  <2>8. QED
    BY <2>6, <2>7
<1>5. QED
  BY <1>1, <1>2, <1>3, <1>4 DEF Moved, Surfaces

\* What follows on every move, and what it leaves alone.
LEMMA AfterFacts ==
  ASSUME NEW s, Steady(s), NEW t \in FrameStates, Moved(s, t), NEW r, r = After(s, t)
  PROVE  /\ r \in FrameStates /\ SameLook(r, t) /\ Placed(r) /\ Pathed(r)
         /\ r.over = (IF t.view # "friends" THEN t.over \ {"friend"} ELSE t.over)
         /\ r.peek = (IF t.view # "map" THEN {} ELSE t.peek)
<1>1. PICK a, b : a = Dropped(t) /\ b = Rising(s, a) /\ r = Addressed(s, b)
  BY DEF After
<1>2. /\ a \in FrameStates /\ SameLook(a, t) /\ SamePath(a, t) /\ Placed(a)
      /\ a.over = (IF t.view # "friends" THEN t.over \ {"friend"} ELSE t.over)
      /\ a.peek = (IF t.view # "map" THEN {} ELSE t.peek)
  BY <1>1, DroppedFacts
<1>3. /\ b \in FrameStates /\ SameLook(b, a) /\ SamePath(b, a) /\ b.over = a.over /\ b.peek = a.peek
  BY <1>1, <1>2, RisingFacts
<1>4. Moved(s, b)
  BY <1>2, <1>3 DEF Moved, SamePath, SameLook
<1>5. /\ r \in FrameStates /\ SameLook(r, b) /\ r.over = b.over /\ r.peek = b.peek /\ Pathed(r)
  BY <1>1, <1>3, <1>4, AddressedFacts
<1>6. SameLook(r, t)
  BY <1>2, <1>3, <1>5 DEF SameLook
<1>7. Placed(r)
  BY <1>2, <1>3, <1>5 DEF Placed, SameLook
<1>8. QED
  BY <1>2, <1>3, <1>5, <1>6, <1>7

\* What follows on a move makes the frame steady again.
LEMMA AfterSteady ==
  ASSUME NEW s, Steady(s), NEW t \in FrameStates, Moved(s, t), Meant(t)
  PROVE  Steady(After(s, t))
<1>1. PICK r : r = After(s, t)
  OBVIOUS
<1>2. r \in FrameStates /\ SameLook(r, t) /\ Placed(r) /\ Pathed(r)
  BY <1>1, AfterFacts
<1>3. Meant(r)
  BY <1>2 DEF Meant, SameLook
<1>4. QED
  BY <1>1, <1>2, <1>3 DEF Steady

\* A change of the layers, the sheet's rise, the marker or the link alone.
LEMMA ChangeSteady ==
  ASSUME NEW s, Steady(s), NEW r \in FrameStates, r.surface = s.surface, r.view = s.view, SamePath(r, s),
         Meant(r), Placed(r)
  PROVE  Steady(r)
  BY DEF Steady, Pathed, SamePath

\* An event that is opened is the one that the sheet shows.
LEMMA OpenEventSteady ==
  ASSUME NEW s, Steady(s), NEW e \in Shown
  PROVE  Steady(OpenEvent(s, e))
<1>1. PICK peek : peek = IF e \in s.peek THEN s.peek ELSE {}
  OBVIOUS
<1>2. PICK t : t = [s EXCEPT !.peek = peek, !.selected = e, !.focused = e, !.fading = FALSE,
                             !.meant = e, !.lit = e, !.hasty = s.closing]
  OBVIOUS
<1>3. OpenEvent(s, e) = After(s, t)
  BY <1>1, <1>2 DEF OpenEvent
<1>4. s \in FrameStates /\ peek \in SUBSET Shown /\ e \in Lit
  BY <1>1 DEF Steady, FrameStates, Lit
<1>5. t \in FrameStates
  BY <1>2, <1>4 DEF FrameStates
<1>6. /\ t.selected = e /\ t.focused = e /\ ~t.fading /\ t.meant = e /\ t.lit = e
      /\ (t.hasty <=> s.closing) /\ (t.closing <=> s.closing) /\ t.surface = s.surface /\ SamePath(t, s)
  BY <1>2, <1>4 DEF FrameStates, SamePath
<1>7. Meant(t) /\ Moved(s, t)
  BY <1>6 DEF Meant, Moved
<1>8. QED
  BY <1>3, <1>5, <1>7, AfterSteady

\* Laying something over keeps the frame steady.
LEMMA LaySteady ==
  ASSUME NEW s, Steady(s), NEW l \in Laid, l = "friend" => s.view = "friends"
  PROVE  Steady(Lay(s, l))
<1>1. PICK over, r : over = s.over \cup {l} /\ r = [s EXCEPT !.over = over] /\ r = Lay(s, l)
  BY DEF Lay
<1>2. s \in FrameStates /\ over \in SUBSET Laid
  BY <1>1 DEF Steady, FrameStates
<1>3. r \in FrameStates /\ SameLook(r, s) /\ SamePath(r, s) /\ r.over = over /\ r.peek = s.peek
  BY <1>1, <1>2 DEF FrameStates, SameLook, SamePath
<1>4. Meant(r) /\ Placed(r)
  BY <1>1, <1>3 DEF Steady, Meant, Placed, SameLook
<1>5. QED
  BY <1>1, <1>3, <1>4, ChangeSteady DEF SameLook

\* Taking it away does, and takes nothing else.
LEMMA UnlayFacts ==
  ASSUME NEW s, Steady(s), NEW l, NEW r, r = Unlay(s, l)
  PROVE  Steady(r) /\ SameLook(r, s) /\ r.over = s.over \ {l} /\ r.peek = s.peek
<1>1. PICK over : over = s.over \ {l} /\ r = [s EXCEPT !.over = over]
  BY DEF Unlay
<1>2. s \in FrameStates /\ over \in SUBSET Laid
  BY <1>1 DEF Steady, FrameStates
<1>3. r \in FrameStates /\ SameLook(r, s) /\ SamePath(r, s) /\ r.over = over /\ r.peek = s.peek
  BY <1>1, <1>2 DEF FrameStates, SameLook, SamePath
<1>4. Meant(r) /\ Placed(r)
  BY <1>1, <1>3 DEF Steady, Meant, Placed, SameLook
<1>5. QED
  BY <1>1, <1>3, <1>4, ChangeSteady DEF SameLook

\* Choosing what was found keeps the frame steady.
LEMMA ChooseSteady ==
  ASSUME NEW s, Steady(s), NEW e \in Shown
  PROVE  Steady(Choose(s, e))
<1>1. PICK t : t = OpenEvent(s, e) /\ Steady(t)
  BY OpenEventSteady
<1>2. Choose(s, e) = Unlay(t, "search")
  BY <1>1 DEF Choose, Unlay
<1>3. QED
  BY <1>1, <1>2, UnlayFacts

\* So does a tap on a cluster.
LEMMA TapClusterSteady ==
  ASSUME NEW s, Steady(s), NEW es \in SUBSET Shown, s.view = "map"
  PROVE  Steady(TapCluster(s, es))
<1>1. PICK r : r = [s EXCEPT !.peek = es] /\ r = TapCluster(s, es)
  BY DEF TapCluster
<1>2. s \in FrameStates
  BY DEF Steady
<1>3. r \in FrameStates /\ SameLook(r, s) /\ SamePath(r, s) /\ r.over = s.over
  BY <1>1, <1>2 DEF FrameStates, SameLook, SamePath
<1>4. Meant(r) /\ Placed(r)
  BY <1>3 DEF Steady, Meant, Placed, SameLook
<1>5. QED
  BY <1>1, <1>3, <1>4, ChangeSteady DEF SameLook

\* The sheet that is closed shows nothing, and takes nothing else away.
LEMMA CloseSheetFacts ==
  ASSUME NEW s, Steady(s), NEW r, r = CloseSheet(s)
  PROVE  Steady(r) /\ r.view = s.view /\ r.over = s.over /\ r.peek = s.peek /\ r.link = s.link
         /\ r.selected = None
<1>1. PICK t : t = [s EXCEPT !.selected = None, !.meant = None] /\ r = After(s, t)
  BY DEF CloseSheet
<1>2. s \in FrameStates /\ None \in Lit
  BY DEF Steady, Lit
<1>3. t \in FrameStates
  BY <1>1, <1>2 DEF FrameStates
<1>4. /\ t.selected = None /\ t.meant = None /\ t.focused = s.focused /\ (t.fading <=> s.fading)
      /\ t.lit = s.lit /\ t.surface = s.surface /\ SamePath(t, s) /\ t.view = s.view
      /\ t.over = s.over /\ t.peek = s.peek /\ t.link = s.link
  BY <1>1, <1>2 DEF FrameStates, SamePath
<1>5. Meant(t) /\ Moved(s, t)
  BY <1>4 DEF Meant, Moved, Steady
<1>0. r = After(s, t)
  BY <1>1
<1>6. Steady(r) /\ SameLook(r, t)
  BY <1>0, <1>3, <1>5, AfterSteady, AfterFacts
<1>7. r.over = s.over /\ r.peek = s.peek
  <2>1. /\ r.over = (IF t.view # "friends" THEN t.over \ {"friend"} ELSE t.over)
        /\ r.peek = (IF t.view # "map" THEN {} ELSE t.peek)
    BY <1>0, <1>3, <1>5, AfterFacts
  <2>2. QED
    BY <1>4, <2>1 DEF Steady, Placed
<1>8. QED
  BY <1>4, <1>6, <1>7 DEF SameLook

\* A sheet that is swiped down is not closed yet: what it shows is what was meant.
LEMMA SwipeDownSteady ==
  ASSUME NEW s, Steady(s)
  PROVE  Steady(SwipeDown(s))
<1>1. PICK r : r = [s EXCEPT !.closing = TRUE, !.meant = None] /\ r = SwipeDown(s)
  BY DEF SwipeDown
<1>2. s \in FrameStates /\ None \in Lit
  BY DEF Steady, Lit
<1>3. r \in FrameStates
  BY <1>1, <1>2 DEF FrameStates
<1>4. /\ r.closing /\ r.meant = None /\ r.focused = s.focused /\ (r.fading <=> s.fading)
      /\ r.lit = s.lit /\ r.surface = s.surface /\ SamePath(r, s) /\ r.view = s.view
      /\ r.over = s.over /\ r.peek = s.peek
  BY <1>1, <1>2 DEF FrameStates, SamePath
<1>5. Meant(r) /\ Placed(r)
  BY <1>4 DEF Meant, Placed, Steady
<1>6. QED
  BY <1>1, <1>3, <1>4, <1>5, ChangeSteady

\* The late end of the swipe closes what was swiped.
LEMMA SwipedAwaySteady ==
  ASSUME NEW s, Steady(s), s.closing
  PROVE  Steady(SwipedAway(s))
<1>1. PICK t : t = [s EXCEPT !.selected = None, !.closing = FALSE] /\ SwipedAway(s) = After(s, t)
  BY DEF SwipedAway
<1>2. s \in FrameStates /\ None \in Lit
  BY DEF Steady, Lit
<1>3. t \in FrameStates
  BY <1>1, <1>2 DEF FrameStates
<1>4. /\ t.selected = None /\ ~t.closing /\ t.meant = s.meant /\ t.focused = s.focused
      /\ (t.fading <=> s.fading) /\ t.lit = s.lit /\ (t.hasty <=> s.hasty)
      /\ t.surface = s.surface /\ SamePath(t, s)
  BY <1>1, <1>2 DEF FrameStates, SamePath
<1>5. Meant(t) /\ Moved(s, t)
  BY <1>4 DEF Meant, Moved, Steady
<1>6. QED
  BY <1>1, <1>3, <1>5, AfterSteady

\* Going to the map from a sheet lights the marker of its event.
LEMMA ShowOnMapSteady ==
  ASSUME NEW s, Steady(s)
  PROVE  Steady(ShowOnMap(s))
<1>1. PICK over : over = s.over \ {"list", "venue", "search"}
  OBVIOUS
<1>2. PICK t : /\ t = [s EXCEPT !.view = "map", !.over = over, !.selected = None, !.peek = {}, !.meant = None]
               /\ ShowOnMap(s) = After(s, t)
  BY <1>1 DEF ShowOnMap
<1>3. s \in FrameStates /\ None \in Lit /\ over \in SUBSET Laid /\ "map" \in Views
  BY <1>1 DEF Steady, Lit, FrameStates, Views
<1>4. t \in FrameStates
  BY <1>2, <1>3 DEF FrameStates
<1>5. /\ t.selected = None /\ t.meant = None /\ t.focused = s.focused
      /\ (t.fading <=> s.fading) /\ t.lit = s.lit /\ t.surface = s.surface /\ SamePath(t, s)
  BY <1>2, <1>3 DEF FrameStates, SamePath
<1>6. Meant(t) /\ Moved(s, t)
  BY <1>5 DEF Meant, Moved, Steady
<1>7. QED
  BY <1>2, <1>4, <1>6, AfterSteady

\* A venue is laid over, with its list to come back to.
LEMMA OpenVenueSteady ==
  ASSUME NEW s, Steady(s)
  PROVE  Steady(OpenVenue(s))
<1>1. PICK over : over = s.over \cup {"venue"}
  OBVIOUS
<1>2. PICK t : /\ t = [s EXCEPT !.over = over, !.selected = None, !.peek = {}, !.meant = None]
               /\ OpenVenue(s) = After(s, t)
  BY <1>1 DEF OpenVenue
<1>3. s \in FrameStates /\ None \in Lit /\ over \in SUBSET Laid
  BY <1>1 DEF Steady, Lit, FrameStates, Laid
<1>4. t \in FrameStates
  BY <1>2, <1>3 DEF FrameStates
<1>5. /\ t.selected = None /\ t.meant = None /\ t.focused = s.focused
      /\ (t.fading <=> s.fading) /\ t.lit = s.lit /\ t.surface = s.surface /\ SamePath(t, s)
  BY <1>2, <1>3 DEF FrameStates, SamePath
<1>6. Meant(t) /\ Moved(s, t)
  BY <1>5 DEF Meant, Moved, Steady
<1>7. QED
  BY <1>2, <1>4, <1>6, AfterSteady

\* The marker goes out slowly, is out, or goes out at once.
LEMMA MarkerSteady ==
  ASSUME NEW s, Steady(s), NEW r, r = Unlight(s) \/ r = ZoomOut(s) \/ (s.fading /\ r = Fade(s))
  PROVE  Steady(r)
<1>1. s \in FrameStates /\ None \in Lit
  BY DEF Steady, Lit
<1>2. r \in FrameStates
  BY <1>1 DEF FrameStates, Unlight, ZoomOut, Fade
<1>3. /\ (r.closing <=> s.closing) /\ r.meant = s.meant /\ r.selected = s.selected /\ (r.hasty <=> s.hasty)
      /\ r.surface = s.surface /\ SamePath(r, s) /\ r.view = s.view /\ r.over = s.over /\ r.peek = s.peek
  BY <1>1 DEF FrameStates, SamePath, Unlight, ZoomOut, Fade
<1>4. \/ r.fading /\ r.lit = None
      \/ ~r.fading /\ r.focused = None /\ r.lit = None
      \/ ~r.fading /\ r.focused = None /\ r.lit = s.lit /\ s.fading
  BY <1>1 DEF FrameStates, Unlight, ZoomOut, Fade
<1>5. Meant(r) /\ Placed(r)
  BY <1>3, <1>4 DEF Meant, Placed, Steady
<1>6. QED
  BY <1>2, <1>3, <1>5, ChangeSteady

\* Another tab takes nothing from the sheet, and lays nothing over.
LEMMA GoToFacts ==
  ASSUME NEW s, Steady(s), NEW v \in Views, NEW r, r = GoTo(s, v)
  PROVE  /\ Steady(r) /\ r.view = v /\ r.selected = s.selected /\ r.link = s.link
         /\ r.over \subseteq s.over /\ (s.peek = {} => r.peek = {})
<1>1. PICK t : t = [s EXCEPT !.view = v] /\ r = After(s, t)
  BY DEF GoTo
<1>2. s \in FrameStates
  BY DEF Steady
<1>3. t \in FrameStates
  BY <1>1, <1>2 DEF FrameStates
<1>4. /\ t.selected = s.selected /\ (t.closing <=> s.closing) /\ t.meant = s.meant /\ t.focused = s.focused
      /\ (t.fading <=> s.fading) /\ t.lit = s.lit /\ (t.hasty <=> s.hasty)
      /\ t.surface = s.surface /\ SamePath(t, s) /\ t.view = v /\ t.link = s.link
      /\ t.over = s.over /\ t.peek = s.peek
  BY <1>1, <1>2 DEF FrameStates, SamePath
<1>5. Meant(t) /\ Moved(s, t)
  BY <1>4 DEF Meant, Moved, Steady
<1>6. Steady(r)
  BY <1>1, <1>3, <1>5, AfterSteady
<1>0. r = After(s, t)
  BY <1>1
<1>7. /\ SameLook(r, t)
      /\ r.over = (IF t.view # "friends" THEN t.over \ {"friend"} ELSE t.over)
      /\ r.peek = (IF t.view # "map" THEN {} ELSE t.peek)
  BY <1>0, <1>3, <1>5, AfterFacts
<1>8. QED
  BY <1>4, <1>6, <1>7 DEF SameLook

\* A step in the history of the browser goes to the tab that its address names.
LEMMA TraverseSteady ==
  ASSUME NEW s, Steady(s), s.surface = "web", NEW i \in DOMAIN s.paths, i \in {s.at - 1, s.at + 1}
  PROVE  Steady(Traverse(s, i))
<1>1. PICK t : t = [s EXCEPT !.at = i, !.popped = TRUE, !.view = s.paths[i]] /\ Traverse(s, i) = After(s, t)
  BY DEF Traverse
<1>2. /\ s \in FrameStates /\ s.paths \in Seq(Views) /\ s.at \in 1..Len(s.paths)
      /\ s.paths[s.at] = s.view
      /\ \A j \in 1..(Len(s.paths) - 1) : s.paths[j] # s.paths[j + 1]
  BY DEF Steady, FrameStates, Pathed
<1>3. i \in 1..Len(s.paths) /\ Len(s.paths) \in Nat
  BY <1>2, LenProperties
<1>4. s.paths[i] \in Views /\ s.paths[i] # s.view
  <2>1. s.paths[i] \in Views
    BY <1>2, <1>3, ElementOfSeq
  <2>2. CASE i = s.at - 1
    <3>1. i \in 1..(Len(s.paths) - 1) /\ i + 1 = s.at
      BY <1>2, <1>3, <2>2
    <3>2. QED
      BY <1>2, <2>1, <3>1
  <2>3. CASE i = s.at + 1
    <3>1. s.at \in 1..(Len(s.paths) - 1)
      BY <1>2, <1>3, <2>3
    <3>2. QED
      BY <1>2, <2>1, <2>3, <3>1
  <2>4. QED
    BY <2>2, <2>3
<1>5. t \in FrameStates
  <2>1. PICK v \in Views : v = s.paths[i]
    BY <1>4
  <2>2. t = [s EXCEPT !.at = i, !.popped = TRUE, !.view = v] /\ i \in Nat
    BY <1>1, <1>3, <2>1
  <2>3. QED
    BY <1>2, <2>2 DEF FrameStates
<1>6. /\ t.selected = s.selected /\ (t.closing <=> s.closing) /\ t.meant = s.meant /\ t.focused = s.focused
      /\ (t.fading <=> s.fading) /\ t.lit = s.lit /\ (t.hasty <=> s.hasty)
      /\ t.surface = s.surface /\ t.paths = s.paths /\ t.at = i /\ t.popped /\ t.view = s.paths[i]
  BY <1>1, <1>2, <1>4 DEF FrameStates
<1>7. Meant(t) /\ Moved(s, t)
  BY <1>3, <1>4, <1>6 DEF Meant, Moved, Steady
<1>8. QED
  BY <1>1, <1>5, <1>7, AfterSteady

\* A link that is followed up, or dropped.
LEMMA LinkFacts ==
  ASSUME NEW s, Steady(s), NEW l \in {None, "invited"}, NEW r, r = [s EXCEPT !.link = l]
  PROVE  Steady(r) /\ r.link = l /\ r.over = s.over /\ r.view = s.view /\ r.selected = s.selected
         /\ r.peek = s.peek
<1>1. s \in FrameStates
  BY DEF Steady
<1>2. r \in FrameStates
  BY <1>1 DEF FrameStates
<1>3. /\ (r.closing <=> s.closing) /\ r.meant = s.meant /\ r.selected = s.selected /\ (r.hasty <=> s.hasty)
      /\ r.focused = s.focused /\ (r.fading <=> s.fading) /\ r.lit = s.lit
      /\ r.surface = s.surface /\ SamePath(r, s) /\ r.view = s.view /\ r.over = s.over /\ r.peek = s.peek
      /\ r.link = l
  BY <1>1 DEF FrameStates, SamePath
<1>4. Meant(r) /\ Placed(r)
  BY <1>3 DEF Meant, Placed, Steady
<1>5. QED
  BY <1>2, <1>3, <1>4, ChangeSteady

\* The answer to the boot may bring the note, and puts the onboarding away.
LEMMA BootedSteady ==
  ASSUME NEW s, Steady(s), NEW seen, NEW befriended
  PROVE  Steady(Booted(s, seen, befriended))
<1>1. PICK over : over = (IF seen THEN s.over \ {"onboarding"} ELSE s.over)
                         \cup (IF befriended THEN {"disclosure"} ELSE {})
  OBVIOUS
<1>2. PICK r : r = [s EXCEPT !.booting = FALSE, !.over = over] /\ r = Booted(s, seen, befriended)
  BY <1>1 DEF Booted
<1>3. s \in FrameStates /\ over \in SUBSET Laid /\ ("friend" \in over => "friend" \in s.over)
  BY <1>1 DEF Steady, FrameStates, Laid
<1>4. r \in FrameStates /\ SameLook(r, s) /\ SamePath(r, s) /\ r.over = over /\ r.peek = s.peek
  BY <1>2, <1>3 DEF FrameStates, SameLook, SamePath
<1>5. Meant(r) /\ Placed(r)
  BY <1>3, <1>4 DEF Steady, Meant, Placed, SameLook
<1>6. QED
  BY <1>2, <1>4, <1>5, ChangeSteady DEF SameLook

\* The sheet that has risen shows the same.
LEMMA RiseSteady ==
  ASSUME NEW s, Steady(s)
  PROVE  Steady([s EXCEPT !.ready = TRUE, !.rising = FALSE])
<1>1. PICK r : r = [s EXCEPT !.ready = TRUE, !.rising = FALSE]
  OBVIOUS
<1>2. s \in FrameStates
  BY DEF Steady
<1>3. r \in FrameStates /\ SameLook(r, s) /\ SamePath(r, s) /\ r.over = s.over /\ r.peek = s.peek
  BY <1>1, <1>2 DEF FrameStates, SameLook, SamePath
<1>4. Meant(r) /\ Placed(r)
  BY <1>3 DEF Steady, Meant, Placed, SameLook
<1>5. QED
  BY <1>1, <1>3, <1>4, ChangeSteady DEF SameLook

-----------------------------------------------------------------------------
\* Back.

\* Finitely many layers can lie over the map.
LEMMA OpenedFinite ==
  ASSUME NEW s \in FrameStates
  PROVE  IsFiniteSet(Opened(s))
<1>1. IsFiniteSet(Laid \cup {"recs", "favorites", "venues", "profile", "friends", "sheet", "peek", "invite"})
  <2>1. IsFiniteSet({})
    BY FS_EmptySet
  <2>2. Laid \cup {"recs", "favorites", "venues", "profile", "friends", "sheet", "peek", "invite"} =
          ((((((((((((((((({} \cup {"disclosure"}) \cup {"onboarding"}) \cup {"drawer"}) \cup {"search"})
            \cup {"venue"}) \cup {"filters"}) \cup {"friend"}) \cup {"collection"}) \cup {"list"})
            \cup {"recs"}) \cup {"favorites"}) \cup {"venues"}) \cup {"profile"}) \cup {"friends"})
            \cup {"sheet"}) \cup {"peek"}) \cup {"invite"})
    BY DEF Laid
  <2>3. \A S : IsFiniteSet(S) => \A x : IsFiniteSet(S \cup {x})
    BY FS_AddElement
  <2>4. QED
    BY <2>1, <2>2, <2>3, ZenonT(60)
<1>2. Opened(s) \subseteq Laid \cup {"recs", "favorites", "venues", "profile", "friends", "sheet", "peek", "invite"}
  BY DEF Opened, FrameStates, Views
<1>3. QED
  BY <1>1, <1>2, FS_Subset

\* What Back takes away, and what it leaves.
LEMMA Fewer ==
  ASSUME NEW s \in FrameStates, NEW r, NEW l, Opened(r) \subseteq Opened(s), l \in Opened(s), l \notin Opened(r)
  PROVE  Cardinality(Opened(r)) < Cardinality(Opened(s))
<1>1. IsFiniteSet(Opened(s))
  BY OpenedFinite
<1>2. Cardinality(Opened(r)) <= Cardinality(Opened(s)) /\ IsFiniteSet(Opened(r))
      /\ Cardinality(Opened(r)) # Cardinality(Opened(s))
  BY <1>1, FS_Subset
<1>3. Cardinality(Opened(r)) \in Nat /\ Cardinality(Opened(s)) \in Nat
  BY <1>1, <1>2, FS_CardinalityType
<1>4. QED
  BY <1>2, <1>3

\* Closing a layer.
LEMMA ShutFacts ==
  ASSUME NEW s, Steady(s), NEW l, NEW r, r = Shut(s, l)
  PROVE  Steady(r) /\ Opened(r) \subseteq Opened(s) /\ l \notin Opened(r)
<1>0. s \in FrameStates /\ s.over \subseteq Laid
  BY DEF Steady, FrameStates
<1>1. CASE l = "sheet"
  <2>1. r = CloseSheet(s)
    BY <1>1 DEF Shut, Views
  <2>2. Steady(r) /\ r.view = s.view /\ r.over = s.over /\ r.peek = s.peek /\ r.link = s.link
        /\ r.selected = None
    BY <2>1, CloseSheetFacts
  <2>3. QED
    BY <1>0, <1>1, <2>2 DEF Opened, Views, Laid
<1>2. CASE l = "peek"
  <2>1. r = [s EXCEPT !.peek = {}]
    BY <1>2 DEF Shut, Views
  <2>2. r \in FrameStates /\ SameLook(r, s) /\ SamePath(r, s) /\ r.over = s.over /\ r.peek = {}
    BY <1>0, <2>1 DEF FrameStates, SameLook, SamePath
  <2>3. Meant(r) /\ Placed(r)
    BY <2>2 DEF Steady, Meant, Placed, SameLook
  <2>4. Steady(r)
    BY <2>2, <2>3, ChangeSteady DEF SameLook
  <2>5. QED
    BY <1>0, <1>2, <2>2, <2>4 DEF Opened, SameLook, Views, Laid
<1>3. CASE l = "invite"
  <2>1. r = [s EXCEPT !.link = None]
    BY <1>3 DEF Shut, Views
  <2>2. Steady(r) /\ r.link = None /\ r.over = s.over /\ r.view = s.view /\ r.selected = s.selected
         /\ r.peek = s.peek
    BY <2>1, LinkFacts
  <2>3. QED
    BY <1>0, <1>3, <2>2 DEF Opened, Views, Laid, None
<1>4. CASE l \in Views
  <2>1. r = GoTo(s, "map")
    BY <1>4 DEF Shut, Views
  <2>2. /\ Steady(r) /\ r.view = "map" /\ r.selected = s.selected /\ r.link = s.link
        /\ r.over \subseteq s.over /\ (s.peek = {} => r.peek = {})
    BY <2>1, GoToFacts DEF Views
  <2>3. QED
    BY <1>0, <1>4, <2>2 DEF Opened, Views, Laid
<1>5. CASE l \notin {"sheet", "peek", "invite"} /\ l \notin Views
  <2>1. r = Unlay(s, l)
    BY <1>5 DEF Shut
  <2>2. Steady(r) /\ SameLook(r, s) /\ r.over = s.over \ {l} /\ r.peek = s.peek
    BY <2>1, UnlayFacts
  <2>3. QED
    BY <1>5, <2>2 DEF Opened, SameLook
<1>6. QED
  BY <1>1, <1>2, <1>3, <1>4, <1>5

\* Each rung of the ladder is a layer, and everything that is open and is no tab, no
\* disclosure and no first-run guide has a rung.
LEMMA Rungs ==
  /\ DOMAIN Ladder = 1..10
  /\ {Ladder[i] : i \in 1..10} = (Laid \ {"disclosure", "onboarding"}) \cup {"sheet", "peek", "invite"}
<1>1. Ladder = <<"search", "sheet", "venue", "peek", "filters", "drawer", "list", "collection", "invite", "friend">>
  BY DEF Ladder
<1>2. DOMAIN Ladder = 1..10
  BY <1>1
<1>3. /\ Ladder[1] = "search" /\ Ladder[2] = "sheet" /\ Ladder[3] = "venue" /\ Ladder[4] = "peek"
      /\ Ladder[5] = "filters" /\ Ladder[6] = "drawer" /\ Ladder[7] = "list" /\ Ladder[8] = "collection"
      /\ Ladder[9] = "invite" /\ Ladder[10] = "friend"
  BY <1>1
<1>4. \A i \in 1..10 : i \in {1, 2, 3, 4, 5, 6, 7, 8, 9, 10}
  OBVIOUS
<1>5. QED
  BY <1>2, <1>3, <1>4 DEF Laid

\* Of some rungs of the ladder one is the first.
LEMMA LeastRung ==
  ASSUME NEW R \in SUBSET (1..10), R # {}
  PROVE  \E i \in R : \A j \in R : i <= j
<1>1. CASE 1 \in R
  BY <1>1
<1>2. CASE 1 \notin R /\ 2 \in R
  BY <1>2
<1>3. CASE {1, 2} \cap R = {} /\ 3 \in R
  BY <1>3
<1>4. CASE {1, 2, 3} \cap R = {} /\ 4 \in R
  BY <1>4
<1>5. CASE {1, 2, 3, 4} \cap R = {} /\ 5 \in R
  BY <1>5
<1>6. CASE {1, 2, 3, 4, 5} \cap R = {} /\ 6 \in R
  BY <1>6
<1>7. CASE {1, 2, 3, 4, 5, 6} \cap R = {} /\ 7 \in R
  BY <1>7
<1>8. CASE {1, 2, 3, 4, 5, 6, 7} \cap R = {} /\ 8 \in R
  BY <1>8
<1>9. CASE {1, 2, 3, 4, 5, 6, 7, 8} \cap R = {} /\ 9 \in R
  BY <1>9
<1>10. CASE {1, 2, 3, 4, 5, 6, 7, 8, 9} \cap R = {}
  <2>1. \A i \in R : i = 10
    BY <1>10
  <2>2. PICK i \in R : i = 10
    BY <2>1
  <2>3. \A j \in R : i <= j
    BY <2>1, <2>2
  <2>4. QED
    BY <2>3
<1>11. QED
  BY <1>1, <1>2, <1>3, <1>4, <1>5, <1>6, <1>7, <1>8, <1>9, <1>10

\* Back closes the topmost layer, and opens none.
LEMMA CloseTopFacts ==
  ASSUME NEW s, Steady(s), NEW r, r = CloseTop(s)
  PROVE  /\ Steady(r) /\ Opened(r) \subseteq Opened(s)
         /\ "onboarding" \notin s.over /\ Opened(s) \ {"disclosure"} # {}
              => \E l \in Opened(s) : l \notin Opened(r)
<1> DEFINE rungs == {i \in DOMAIN Ladder : Ladder[i] \in Opened(s)}
           top == CHOOSE i \in rungs : \A j \in rungs : i <= j
<1>1. s \in FrameStates /\ s.over \subseteq Laid /\ s.view \in Views
  BY DEF Steady, FrameStates
<1>2. CASE rungs # {}
  <2>1. top \in rungs
    <3>1. rungs \in SUBSET (1..10)
      BY Rungs
    <3>2. \E i \in rungs : \A j \in rungs : i <= j
      BY <1>2, <3>1, LeastRung
    <3>3. QED
      BY <3>2
  <2>2. r = Shut(s, Ladder[top])
    BY <1>2 DEF CloseTop
  <2>3. Ladder[top] \in Opened(s)
    BY <2>1
  <2> HIDE DEF top, rungs
  <2>4. Steady(r) /\ Opened(r) \subseteq Opened(s) /\ Ladder[top] \notin Opened(r)
    BY <2>2, ShutFacts
  <2>5. QED
    BY <2>3, <2>4
<1>3. CASE rungs = {}
  <2>1. r = GoTo(s, "map")
    BY <1>3 DEF CloseTop
  <2>2. /\ Steady(r) /\ r.view = "map" /\ r.selected = s.selected /\ r.link = s.link
        /\ r.over \subseteq s.over /\ (s.peek = {} => r.peek = {})
    BY <2>1, GoToFacts DEF Views
  <2>3. Opened(r) \subseteq Opened(s) /\ Opened(r) \cap Views = {}
    BY <1>1, <2>2 DEF Opened, Views, Laid
  <2>4. \A l \in (Laid \ {"disclosure", "onboarding"}) \cup {"sheet", "peek", "invite"} : l \notin Opened(s)
    BY <1>3, Rungs
  <2>5. ASSUME "onboarding" \notin s.over, Opened(s) \ {"disclosure"} # {}
        PROVE  \E l \in Opened(s) : l \notin Opened(r)
    <3>1. PICK l \in Opened(s) : l # "disclosure"
      BY <2>5
    <3>2. l \in s.over \cup {"sheet", "peek", "invite"} \/ l \in Views
      BY <3>1 DEF Opened
    <3>3. l \in Views
      BY <1>1, <2>4, <2>5, <3>1, <3>2
    <3>4. QED
      BY <2>3, <3>3
  <2>6. QED
    BY <2>2, <2>3, <2>5
<1>4. QED
  BY <1>2, <1>3

\* Back is there under any layer, takes something away and brings nothing up.
LEMMA BackSteady ==
  ASSUME NEW s, Steady(s)
  PROVE  Steady(Back(s)) /\ Unwinds(s)
<1>1. PICK r : r = Back(s)
  OBVIOUS
<1>2. s \in FrameStates
  BY DEF Steady
<1>3. CASE "onboarding" \in s.over
  <2>1. r = Unlay(s, "onboarding")
    BY <1>1, <1>3 DEF Back
  <2>2. Steady(r) /\ SameLook(r, s) /\ r.over = s.over \ {"onboarding"} /\ r.peek = s.peek
    BY <2>1, UnlayFacts
  <2>3. /\ Opened(r) \subseteq Opened(s) /\ "onboarding" \in Opened(s) /\ "onboarding" \notin Opened(r)
    BY <1>3, <2>2 DEF Opened, SameLook, Views
  <2>4. Cardinality(Opened(r)) < Cardinality(Opened(s))
    BY <1>2, <2>3, Fewer
  <2>5. QED
    BY <1>1, <2>2, <2>3, <2>4 DEF Unwinds, Stacked
<1>4. CASE "onboarding" \notin s.over
  <2>1. r = CloseTop(s)
    BY <1>1, <1>4 DEF Back
  <2>2. /\ Steady(r) /\ Opened(r) \subseteq Opened(s)
        /\ Opened(s) \ {"disclosure"} # {} => \E l \in Opened(s) : l \notin Opened(r)
    BY <1>4, <2>1, CloseTopFacts
  <2>3. Opened(s) \ {"disclosure"} # {} => Cardinality(Opened(r)) < Cardinality(Opened(s))
    BY <1>2, <2>2, Fewer
  <2>4. QED
    BY <1>1, <2>2, <2>3 DEF Unwinds, Stacked
<1>5. QED
  BY <1>3, <1>4

\* The App begins steady, on any surface and behind any link.
LEMMA FreshSteady ==
  ASSUME NEW d \in Surfaces, NEW v \in Views, NEW seen \in BOOLEAN, NEW l \in {None, "event", "inviting"}
  PROVE  Steady(Fresh(d, v, seen, l))
<1>1. PICK s : s = Fresh(d, v, seen, l)
  OBVIOUS
<1>2. PICK over : over = IF seen THEN {} ELSE {"onboarding"}
  OBVIOUS
<1>3. PICK paths : paths = <<v>>
  OBVIOUS
<1>4. paths \in Seq(Views) /\ Len(paths) = 1 /\ paths[1] = v
  BY <1>3
<1>5. over \in SUBSET Laid /\ "friend" \notin over /\ None \in Lit
  BY <1>2 DEF Laid, Lit
<1>6. s = [surface |-> d, view |-> v, over |-> over,
   selected |-> None, ready |-> FALSE, rising |-> FALSE, closing |-> FALSE,
   focused |-> None, fading |-> FALSE, peek |-> {}, link |-> l, booting |-> TRUE,
   paths |-> paths, at |-> 1, popped |-> FALSE,
   meant |-> None, lit |-> None, hasty |-> FALSE]
  BY <1>1, <1>2, <1>3 DEF Fresh
<1>7. s \in FrameStates
  BY <1>4, <1>5, <1>6 DEF FrameStates
<1>8. Meant(s) /\ Placed(s) /\ Pathed(s)
  <2>1. /\ s.selected = None /\ s.focused = None /\ s.meant = None /\ s.lit = None /\ ~s.fading
        /\ s.over = over /\ s.peek = {} /\ s.paths = paths /\ s.at = 1 /\ s.view = v /\ ~s.popped
    BY <1>6
  <2>2. \A i \in 1..(Len(paths) - 1) : FALSE
    BY <1>4
  <2>3. Meant(s) /\ Placed(s)
    BY <1>5, <2>1 DEF Meant, Placed
  <2>4. s.at \in 1..Len(s.paths) /\ s.paths[s.at] = s.view
    <3>1. Len(s.paths) = 1 /\ s.paths[1] = v
      BY <1>4, <2>1
    <3>2. s.at = 1 /\ s.view = v
      BY <2>1
    <3>3. QED
      BY <3>1, <3>2
  <2>5. \A i \in 1..(Len(s.paths) - 1) : s.paths[i] # s.paths[i + 1]
    BY <2>1, <2>2
  <2>6. QED
    BY <2>1, <2>3, <2>4, <2>5 DEF Pathed
<1>9. QED
  BY <1>1, <1>7, <1>8 DEF Steady

-----------------------------------------------------------------------------
\* The layer on top.

\* What a tap is on is visible.
LEMMA OnShows ==
  ASSUME NEW s, NEW l, l # "map", On(s, l)
  PROVE  Visible(s, l)
  BY DEF On, Covers

\* Nothing covers the map on a tab of its own only.
LEMMA BareMap ==
  ASSUME NEW s \in FrameStates, On(s, "map")
  PROVE  s.view = "map"
<1>1. ASSUME s.view # "map"
      PROVE  FALSE
  <2>1. s.view \in {"recs", "favorites", "venues", "friends", "profile"}
    BY <1>1 DEF FrameStates, Views
  <2>2. Layers[15] = "recs" /\ Layers[12] = "favorites" /\ Layers[11] = "venues" /\ Layers[10] = "friends"
        /\ Layers[13] = "profile" /\ DOMAIN Layers = 1..17
    BY DEF Layers
  <2>3. \E i \in DOMAIN Layers : Layers[i] = s.view
    BY <2>1, <2>2
  <2>4. Visible(s, s.view)
    BY <2>1 DEF Visible, Views
  <2>5. Covers(s, s.view)
    BY <2>1, <2>4 DEF Covers
  <2>6. s.view \in Covering(s)
    BY <2>3, <2>5 DEF Covering
  <2>7. QED
    BY <2>6 DEF On
<1>2. QED
  BY <1>1

\* A move that leads to a steady frame keeps it so.
LEMMA MoveStep ==
  ASSUME NEW r, Steady(r), Move(r) \/ Settle(r)
  PROVE  Steady(shell')
  BY DEF Move, Settle, Becomes

\* Every move of the frame leads to a steady one.
LEMMA FrameStep ==
  ASSUME Steady(shell), Frame
  PROVE  Steady(shell')
<1>0. shell \in FrameStates
  BY DEF Steady
<1>1. ASSUME NEW e \in Shown, TapEvent(e) \/ ChooseFound(e)
      PROVE  Steady(shell')
  BY <1>1, OpenEventSteady, ChooseSteady, MoveStep DEF TapEvent, ChooseFound
<1>2. ASSUME NEW es \in SUBSET Shown, TapPoint(es)
      PROVE  Steady(shell')
  BY <1>0, <1>2, BareMap, TapClusterSteady, MoveStep DEF TapPoint, Bare, AtHand
<1>3. CASE SwipeSheet \/ TapOnMap \/ TapVenue
  BY <1>3, SwipeDownSteady, ShowOnMapSteady, OpenVenueSteady, MoveStep DEF SwipeSheet, TapOnMap, TapVenue
<1>4. CASE Dim \/ Zoom
  <2>1. PICK r : (r = Unlight(shell) \/ r = ZoomOut(shell)) /\ Move(r)
    BY <1>4 DEF Dim, Zoom
  <2>2. Steady(r)
    <3>1. r = Unlight(shell) \/ r = ZoomOut(shell) \/ (shell.fading /\ r = Fade(shell))
      BY <2>1
    <3>2. QED
      BY <3>1, MarkerSteady
  <2>3. QED
    BY <2>1, <2>2, MoveStep
<1>5. ASSUME NEW v \in Views, Press(v)
      PROVE  Steady(shell')
  <2>1. PICK t : t = Unlay(shell, "drawer") /\ Steady(t)
    BY UnlayFacts
  <2>2. Move(GoTo(t, v))
    BY <1>5, <2>1 DEF Press, Navigate
  <2>3. QED
    BY <2>1, <2>2, GoToFacts, MoveStep
<1>6. ASSUME NEW v \in Views, Follow(v)
      PROVE  Steady(shell')
  <2>1. PICK t : t = Unlay(shell, "disclosure") /\ Steady(t)
    BY UnlayFacts
  <2>2. Move(GoTo(t, v))
    BY <1>6, <2>1 DEF Follow
  <2>3. QED
    BY <2>1, <2>2, GoToFacts, MoveStep
<1>7. ASSUME NEW l \in {"drawer", "search", "filters", "list", "collection", "friend"}, LayOver(l)
      PROVE  Steady(shell')
  <2>1. l \in Laid /\ Move(Lay(shell, l))
    BY <1>7 DEF LayOver, Laid
  <2>2. l = "friend" => shell.view = "friends"
    <3>1. l = "friend" => On(shell, "friends")
      BY <1>7 DEF LayOver, AtHand
    <3>2. Visible(shell, "friends") => shell.view = "friends"
      BY DEF Visible, Views
    <3>3. QED
      BY <3>1, <3>2, OnShows
  <2>3. QED
    BY <2>1, <2>2, LaySteady, MoveStep
<1>8. CASE PickTile(ToCategories(shell))
  <2>1. PICK a : a = Lay(shell, "filters") /\ Steady(a)
    BY LaySteady DEF Laid
  <2>2. PICK b : b = Unlay(a, "collection") /\ Steady(b)
    BY <2>1, UnlayFacts
  <2>3. Move(GoTo(b, "map"))
    BY <1>8, <2>1, <2>2 DEF PickTile, ToCategories
  <2>4. QED
    BY <2>2, <2>3, GoToFacts, MoveStep DEF Views
<1>9. CASE PickTile(ToCategory(shell))
  <2>1. PICK b : b = Unlay(shell, "collection") /\ Steady(b)
    BY UnlayFacts
  <2>2. Move(GoTo(b, "map"))
    BY <1>9, <2>1 DEF PickTile, ToCategory
  <2>3. QED
    BY <2>1, <2>2, GoToFacts, MoveStep DEF Views
<1>10. ASSUME NEW l, Cross(l)
       PROVE  Steady(shell')
  BY <1>10, ShutFacts, MoveStep DEF Cross
<1>11. CASE PressBack
  BY <1>11, BackSteady, MoveStep DEF PressBack
<1>12. CASE Accept
  <2>1. PICK t : t = [shell EXCEPT !.link = None] /\ Steady(t)
    BY LinkFacts
  <2>2. Move(GoTo(t, "friends"))
    BY <1>12, <2>1 DEF Accept, AcceptInviter
  <2>3. QED
    BY <2>1, <2>2, GoToFacts, MoveStep DEF Views
<1>13. ASSUME NEW i, Browse(i)
       PROVE  Steady(shell')
  BY <1>13, TraverseSteady, MoveStep DEF Browse
<1>14. CASE Boot
  BY <1>14, BootedSteady, MoveStep DEF Boot
<1>15. CASE LinkOpens \/ LinkFails
  <2>1. PICK t : t = [shell EXCEPT !.link = None] /\ Steady(t)
    BY LinkFacts
  <2>2. (\E e \in Shown : Settle(OpenEvent(t, e))) \/ Settle(t)
    BY <1>15, <2>1 DEF LinkOpens, LinkFails
  <2>3. QED
    BY <2>1, <2>2, OpenEventSteady, MoveStep
<1>16. CASE InviteShows
  <2>1. PICK good \in BOOLEAN : Settle(InviteKnown(shell, good))
    BY <1>16 DEF InviteShows
  <2>2. PICK l \in {None, "invited"} : InviteKnown(shell, good) = [shell EXCEPT !.link = l]
    BY DEF InviteKnown
  <2>3. QED
    BY <2>1, <2>2, LinkFacts, MoveStep
<1>17. CASE Rise
  BY <1>17, RiseSteady, MoveStep DEF Rise
<1>18. CASE CloseLate
  BY <1>18, SwipedAwaySteady, MoveStep DEF CloseLate
<1>19. CASE FadeOut
  BY <1>19, MarkerSteady, MoveStep DEF FadeOut
<1>20. QED
  BY <1>1, <1>2, <1>3, <1>4, <1>5, <1>6, <1>7, <1>8, <1>9, <1>10, <1>11, <1>12, <1>13, <1>14, <1>15, <1>16,
     <1>17, <1>18, <1>19 DEF Frame

\* The panes leave the marks and the frame alone.
LEMMA ScreenApart ==
  ASSUME Screen
  PROVE  UNCHANGED <<scene, account, phone, wire, last, messy, overtaken, shell>> /\ taps' \in {taps, taps + 1}
<1>1. ASSUME NEW k, Turn(k)
      PROVE  UNCHANGED <<scene, account, phone, wire, last, messy, overtaken, shell>> /\ taps' \in {taps, taps + 1}
  BY <1>1 DEF Turn, tapHistory
<1>2. CASE Refresh
  BY <1>2 DEF Refresh, tapHistory
<1>3. CASE Leave \/ Fire
  BY <1>3 DEF Leave, Fire, Keep, tapHistory
<1>4. ASSUME NEW f, Land(f) \/ LandEarly(f) \/ Fail(f) \/ TimeOut(f)
      PROVE  UNCHANGED <<scene, account, phone, wire, last, messy, overtaken, shell>> /\ taps' \in {taps, taps + 1}
  BY <1>4 DEF Land, LandEarly, Fail, TimeOut, Keep, tapHistory
<1>5. ASSUME NEW k, Prefetch(k)
      PROVE  UNCHANGED <<scene, account, phone, wire, last, messy, overtaken, shell>> /\ taps' \in {taps, taps + 1}
  BY <1>5 DEF Prefetch, Keep, tapHistory
<1>6. QED
  BY <1>1, <1>2, <1>3, <1>4, <1>5 DEF Screen

\* The App begins with a steady frame.
LEMMA SteadyInit == AppInit => Steady(shell)
<1>1. ASSUME AppInit
      PROVE  \E d \in Surfaces, v \in Views, seen \in BOOLEAN, l \in {None, "event", "inviting"} :
               shell = Fresh(d, v, seen, l)
  <2>1. CASE scene = "shell"
    <3>1. shell \in {Fresh(d, v, seen, l) : d \in Surfaces, v \in {"map", "friends"},
                                           seen \in BOOLEAN, l \in {None, "event", "inviting"}}
      BY <1>1, <2>1 DEF AppInit
    <3>2. {"map", "friends"} \subseteq Views
      BY DEF Views
    <3>3. QED
      BY <3>1, <3>2
  <2>2. CASE scene # "shell"
    <3>1. shell = Fresh("phone", "map", TRUE, None)
      BY <1>1, <2>2 DEF AppInit
    <3>2. "phone" \in Surfaces /\ "map" \in Views /\ TRUE \in BOOLEAN
      BY DEF Surfaces, Views
    <3>3. QED
      BY <3>1, <3>2
  <2>3. QED
    BY <2>1, <2>2
<1>2. QED
  BY <1>1, FreshSteady

\* No step of the App unsettles it.
LEMMA SteadyStep ==
  ASSUME Steady(shell), [AppNext]_appVars
  PROVE  Steady(shell')
<1>1. CASE UNCHANGED appVars
  BY <1>1 DEF appVars, screen
<1>2. CASE \E d \in Phones : User(d)
  BY <1>2, UserApart
<1>3. CASE \E m \in wire : Server(m) \/ Answer(m)
  BY <1>3, ServerApart
<1>4. CASE Screen
  BY <1>4, ScreenApart
<1>5. CASE Frame
  BY <1>5, FrameStep
<1>6. QED
  BY <1>1, <1>2, <1>3, <1>4, <1>5 DEF AppNext

\* The frame is steady after any moves, timers and answers of App.tsx: what is laid over
\* belongs to its tab, the address names the tab, and the sheet and the lit marker are
\* those that were meant.
THEOREM FrameIsSteady == AppSpec => []Steady(shell)
<1>1. Steady(shell) /\ [AppNext]_appVars => Steady(shell)'
  BY SteadyStep
<1>2. QED
  BY SteadyInit, <1>1, PTL DEF AppSpec

\* Back is there to be pressed under anything laid over the map, and each press takes
\* something away and brings nothing up (closeTop).
THEOREM BackTakesAway == AppSpec => []BackUnwinds
<1>1. Steady(shell) => BackUnwinds
  BY BackSteady DEF BackUnwinds
<1>2. QED
  BY FrameIsSteady, <1>1, PTL

\* The last act on the frame stands, whatever timer or answer of an earlier one comes
\* after it: the late end of a swipe, a marker that fades, the link that opens.
THEOREM LastActHolds == AppSpec => []LastActStands
<1>1. Steady(shell) => LastActStands
  BY DEF LastActStands, Steady, Stands, Meant, Pathed
<1>2. QED
  BY FrameIsSteady, <1>1, PTL

-----------------------------------------------------------------------------
(* The marks and the city.                                                 *)

\* The states of a phone and of the account, and the last taps of the history.
PhoneStates ==
  [open : BOOLEAN, marks : SUBSET Items, migrated : BOOLEAN, seq : [Lists -> Nat],
   city : Cities \cup {NoCity}, touched : BOOLEAN, lacking : BOOLEAN, located : BOOLEAN]
Accounts == [marks : SUBSET Items, merged : BOOLEAN, city : Cities \cup {NoCity}]
Values(k) == IF k = TheCity THEN Cities ELSE BOOLEAN
LastTaps == [by : {"nobody"}] \cup [by : Phones, val : BOOLEAN \cup Cities, n : Nat]

\* The messages between the phones and the server that are numbered n.
Kinds == {"load", "toggle", "pick", "settle", "locate"}
Messages(n) ==
  [d : Phones, n : {n}, kind : Kinds, at : {"sent", "committed", "read", "answered"},
   of : Marked \cup {"none"}, val : BOOLEAN \cup Cities, seq : [Lists -> Nat], add : SUBSET Items,
   first : BOOLEAN, gone : BOOLEAN, got : SUBSET Items, city : Cities \cup {NoCity}]

\* What the kind of a message says of it.
Sound(m) ==
  /\ m.kind = "toggle" => m.of \in Items /\ m.val \in BOOLEAN
  /\ m.kind \in {"pick", "settle", "locate"} => m.of = TheCity /\ m.val \in Cities
  /\ m.kind = "load" => m.of = "none"
  /\ m.first => m.kind = "load"
  /\ m.at = "read" => m.kind = "locate"
  /\ m.at \in {"committed", "answered"} => m.kind \in {"toggle", "load"}

\* The page that sent a message is still there, and has not been changed back since.
Paged(m, ph) ==
  IF m.gone THEN m.at \in {"sent", "read"}
  ELSE m.of # TheCity => ph[m.d].open /\ \A l \in Lists : m.seq[l] <= ph[m.d].seq[l]

\* A message among phones ph, before the t-th tap.
Fits(m, ph, t) ==
  /\ m \in Messages(m.n) /\ Sound(m) /\ Paged(m, ph)
  /\ m.kind \in {"toggle", "pick"} => m.n \in Nat /\ m.n < t

Says(k, marks, city, v) == IF k = TheCity THEN city = v ELSE (v <=> k \in marks)

\* The phone e shows v, and no answer on its way will change that.
Shows(k, ph, W, e, v) ==
  /\ Says(k, ph[e].marks, ph[e].city, v)
  /\ \A m \in W : m.d = e /\ m.at = "answered" /\ Heard(ph, m, k) => Says(k, m.got, m.city, v)

\* The last tap on k is among those that the server waits for, or in the account, unless
\* that is unclear; and on its phone, unless an answer was read before.
Standing(k) ==
  last[k].by \in Phones =>
    /\ \A o \in Writes(wire, k) : o.n = last[k].n => o.val = last[k].val
    /\ ~messy[k] /\ ~Awaited(k) => Says(k, account.marks, account.city, last[k].val)
    /\ ~messy[k] /\ ~overtaken[k] => Shows(k, phone, wire, last[k].by, last[k].val)

MarksType ==
  /\ account \in Accounts /\ phone \in [Phones -> PhoneStates]
  /\ last \in [Marked -> LastTaps] /\ messy \in [Marked -> BOOLEAN] /\ overtaken \in [Marked -> BOOLEAN]
  /\ taps \in Nat
  /\ \A k \in Marked : last[k].by \in Phones => last[k].val \in Values(k)
WireInv == \A m \in wire : Fits(m, phone, taps)
MarksInv == MarksType /\ WireInv /\ \A k \in Marked : Standing(k)

LEMMA ItemFacts ==
  /\ TheCity \notin Items
  /\ \A i \in Items : i # TheCity /\ i \in Marked /\ ListOf[i] \in Lists
  /\ TheCity \in Marked
  /\ \A k \in Marked : k # TheCity => k \in Items
  BY MiniAppAssumption DEF Marked, TheCity

\* A message that fits still does when its page has counted on and there were more taps.
LEMMA FitsOn ==
  ASSUME NEW m, NEW ph \in [Phones -> PhoneStates], NEW r \in [Phones -> PhoneStates],
         NEW t \in Nat, NEW u \in Nat, t <= u, Fits(m, ph, t),
         m.gone \/ m.of = TheCity
           \/ (r[m.d].open /\ \A l \in Lists : ph[m.d].seq[l] <= r[m.d].seq[l])
  PROVE  Fits(m, r, u)
<1>1. m \in Messages(m.n) /\ Sound(m) /\ m.d \in Phones /\ m.seq \in [Lists -> Nat] /\ m.gone \in BOOLEAN
  BY DEF Fits, Messages
<1>2. m.kind \in {"toggle", "pick"} => m.n \in Nat /\ m.n < u
  BY DEF Fits
<1>3. \A l \in Lists : m.seq[l] \in Nat /\ ph[m.d].seq[l] \in Nat /\ r[m.d].seq[l] \in Nat
  <2>1. ph[m.d].seq \in [Lists -> Nat] /\ r[m.d].seq \in [Lists -> Nat]
    BY <1>1 DEF PhoneStates
  <2>2. QED
    BY <1>1, <2>1
<1>4. CASE m.gone \/ m.of = TheCity
  BY <1>4 DEF Fits, Paged
<1>5. CASE ~m.gone /\ m.of # TheCity
  <2>1. \A l \in Lists : m.seq[l] <= ph[m.d].seq[l] /\ ph[m.d].seq[l] <= r[m.d].seq[l]
    BY <1>5 DEF Fits, Paged
  <2>2. \A l \in Lists : m.seq[l] <= r[m.d].seq[l]
    BY <1>3, <2>1
  <2>3. r[m.d].open
    BY <1>5
  <2>4. Paged(m, r)
    BY <1>5, <2>2, <2>3 DEF Paged
  <2>5. QED
    BY <1>1, <1>2, <2>4 DEF Fits
<1>6. QED
  BY <1>1, <1>2, <1>4, <1>5 DEF Fits, Paged

\* A phone shows what it showed when its marks and city are as they were, and every answer
\* that it will hear was one before.
LEMMA ShowsOn ==
  ASSUME NEW k, NEW ph, NEW r, NEW W, NEW V, NEW e, NEW v, Shows(k, ph, W, e, v),
         r[e].marks = ph[e].marks, r[e].city = ph[e].city,
         \A x \in V : x.d = e /\ x.at = "answered" /\ Heard(r, x, k) =>
           \E z \in W : z.d = e /\ z.at = "answered" /\ Heard(ph, z, k) /\ z.got = x.got /\ z.city = x.city
  PROVE  Shows(k, r, V, e, v)
  BY DEF Shows

\* A step that is no tap keeps a mark if it adds no write, leaves the account saying what it
\* says when the last tap is not awaited, and the phone showing what it shows.
LEMMA Carries ==
  ASSUME MarksInv, MarksType', WireInv', UNCHANGED last,
         \A k \in Marked : (messy[k] => messy'[k]) /\ (overtaken[k] => overtaken'[k]),
         \A k \in Marked : \A o \in Writes(wire', k) : \E z \in Writes(wire, k) : o.n = z.n /\ o.val = z.val,
         \A k \in Marked : last[k].by \in Phones /\ ~messy'[k] /\ ~Awaited(k)' =>
           Says(k, account'.marks, account'.city, last[k].val),
         \A k \in Marked : last[k].by \in Phones /\ ~messy'[k] /\ ~overtaken'[k]
             /\ Shows(k, phone, wire, last[k].by, last[k].val) =>
           Shows(k, phone', wire', last[k].by, last[k].val)
  PROVE  MarksInv'
<1>1. ASSUME NEW k \in Marked, last[k].by \in Phones
      PROVE  /\ \A o \in Writes(wire', k) : o.n = last[k].n => o.val = last[k].val
             /\ ~messy'[k] /\ ~overtaken'[k] => Shows(k, phone', wire', last[k].by, last[k].val)
  BY <1>1 DEF MarksInv, Standing
<1>2. \A k \in Marked : Standing(k)'
  BY <1>1 DEF Standing
<1>3. QED
  BY <1>2 DEF MarksInv

\* The account as it is says what it says, unless the last tap was awaited before.
LEMMA SaysAsBefore ==
  ASSUME MarksInv, NEW k \in Marked, last[k].by \in Phones, ~messy[k], ~Awaited(k)
  PROVE  Says(k, account.marks, account.city, last[k].val)
  BY DEF MarksInv, Standing

\* A request of which no heart hears yet is sent on: by a page that opens, settles or locates.
LEMMA AskingKeeps ==
  ASSUME MarksInv, NEW r, wire' = wire \cup {r}, r.at = "sent", r.kind \notin {"toggle", "pick"},
         UNCHANGED <<account, last, messy, overtaken, taps>>, phone' \in [Phones -> PhoneStates],
         Fits(r, phone', taps), \A z \in wire : Fits(z, phone', taps),
         \A e \in Phones : phone'[e].marks = phone[e].marks /\ phone'[e].city = phone[e].city,
         \A z \in wire, k \in Marked : Heard(phone', z, k) => Heard(phone, z, k)
  PROVE  MarksInv'
<1>1. \A k : Writes(wire', k) = Writes(wire, k)
  BY DEF Writes
<1>2. \A k : Awaited(k)' <=> Awaited(k)
  BY <1>1 DEF Awaited
<1>3. MarksType' /\ WireInv'
  BY DEF MarksInv, MarksType, WireInv
<1>4. ASSUME NEW k \in Marked, last[k].by \in Phones, Shows(k, phone, wire, last[k].by, last[k].val)
      PROVE  Shows(k, phone', wire', last[k].by, last[k].val)
  <2>1. \A x \in wire' : x.at = "answered" => x \in wire
    OBVIOUS
  <2>2. QED
    BY <1>4, <2>1, ShowsOn
<1>5. \A k \in Marked : last[k].by \in Phones /\ ~messy'[k] /\ ~Awaited(k)' =>
        Says(k, account'.marks, account'.city, last[k].val)
  BY <1>2, SaysAsBefore
<1>6. QED
  BY <1>1, <1>3, <1>4, <1>5, Carries

\* What a request says when it is sent.
LEMMA RequestType ==
  ASSUME phone \in [Phones -> PhoneStates], NEW d \in Phones, NEW kind \in Kinds,
         NEW k \in Marked \cup {"none"}, NEW val \in BOOLEAN \cup Cities,
         NEW r, r = Request(d, kind, k, val)
  PROVE  /\ r \in Messages(r.n) /\ r.d = d /\ r.kind = kind /\ (kind \in {"toggle", "pick"} => r.n = taps)
         /\ r.at = "sent" /\ r.of = k /\ r.val = val /\ r.seq = phone[d].seq /\ ~r.gone /\ ~r.first
<1>1. PICK n : n = IF kind \in {"toggle", "pick"} THEN taps ELSE Spare(d, kind)
  OBVIOUS
<1>2. r = [d |-> d, n |-> n, kind |-> kind, at |-> "sent", of |-> k, val |-> val,
           seq |-> phone[d].seq, add |-> {}, first |-> FALSE, gone |-> FALSE, got |-> {}, city |-> NoCity]
  BY <1>1 DEF Request
<1>3. phone[d].seq \in [Lists -> Nat] /\ {} \in SUBSET Items /\ NoCity \in Cities \cup {NoCity}
  BY DEF PhoneStates
<1>4. QED
  BY <1>1, <1>2, <1>3 DEF Messages

Counts == [Lists -> Nat]
AsksLoad(r, d, seq) ==
  r.d = d /\ r.kind = "load" /\ r.at = "sent" /\ r.of = "none" /\ r.seq = seq /\ ~r.gone

\* What a load says when it is sent.
LEMMA LoadType ==
  ASSUME phone \in [Phones -> PhoneStates], NEW d \in Phones,
         NEW seq \in Counts, NEW r, r = Load(d, TRUE, seq) \/ r = Load(d, FALSE, seq)
  PROVE  r \in Messages(r.n) /\ AsksLoad(r, d, seq)
<1>1. PICK add : add = IF phone[d].migrated THEN {} ELSE {i \in phone[d].marks : ListOf[i] = "favorites"}
  OBVIOUS
<1>2. add \in SUBSET Items
  <2>1. phone[d].marks \in SUBSET Items
    BY DEF PhoneStates
  <2>2. QED
    BY <1>1, <2>1
<1>3. PICK n : n = Spare(d, "load")
  OBVIOUS
<1>0. PICK first \in BOOLEAN : r = Load(d, first, seq)
  OBVIOUS
<1>4. r = [d |-> d, n |-> n, kind |-> "load", at |-> "sent", of |-> "none", val |-> FALSE,
           seq |-> seq, add |-> add, first |-> first, gone |-> FALSE, got |-> {}, city |-> NoCity]
  <2>1. r = [[d |-> d, n |-> n, kind |-> "load", at |-> "sent", of |-> "none", val |-> FALSE,
              seq |-> phone[d].seq, add |-> {}, first |-> FALSE, gone |-> FALSE, got |-> {}, city |-> NoCity]
             EXCEPT !.seq = seq, !.first = first, !.add = add]
    BY <1>0, <1>1, <1>3 DEF Load, Request
  <2>2. QED
    BY <2>1
<1>5. {} \in SUBSET Items /\ NoCity \in Cities \cup {NoCity} /\ FALSE \in BOOLEAN \cup Cities
  OBVIOUS
<1>6. QED
  BY <1>2, <1>4, <1>5 DEF Messages, Kinds, Counts, AsksLoad

\* A page that opens hears of nothing but its own load, which comes after every tap.
LEMMA OpenKeeps ==
  ASSUME MarksInv, NEW d \in Phones, OpenPage(d)
  PROVE  MarksInv'
<1>z. PICK zero : zero = [l \in Lists |-> 0]
  OBVIOUS
<1>0. PICK r : r = Load(d, TRUE, zero)
  OBVIOUS
<1>1. wire' = wire \cup {r} /\ UNCHANGED <<account, last, messy, overtaken, taps>>
  BY <1>z, <1>0 DEF OpenPage, tapHistory
<1>2. /\ phone \in [Phones -> PhoneStates] /\ taps \in Nat
      /\ zero \in Counts /\ zero \in [Lists -> Nat] /\ \A l \in Lists : zero[l] = 0
  BY <1>z DEF Counts, MarksInv, MarksType
<1>3. r \in Messages(r.n) /\ AsksLoad(r, d, zero)
  BY <1>0, <1>2, LoadType
<1>4. PICK p : p = [phone[d] EXCEPT !.open = TRUE, !.seq = zero, !.touched = FALSE,
                                    !.lacking = FALSE, !.located = FALSE]
  OBVIOUS
<1>5. phone' = [phone EXCEPT ![d] = p]
  BY <1>z, <1>2, <1>4 DEF OpenPage
<1>6. p \in PhoneStates /\ p.open /\ p.seq = zero /\ p.marks = phone[d].marks /\ p.city = phone[d].city
  BY <1>2, <1>4 DEF PhoneStates
<1>7. phone' \in [Phones -> PhoneStates] /\ phone'[d] = p /\ \A e \in Phones \ {d} : phone'[e] = phone[e]
  BY <1>2, <1>5, <1>6
<1>8. ASSUME NEW z \in wire
      PROVE  z.d \in Phones /\ Fits(z, phone, taps) /\ z.kind \in Kinds
             /\ (z.d = d => z.gone \/ (z.of = TheCity /\ z.kind \notin {"load", "toggle"}))
  <2>1. Fits(z, phone, taps)
    BY DEF MarksInv, WireInv
  <2>2. z.d \in Phones /\ z.kind \in Kinds
    BY <2>1 DEF Fits, Messages
  <2>3. z.d = d => z.gone \/ z.of = TheCity
    BY <2>1 DEF Fits, Paged, OpenPage
  <2>4. z.of = TheCity => z.kind \notin {"load", "toggle"}
    BY <2>1, ItemFacts, MiniAppAssumption DEF Fits, Sound, TheCity
  <2>5. QED
    BY <2>1, <2>2, <2>3, <2>4
<1>9. Fits(r, phone', taps)
  <2>1. r.d = d /\ ~r.gone /\ r.of = "none" /\ r.kind = "load" /\ r.at = "sent" /\ r.seq = zero
    BY <1>3 DEF AsksLoad
  <2>2. phone'[r.d].open /\ \A l \in Lists : r.seq[l] <= phone'[r.d].seq[l]
    BY <1>2, <1>6, <1>7, <2>1
  <2>3. Sound(r) /\ Paged(r, phone')
    BY <2>1, <2>2 DEF Sound, Paged
  <2>4. QED
    BY <1>3, <2>1, <2>3 DEF Fits
<1>10. ASSUME NEW z \in wire
       PROVE  Fits(z, phone', taps)
  <2>1. CASE z.d = d
    BY <1>2, <1>7, <1>8, <2>1, FitsOn
  <2>2. CASE z.d # d
    BY <1>7, <1>8, <2>2 DEF Fits, Paged
  <2>3. QED
    BY <2>1, <2>2
<1>11. ASSUME NEW z \in wire, NEW k \in Marked, Heard(phone', z, k)
       PROVE  Heard(phone, z, k)
  <2>1. z.d # d
    BY <1>8, <1>11 DEF Heard
  <2>2. QED
    BY <1>7, <1>8, <1>11, <2>1 DEF Heard
<1>12. \A e \in Phones : phone'[e].marks = phone[e].marks /\ phone'[e].city = phone[e].city
  BY <1>6, <1>7
<1>13. QED
  BY <1>1, <1>3, <1>7, <1>9, <1>10, <1>11, <1>12, AskingKeeps DEF AsksLoad

\* The city that the map settles on, and a position, are no taps.
LEMMA SettleKeeps ==
  ASSUME MarksInv, NEW d \in Phones, (\E c \in Cities : SettleCity(d, c)) \/ Locate(d)
  PROVE  MarksInv'
<1>1. /\ UNCHANGED <<account, last, messy, overtaken, taps>>
      /\ phone \in [Phones -> PhoneStates] /\ phone[d] \in PhoneStates /\ taps \in Nat
  BY DEF SettleCity, Locate, tapHistory, counters, MarksInv, MarksType
<1>2. PICK kind \in {"settle", "locate"}, c \in Cities, p \in PhoneStates :
        /\ wire' = wire \cup {Request(d, kind, TheCity, c)} /\ phone' = [phone EXCEPT ![d] = p]
        /\ (p.open <=> phone[d].open) /\ p.seq = phone[d].seq /\ p.marks = phone[d].marks /\ p.city = phone[d].city
        /\ (p.touched <=> phone[d].touched)
  <2>1. ASSUME NEW c \in Cities, SettleCity(d, c)
        PROVE  \E p \in PhoneStates :
                 /\ wire' = wire \cup {Request(d, "settle", TheCity, c)} /\ phone' = [phone EXCEPT ![d] = p]
                 /\ (p.open <=> phone[d].open) /\ p.seq = phone[d].seq /\ p.marks = phone[d].marks
                 /\ p.city = phone[d].city /\ (p.touched <=> phone[d].touched)
    <3>1. PICK p : p = [phone[d] EXCEPT !.lacking = FALSE]
      OBVIOUS
    <3>2. /\ p \in PhoneStates /\ (p.open <=> phone[d].open) /\ p.seq = phone[d].seq /\ p.marks = phone[d].marks
          /\ p.city = phone[d].city /\ (p.touched <=> phone[d].touched)
      BY <1>1, <3>1 DEF PhoneStates
    <3>3. phone' = [phone EXCEPT ![d] = p] /\ wire' = wire \cup {Request(d, "settle", TheCity, c)}
      BY <2>1, <3>1 DEF SettleCity
    <3>4. QED
      BY <3>2, <3>3
  <2>2. CASE Locate(d)
    <3>1. PICK p : p = [phone[d] EXCEPT !.located = TRUE]
      OBVIOUS
    <3>2. /\ p \in PhoneStates /\ (p.open <=> phone[d].open) /\ p.seq = phone[d].seq /\ p.marks = phone[d].marks
          /\ p.city = phone[d].city /\ (p.touched <=> phone[d].touched)
      BY <1>1, <3>1 DEF PhoneStates
    <3>3. phone' = [phone EXCEPT ![d] = p] /\ wire' = wire \cup {Request(d, "locate", TheCity, PositionOf[d])}
      BY <2>2, <3>1 DEF Locate
    <3>4. PositionOf[d] \in Cities
      BY <2>2, MiniAppAssumption DEF Locate
    <3>5. QED
      BY <3>2, <3>3, <3>4
  <2>3. QED
    BY <2>1, <2>2
<1>3. PICK r : r = Request(d, kind, TheCity, c)
  OBVIOUS
<1>4. r \in Messages(r.n) /\ r.d = d /\ r.kind = kind /\ r.at = "sent" /\ r.of = TheCity /\ r.val = c /\ ~r.gone /\ ~r.first
  <2>1. kind \in Kinds /\ TheCity \in Marked \cup {"none"} /\ c \in BOOLEAN \cup Cities
    BY DEF Kinds, Marked
  <2>2. phone \in [Phones -> PhoneStates]
    BY <1>1
  <2>3. QED
    BY <1>3, <2>1, <2>2, RequestType
<1>5. phone' \in [Phones -> PhoneStates] /\ phone'[d] = p /\ \A e \in Phones \ {d} : phone'[e] = phone[e]
  BY <1>1, <1>2
<1>6. Fits(r, phone', taps)
  BY <1>4 DEF Fits, Sound, Paged
<1>7. \A e \in Phones : /\ (phone'[e].open <=> phone[e].open) /\ phone'[e].seq = phone[e].seq
                        /\ phone'[e].marks = phone[e].marks /\ phone'[e].city = phone[e].city
                        /\ (phone'[e].touched <=> phone[e].touched)
  BY <1>2, <1>5
<1>8. ASSUME NEW z \in wire
      PROVE  /\ Fits(z, phone', taps)
             /\ \A k \in Marked : Heard(phone', z, k) => Heard(phone, z, k)
  <2>1. Fits(z, phone, taps)
    BY DEF MarksInv, WireInv
  <2>2. z.d \in Phones
    BY <2>1 DEF Fits, Messages
  <2>3. Paged(z, phone')
    BY <1>7, <2>1, <2>2 DEF Fits, Paged
  <2>4. Fits(z, phone', taps)
    BY <2>1, <2>3 DEF Fits
  <2>5. \A k \in Marked : Heard(phone', z, k) => Heard(phone, z, k)
    BY <1>7, <2>2 DEF Heard
  <2>6. QED
    BY <2>4, <2>5
<1>9. wire' = wire \cup {r} /\ r.kind \notin {"toggle", "pick"}
  BY <1>2, <1>3, <1>4
<1>10. QED
  BY <1>1, <1>4, <1>5, <1>6, <1>7, <1>8, <1>9, AskingKeeps

\* A page that closes hears of nothing any more; its requests are handled all the same.
LEMMA CloseKeeps ==
  ASSUME MarksInv, NEW d \in Phones, ClosePage(d)
  PROVE  MarksInv'
<1> DEFINE Left(z) == IF z.d = d /\ z.of # TheCity THEN [z EXCEPT !.gone = TRUE] ELSE z
<1>1. /\ wire' = {Left(z) : z \in {o \in wire : o.d # d \/ o.at \in {"sent", "read"}}}
      /\ UNCHANGED <<account, last, messy, overtaken, taps>>
      /\ phone \in [Phones -> PhoneStates] /\ taps \in Nat
  BY DEF ClosePage, tapHistory, counters, MarksInv, MarksType
<1>2. ASSUME NEW z \in wire
      PROVE  /\ Left(z) \in Messages(Left(z).n) /\ Left(z).d = z.d /\ Left(z).n = z.n /\ Left(z).kind = z.kind
             /\ Left(z).at = z.at /\ Left(z).of = z.of /\ Left(z).val = z.val /\ Left(z).seq = z.seq
             /\ Left(z).got = z.got /\ Left(z).city = z.city
             /\ (Left(z).gone <=> z.gone \/ (z.d = d /\ z.of # TheCity)) /\ (Left(z).first <=> z.first)
  <2>1. z \in Messages(z.n)
    BY DEF MarksInv, WireInv, Fits
  <2>2. CASE z.d = d /\ z.of # TheCity
    BY <2>1, <2>2 DEF Messages
  <2>3. CASE ~(z.d = d /\ z.of # TheCity)
    BY <2>1, <2>3 DEF Messages
  <2>4. QED
    BY <2>2, <2>3
<1>3. \A x \in wire' : \E z \in wire : x = Left(z) /\ (z.d # d \/ z.at \in {"sent", "read"})
  BY <1>1
<1>4. \A z \in wire : z.at = "sent" => Left(z) \in wire'
  BY <1>1
<1> HIDE DEF Left
<1>5. PICK p : p = [phone[d] EXCEPT !.open = FALSE]
  OBVIOUS
<1>6. /\ p \in PhoneStates /\ p.seq = phone[d].seq /\ p.marks = phone[d].marks
      /\ p.city = phone[d].city /\ (p.touched <=> phone[d].touched)
  BY <1>1, <1>5 DEF PhoneStates
<1>7. phone' = [phone EXCEPT ![d] = p]
  BY <1>1, <1>5 DEF ClosePage
<1>8. /\ phone' \in [Phones -> PhoneStates] /\ phone'[d] = p /\ \A e \in Phones \ {d} : phone'[e] = phone[e]
  BY <1>1, <1>6, <1>7
<1>9. ASSUME NEW x \in wire'
      PROVE  Fits(x, phone', taps)
  <2>1. PICK z \in wire : x = Left(z) /\ (z.d # d \/ z.at \in {"sent", "read"})
    BY <1>3
  <2>2. Fits(z, phone, taps)
    BY DEF MarksInv, WireInv
  <2>3. x.kind \in {"toggle", "pick"} => x.n \in Nat /\ x.n < taps
    BY <1>2, <2>1, <2>2 DEF Fits
  <2>4. Sound(x)
    BY <1>2, <2>1, <2>2 DEF Fits, Sound
  <2>5. z.d \in Phones
    BY <2>2 DEF Fits, Messages
  <2>6. Paged(x, phone')
    <3>1. CASE z.d = d
      BY <1>2, <2>1, <3>1 DEF Paged
    <3>2. CASE z.d # d
      <4>1. (x.gone <=> z.gone) /\ x.at = z.at /\ x.of = z.of /\ x.seq = z.seq /\ x.d = z.d
        BY <1>2, <2>1, <3>2
      <4>2. phone'[x.d] = phone[z.d]
        BY <1>8, <2>5, <3>2, <4>1
      <4>3. QED
        BY <2>2, <4>1, <4>2 DEF Fits, Paged
    <3>3. QED
      BY <3>1, <3>2
  <2>7. QED
    BY <1>2, <2>1, <2>3, <2>4, <2>6 DEF Fits
<1>10. MarksType' /\ WireInv'
  BY <1>1, <1>8, <1>9 DEF MarksInv, MarksType, WireInv
<1>11. ASSUME NEW k \in Marked
       PROVE  /\ \A o \in Writes(wire', k) : \E z \in Writes(wire, k) : o.n = z.n /\ o.val = z.val
              /\ Awaited(k) => Awaited(k)'
  <2>1. ASSUME NEW o \in Writes(wire', k)
        PROVE  \E z \in Writes(wire, k) : o.n = z.n /\ o.val = z.val
    <3>1. PICK z \in wire : o = Left(z)
      BY <1>3 DEF Writes
    <3>2. z \in Writes(wire, k) /\ o.n = z.n /\ o.val = z.val
      BY <1>2, <3>1 DEF Writes
    <3>3. QED
      BY <3>2
  <2>2. ASSUME NEW z \in Writes(wire, k), z.n = last[k].n
        PROVE  \E o \in Writes(wire', k) : o.n = last[k].n
    <3>1. Left(z) \in Writes(wire', k) /\ Left(z).n = last[k].n
      BY <1>2, <1>4, <2>2 DEF Writes
    <3>2. QED
      BY <3>1
  <2>3. QED
    BY <1>1, <2>1, <2>2 DEF Awaited
<1>12. ASSUME NEW k \in Marked, last[k].by \in Phones, Shows(k, phone, wire, last[k].by, last[k].val)
       PROVE  Shows(k, phone', wire', last[k].by, last[k].val)
  <2>1. ASSUME NEW x \in wire', x.d = last[k].by, x.at = "answered", Heard(phone', x, k)
        PROVE  \E z \in wire : z.d = last[k].by /\ z.at = "answered" /\ Heard(phone, z, k)
                               /\ z.got = x.got /\ z.city = x.city
    <3>1. PICK z \in wire : x = Left(z)
      BY <1>3
    <3>2. \A e \in Phones : phone'[e].seq = phone[e].seq /\ (phone'[e].touched <=> phone[e].touched)
      BY <1>6, <1>8
    <3>3. Heard(phone, z, k) /\ z.d = last[k].by /\ z.at = "answered" /\ z.got = x.got /\ z.city = x.city
      BY <1>2, <1>12, <2>1, <3>1, <3>2 DEF Heard
    <3>4. QED
      BY <3>3
  <2>2. phone'[last[k].by].marks = phone[last[k].by].marks /\ phone'[last[k].by].city = phone[last[k].by].city
    BY <1>6, <1>8, <1>12
  <2>3. QED
    BY <1>12, <2>1, <2>2, ShowsOn
<1>13. \A k \in Marked : last[k].by \in Phones /\ ~messy'[k] /\ ~Awaited(k)' =>
         Says(k, account'.marks, account'.city, last[k].val)
  BY <1>1, <1>11, SaysAsBefore
<1>14. UNCHANGED last /\ \A k \in Marked : (messy[k] => messy'[k]) /\ (overtaken[k] => overtaken'[k])
  BY <1>1
<1>15. QED
  BY <1>1, <1>10, <1>11, <1>12, <1>13, <1>14, Carries

\* A tap: the server waits for it as the last on its mark, and the phone shows it already,
\* with no answer on its way that would be heard.
LEMMA TapKeeps ==
  ASSUME MarksInv, NEW d \in Phones, NEW k \in Marked, NEW v \in Values(k), NEW r \in Messages(taps),
         Sound(r), r.d = d, r.kind \in {"toggle", "pick"}, r.at = "sent", r.of = k, r.val = v, Paged(r, phone'),
         wire' = wire \cup {r}, UNCHANGED account, Decides(d, k, v),
         NEW p \in PhoneStates, phone' = [phone EXCEPT ![d] = p], p.open,
         \A l \in Lists : phone[d].seq[l] <= p.seq[l],
         Says(k, p.marks, p.city, v),
         \A j \in Marked \ {k} : IF j = TheCity THEN p.city = phone[d].city
                                 ELSE (j \in p.marks <=> j \in phone[d].marks),
         \A z \in wire : z.d = d => ~Heard(phone', z, k),
         \A j \in Marked \ {k}, z \in wire : z.d = d /\ Heard(phone', z, j) => Heard(phone, z, j)
  PROVE  MarksInv'
<1>1. /\ account \in Accounts /\ phone \in [Phones -> PhoneStates] /\ last \in [Marked -> LastTaps]
      /\ messy \in [Marked -> BOOLEAN] /\ overtaken \in [Marked -> BOOLEAN] /\ taps \in Nat
      /\ \A j \in Marked : last[j].by \in Phones => last[j].val \in Values(j)
  BY DEF MarksInv, MarksType
<1>2. \A z \in wire : Fits(z, phone, taps) /\ z.d \in Phones
  BY DEF MarksInv, WireInv, Fits, Messages
<1>3. PICK t : t = [by |-> d, val |-> v, n |-> taps]
  OBVIOUS
<1>4. /\ last' = [last EXCEPT ![k] = t] /\ messy' = [messy EXCEPT ![k] = FALSE]
      /\ overtaken' = [overtaken EXCEPT ![k] = FALSE] /\ taps' = taps + 1
  BY <1>3 DEF Decides
<1>5. t \in LastTaps /\ t.by = d /\ t.val = v /\ t.n = taps
  BY <1>1, <1>3 DEF LastTaps, Values
<1>6. /\ last' \in [Marked -> LastTaps] /\ messy' \in [Marked -> BOOLEAN] /\ overtaken' \in [Marked -> BOOLEAN]
      /\ taps' \in Nat /\ last'[k] = t
      /\ \A j \in Marked \ {k} : last'[j] = last[j] /\ (messy'[j] <=> messy[j]) /\ (overtaken'[j] <=> overtaken[j])
  BY <1>1, <1>4, <1>5
<1>7. phone' \in [Phones -> PhoneStates] /\ phone'[d] = p /\ \A e \in Phones \ {d} : phone'[e] = phone[e]
  BY <1>1
<1>8. MarksType'
  BY <1>1, <1>5, <1>6, <1>7 DEF MarksType
<1>9. ASSUME NEW z \in wire
      PROVE  Fits(z, phone', taps')
  <2>1. CASE z.d = d
    <3>1. taps <= taps' /\ taps' \in Nat
      BY <1>1, <1>4
    <3>2. phone'[z.d].open /\ \A l \in Lists : phone[z.d].seq[l] <= phone'[z.d].seq[l]
      BY <1>7, <2>1
    <3>3. QED
      BY <1>1, <1>2, <1>7, <3>1, <3>2, FitsOn
  <2>2. CASE z.d # d
    <3>1. Paged(z, phone')
      BY <1>2, <1>7, <2>2 DEF Fits, Paged
    <3>2. z.kind \in {"toggle", "pick"} => z.n \in Nat /\ z.n < taps'
      BY <1>1, <1>2, <1>4 DEF Fits
    <3>3. QED
      BY <1>2, <3>1, <3>2 DEF Fits
  <2>3. QED
    BY <2>1, <2>2
<1>10. r.n = taps /\ Fits(r, phone', taps')
  <2>1. r.n = taps
    BY DEF Messages
  <2>2. QED
    BY <1>1, <1>4, <2>1 DEF Fits
<1>11. WireInv'
  BY <1>9, <1>10 DEF WireInv
<1>12. Standing(k)'
  <2>1. \A o \in Writes(wire', k) : o.n = taps => o.val = v
    <3>1. ASSUME NEW o \in Writes(wire', k), o.n = taps
          PROVE  o.val = v
      <4>1. o \notin wire
        BY <1>1, <1>2, <3>1 DEF Writes, Fits
      <4>2. QED
        BY <3>1, <4>1 DEF Writes
    <3>2. QED
      BY <3>1
  <2>2. r \in Writes(wire', k) /\ r.n = last'[k].n
    BY <1>5, <1>6, <1>10 DEF Writes
  <2>3. Awaited(k)'
    BY <2>2 DEF Awaited
  <2>4. Shows(k, phone', wire', d, v)
    BY <1>7 DEF Shows
  <2>5. QED
    BY <1>5, <1>6, <2>1, <2>3, <2>4 DEF Standing
<1>13. ASSUME NEW j \in Marked \ {k}
       PROVE  Standing(j)'
  <2>1. Writes(wire', j) = Writes(wire, j)
    BY DEF Writes
  <2>2. Awaited(j)' <=> Awaited(j)
    BY <1>6, <2>1 DEF Awaited
  <2>3. SUFFICES ASSUME last[j].by \in Phones
                 PROVE  /\ \A o \in Writes(wire, j) : o.n = last[j].n => o.val = last[j].val
                        /\ ~messy[j] /\ ~Awaited(j) => Says(j, account.marks, account.city, last[j].val)
                        /\ ~messy[j] /\ ~overtaken[j] => Shows(j, phone', wire', last[j].by, last[j].val)
    BY <1>6, <2>1, <2>2 DEF Standing
  <2>4. /\ \A o \in Writes(wire, j) : o.n = last[j].n => o.val = last[j].val
        /\ ~messy[j] /\ ~Awaited(j) => Says(j, account.marks, account.city, last[j].val)
        /\ ~messy[j] /\ ~overtaken[j] => Shows(j, phone, wire, last[j].by, last[j].val)
    BY <2>3 DEF MarksInv, Standing
  <2>5. ASSUME NEW e \in Phones, NEW w, Shows(j, phone, wire, e, w)
        PROVE  Shows(j, phone', wire', e, w)
    <3>1. Says(j, phone'[e].marks, phone'[e].city, w)
      BY <1>7, <2>5 DEF Shows, Says
    <3>2. ASSUME NEW x \in wire', x.d = e, x.at = "answered", Heard(phone', x, j)
          PROVE  Says(j, x.got, x.city, w)
      <4>1. x \in wire
        BY <3>2
      <4>2. Heard(phone, x, j)
        <5>1. CASE e = d
          BY <3>2, <4>1, <5>1
        <5>2. CASE e # d
          BY <1>7, <3>2, <5>2 DEF Heard
        <5>3. QED
          BY <5>1, <5>2
      <4>3. QED
        BY <2>5, <3>2, <4>1, <4>2 DEF Shows
    <3>3. QED
      BY <3>1, <3>2 DEF Shows
  <2>6. QED
    BY <2>3, <2>4, <2>5
<1>14. QED
  BY <1>8, <1>11, <1>12, <1>13 DEF MarksInv

\* A heart or a followed venue: older answers about its list count no more.
LEMMA MarkKeeps ==
  ASSUME MarksInv, NEW d \in Phones, NEW i \in Items, NEW on \in BOOLEAN, Mark(d, i, on)
  PROVE  MarksInv'
<1>0. PICK r : r = [Request(d, "toggle", i, on) EXCEPT !.seq[ListOf[i]] = @ + 1]
  OBVIOUS
<1>q. PICK q : q = Request(d, "toggle", i, on)
  OBVIOUS
<1>m. PICK marks : marks = IF on THEN phone[d].marks \cup {i} ELSE phone[d].marks \ {i}
  OBVIOUS
<1>s. PICK seq : seq = [phone[d].seq EXCEPT ![ListOf[i]] = phone[d].seq[ListOf[i]] + 1]
  OBVIOUS
<1>p. PICK p : p = [phone[d] EXCEPT !.marks = marks, !.seq = seq]
  OBVIOUS
<1>1. phone \in [Phones -> PhoneStates]
  BY DEF MarksInv, MarksType
<1>2. i # TheCity /\ i \in Marked /\ ListOf[i] \in Lists
  BY ItemFacts
<1>3. phone[d] \in PhoneStates /\ phone[d].seq \in [Lists -> Nat] /\ phone[d].marks \in SUBSET Items
  BY <1>1 DEF PhoneStates
<1>4. /\ q \in Messages(taps) /\ q.d = d /\ q.kind = "toggle" /\ q.n = taps
      /\ q.at = "sent" /\ q.of = i /\ (q.val <=> on) /\ q.seq = phone[d].seq /\ ~q.gone /\ ~q.first
  <2>1. "toggle" \in Kinds /\ i \in Marked \cup {"none"} /\ on \in BOOLEAN \cup Cities
    BY <1>2 DEF Kinds
  <2>2. QED
    BY <1>q, <1>1, <2>1, RequestType
<1>5. seq \in [Lists -> Nat] /\ seq[ListOf[i]] = phone[d].seq[ListOf[i]] + 1
      /\ \A l \in Lists : phone[d].seq[l] <= seq[l] /\ (l # ListOf[i] => seq[l] = phone[d].seq[l])
  BY <1>s, <1>2, <1>3
<1>6. r = [q EXCEPT !.seq = seq]
  BY <1>0, <1>q, <1>s, <1>4 DEF Messages
<1>7. /\ r \in Messages(taps) /\ r.d = d /\ r.kind = "toggle"
      /\ r.at = "sent" /\ r.of = i /\ (r.val <=> on) /\ r.val \in BOOLEAN /\ r.seq = seq /\ ~r.gone /\ ~r.first
  <2>1. r \in Messages(taps)
    BY <1>4, <1>5, <1>6 DEF Messages
  <2>2. r.val = q.val /\ r.d = q.d /\ r.kind = q.kind /\ r.at = q.at /\ r.of = q.of /\ r.seq = seq
        /\ (r.gone <=> q.gone) /\ (r.first <=> q.first)
    BY <1>4, <1>6 DEF Messages
  <2>3. q.val \in BOOLEAN
    BY <1>q DEF Request
  <2>4. QED
    BY <1>4, <2>1, <2>2, <2>3
<1>8. marks \in SUBSET Items /\ (i \in marks <=> on) /\ \A k : k # i => (k \in marks <=> k \in phone[d].marks)
  BY <1>m, <1>3
<1>9. p \in PhoneStates /\ p.seq = seq /\ p.marks = marks /\ p.city = phone[d].city
      /\ (p.touched <=> phone[d].touched) /\ (p.open <=> phone[d].open)
  BY <1>p, <1>3, <1>5, <1>8 DEF PhoneStates
<1>10. phone' = [phone EXCEPT ![d] = p]
  BY <1>1, <1>m, <1>s, <1>p DEF Mark, PhoneStates
<1>11. phone[d].open /\ wire' = wire \cup {r} /\ UNCHANGED account /\ Decides(d, i, on)
  BY <1>0 DEF Mark
<1>12. phone'[d] = p
  BY <1>1, <1>10
<1>13. \A z \in wire : z.d = d => ~Heard(phone', z, i)
  <2>1. ASSUME NEW z \in wire, z.d = d, Heard(phone', z, i)
        PROVE  FALSE
    <3>1. ~z.gone /\ z.seq[ListOf[i]] = seq[ListOf[i]] /\ z.kind \in {"load", "toggle"}
      BY <1>2, <1>9, <1>12, <2>1 DEF Heard
    <3>2. Fits(z, phone, taps)
      BY DEF MarksInv, WireInv
    <3>3. z.of # TheCity
      BY <3>1, <3>2, ItemFacts, MiniAppAssumption DEF Fits, Sound, TheCity
    <3>4. z.seq[ListOf[i]] <= phone[d].seq[ListOf[i]]
      BY <1>2, <2>1, <3>1, <3>2, <3>3 DEF Fits, Paged
    <3>5. phone[d].seq[ListOf[i]] \in Nat
      BY <1>2, <1>3
    <3>6. QED
      BY <1>5, <3>1, <3>4, <3>5
  <2>2. QED
    BY <2>1
<1>14. ASSUME NEW k \in Marked \ {i}, NEW z \in wire, z.d = d, Heard(phone', z, k)
       PROVE  Heard(phone, z, k)
  <2>1. CASE k = TheCity
    BY <1>9, <1>12, <1>14, <2>1 DEF Heard
  <2>2. CASE k # TheCity /\ ListOf[k] # ListOf[i]
    <3>1. ListOf[k] \in Lists
      BY <2>2, ItemFacts
    <3>2. seq[ListOf[k]] = phone[d].seq[ListOf[k]]
      BY <1>5, <2>2, <3>1
    <3>3. QED
      BY <1>9, <1>12, <1>14, <2>2, <3>2 DEF Heard
  <2>3. CASE k # TheCity /\ ListOf[k] = ListOf[i]
    <3>1. Heard(phone', z, i)
      BY <1>2, <1>14, <2>3 DEF Heard
    <3>2. QED
      BY <1>13, <1>14, <3>1
  <2>4. QED
    BY <2>1, <2>2, <2>3
<1>15. Sound(r) /\ on \in Values(i) /\ r.val = on
  BY <1>2, <1>7 DEF Sound, Values
<1>16. Says(i, p.marks, p.city, on)
  BY <1>2, <1>8, <1>9 DEF Says
<1>17. \A k \in Marked \ {i} : IF k = TheCity THEN p.city = phone[d].city ELSE (k \in p.marks <=> k \in phone[d].marks)
  BY <1>8, <1>9
<1>18. p.open /\ (\A l \in Lists : r.seq[l] <= p.seq[l]) /\ \A l \in Lists : phone[d].seq[l] <= p.seq[l]
  <2>1. \A l \in Lists : seq[l] \in Nat
    BY <1>5
  <2>2. QED
    BY <1>5, <1>7, <1>9, <1>11, <2>1
<1>19. Paged(r, phone')
  BY <1>7, <1>12, <1>18 DEF Paged
<1>20. r.kind \in {"toggle", "pick"}
  BY <1>7
<1>21. QED
  BY <1>2, <1>7, <1>9, <1>10, <1>11, <1>13, <1>14, <1>15, <1>16, <1>17, <1>18, <1>19, <1>20, TapKeeps

\* A city that is picked: loads seed it no more while the page is open.
LEMMA PickKeeps ==
  ASSUME MarksInv, NEW d \in Phones, NEW c \in Cities, Pick(d, c)
  PROVE  MarksInv'
<1>0. PICK r : r = Request(d, "pick", TheCity, c)
  OBVIOUS
<1>1. phone \in [Phones -> PhoneStates] /\ TheCity \in Marked /\ c \in Values(TheCity)
  BY ItemFacts DEF MarksInv, MarksType, Values
<1>2. /\ r \in Messages(taps) /\ r.d = d /\ r.kind = "pick" /\ r.at = "sent" /\ r.of = TheCity /\ r.val = c
      /\ r.seq = phone[d].seq /\ ~r.gone /\ ~r.first
  <2>1. "pick" \in Kinds /\ TheCity \in Marked \cup {"none"} /\ c \in BOOLEAN \cup Cities
    BY DEF Kinds, Marked
  <2>2. QED
    BY <1>0, <1>1, <2>1, RequestType
<1>3. PICK p : p = [phone[d] EXCEPT !.city = c, !.touched = TRUE]
  OBVIOUS
<1>4. p \in PhoneStates /\ p.seq = phone[d].seq /\ p.marks = phone[d].marks /\ p.city = c /\ p.touched
      /\ (p.open <=> phone[d].open)
  BY <1>1, <1>3 DEF PhoneStates
<1>5. phone' = [phone EXCEPT ![d] = p] /\ wire' = wire \cup {r} /\ UNCHANGED account /\ Decides(d, TheCity, c)
      /\ phone[d].open
  BY <1>0, <1>3 DEF Pick
<1>6. phone'[d] = p
  BY <1>1, <1>5
<1>7. \A z \in wire : z.d = d => ~Heard(phone', z, TheCity)
  BY <1>4, <1>6 DEF Heard
<1>8. \A j \in Marked \ {TheCity}, z \in wire : z.d = d /\ Heard(phone', z, j) => Heard(phone, z, j)
  BY <1>4, <1>6 DEF Heard
<1>9. Sound(r) /\ Paged(r, phone')
  BY <1>2 DEF Sound, Paged
<1>10. Says(TheCity, p.marks, p.city, c)
  BY <1>4 DEF Says
<1>11. \A l \in Lists : phone[d].seq[l] <= p.seq[l]
  <2>1. phone[d].seq \in [Lists -> Nat]
    BY <1>1 DEF PhoneStates
  <2>2. QED
    BY <1>4, <2>1
<1>12. /\ p.open /\ r.kind \in {"toggle", "pick"}
       /\ \A j \in Marked \ {TheCity} : IF j = TheCity THEN p.city = phone[d].city
                                        ELSE (j \in p.marks <=> j \in phone[d].marks)
  BY <1>2, <1>4, <1>5
<1>13. QED
  BY <1>1, <1>2, <1>4, <1>5, <1>7, <1>8, <1>9, <1>10, <1>11, <1>12, TapKeeps

\* A message that is taken away for others that are no taps takes one tap from those awaited.
LEMMA WritesLeft ==
  ASSUME NEW m \in wire, NEW X, wire' = Without(m) \cup X, UNCHANGED last,
         \A x \in X : x.at = "sent" => x.kind \notin {"toggle", "pick"}, NEW k
  PROVE  /\ Writes(wire', k) = Writes(wire, k) \ {m}
         /\ m \notin Writes(wire, k) \/ m.n # last[k].n => (Awaited(k)' <=> Awaited(k))
<1>1. Writes(wire', k) = Writes(wire, k) \ {m}
  BY DEF Writes, Without
<1>2. QED
  BY <1>1 DEF Awaited

\* A message that is handled, or lost, and answers nobody yet keeps what the account keeps.
LEMMA HandledKeeps ==
  ASSUME MarksInv, NEW m \in wire, NEW X, wire' = Without(m) \cup X,
         \A x \in X : Fits(x, phone, taps) /\ x.at # "answered" /\ (x.at = "sent" => x.kind \notin {"toggle", "pick"}),
         UNCHANGED <<phone, last, overtaken, taps>>, account' \in Accounts, messy' \in [Marked -> BOOLEAN],
         \A k \in Marked : messy[k] => messy'[k],
         \A k \in Marked : last[k].by \in Phones /\ ~messy'[k] /\ ~Awaited(k)' =>
           Says(k, account'.marks, account'.city, last[k].val)
  PROVE  MarksInv'
<1>1. MarksType' /\ WireInv'
  BY DEF MarksInv, MarksType, WireInv, Without
<1>2. \A k \in Marked : \A o \in Writes(wire', k) : \E z \in Writes(wire, k) : o.n = z.n /\ o.val = z.val
  BY WritesLeft
<1>3. ASSUME NEW k \in Marked, Shows(k, phone, wire, last[k].by, last[k].val)
      PROVE  Shows(k, phone', wire', last[k].by, last[k].val)
  <2>1. \A x \in wire' : x.at = "answered" => x \in wire
    BY DEF Without
  <2>2. QED
    BY <1>3, <2>1, ShowsOn
<1>4. QED
  BY <1>1, <1>2, <1>3, Carries

\* A request that is handled moves on, unless nobody waits for the answer.
LEMMA NowFacts ==
  ASSUME MarksInv, NEW m \in wire,
         NEW at, (at = "committed" /\ m.kind \in {"toggle", "load"}) \/ (at = "read" /\ m.kind = "locate")
  PROVE  \E X : /\ Now(m, at) = Without(m) \cup X
                /\ \A x \in X : Fits(x, phone, taps) /\ x.at = at
<1>1. Fits(m, phone, taps) /\ m \in Messages(m.n)
  BY DEF MarksInv, WireInv, Fits
<1>2. CASE m.gone /\ at = "committed"
  <2>1. PICK X : X = {}
    OBVIOUS
  <2>2. Now(m, at) = Without(m) \cup X /\ \A x \in X : Fits(x, phone, taps) /\ x.at = at
    BY <1>2, <2>1 DEF Now
  <2>3. QED
    BY <2>2
<1>3. CASE ~(m.gone /\ at = "committed")
  <2>1. PICK x : x = [m EXCEPT !.at = at]
    OBVIOUS
  <2>2. Now(m, at) = Without(m) \cup {x}
    BY <1>3, <2>1 DEF Now
  <2>3. /\ x \in Messages(x.n) /\ x.at = at /\ x.d = m.d /\ x.n = m.n /\ x.kind = m.kind /\ x.seq = m.seq
        /\ (x.gone <=> m.gone) /\ (x.first <=> m.first) /\ x.of = m.of /\ x.val = m.val
    BY <1>1, <2>1 DEF Messages
  <2>4. Sound(x)
    BY <1>1, <2>3 DEF Fits, Sound
  <2>5. Paged(x, phone)
    BY <1>1, <1>3, <2>3 DEF Fits, Paged
  <2>6. Fits(x, phone, taps)
    BY <1>1, <2>3, <2>4, <2>5 DEF Fits
  <2>7. PICK X : X = {x}
    OBVIOUS
  <2>8. Now(m, at) = Without(m) \cup X /\ \A y \in X : Fits(y, phone, taps) /\ y.at = at
    BY <2>2, <2>3, <2>6, <2>7
  <2>9. QED
    BY <2>8
<1>4. QED
  BY <1>2, <1>3

\* A tap that is handled: the last one decides, an older one before it does not matter, and
\* one after it makes the mark unclear.
LEMMA WriteKeeps ==
  ASSUME MarksInv, NEW m \in wire, m.kind \in {"toggle", "pick"}, m.at = "sent",
         NEW X, wire' = Without(m) \cup X,
         \A x \in X : Fits(x, phone, taps) /\ x.at \notin {"sent", "answered"},
         UNCHANGED <<phone, last, overtaken, taps>>, account' \in Accounts, Swaps(m),
         Says(m.of, account'.marks, account'.city, m.val),
         \A k \in Marked \ {m.of} : IF k = TheCity THEN account'.city = account.city
                                    ELSE (k \in account'.marks <=> k \in account.marks)
  PROVE  MarksInv'
<1>1. messy \in [Marked -> BOOLEAN] /\ m.of \in Marked
  <2>1. Fits(m, phone, taps)
    BY DEF MarksInv, WireInv
  <2>2. QED
    BY <2>1, ItemFacts DEF MarksInv, MarksType, Fits, Sound
<1>2. /\ messy' \in [Marked -> BOOLEAN] /\ \A k \in Marked : messy[k] => messy'[k]
      /\ messy'[m.of] <=> (messy[m.of] \/ (m.n # last[m.of].n /\ ~Awaited(m.of)))
  BY <1>1 DEF Swaps
<1>3. ASSUME NEW k \in Marked, last[k].by \in Phones, ~messy'[k], ~Awaited(k)'
      PROVE  Says(k, account'.marks, account'.city, last[k].val)
  <2>1. CASE k # m.of
    <3>1. m \notin Writes(wire, k)
      BY <2>1 DEF Writes
    <3>2. ~Awaited(k)
      BY <1>3, <3>1, WritesLeft
    <3>3. Says(k, account.marks, account.city, last[k].val)
      BY <1>2, <1>3, <3>2, SaysAsBefore
    <3>4. QED
      BY <2>1, <3>3 DEF Says
  <2>2. CASE k = m.of /\ m.n = last[k].n
    <3>1. m \in Writes(wire, k)
      BY <2>2 DEF Writes
    <3>2. m.val = last[k].val
      BY <1>3, <2>2, <3>1 DEF MarksInv, Standing
    <3>3. QED
      BY <2>2, <3>2
  <2>3. CASE k = m.of /\ m.n # last[k].n
    <3>1. Awaited(k)
      BY <1>2, <1>3, <2>3
    <3>2. Awaited(k)'
      BY <2>3, <3>1, WritesLeft
    <3>3. QED
      BY <1>3, <3>2
  <2>4. QED
    BY <2>1, <2>2, <2>3
<1>4. QED
  BY <1>2, <1>3, HandledKeeps

LEMMA ToggleKeeps ==
  ASSUME MarksInv, NEW m \in wire, Toggle(m)
  PROVE  MarksInv'
<1>1. /\ m.kind = "toggle" /\ m.at = "sent" /\ wire' = Now(m, "committed") /\ Swaps(m)
      /\ account' = [account EXCEPT !.marks = IF m.val THEN @ \cup {m.of} ELSE @ \ {m.of}]
      /\ UNCHANGED <<phone, last, overtaken, taps>>
  BY DEF Toggle, counters
<1>2. account \in Accounts /\ m.of \in Items /\ m.val \in BOOLEAN
  BY <1>1 DEF MarksInv, MarksType, WireInv, Fits, Sound
<1>3. PICK marks : marks = IF m.val THEN account.marks \cup {m.of} ELSE account.marks \ {m.of}
  OBVIOUS
<1>4. /\ marks \in SUBSET Items /\ (m.of \in marks <=> m.val)
      /\ \A k : k # m.of => (k \in marks <=> k \in account.marks)
  BY <1>2, <1>3 DEF Accounts
<1>5. account' = [account EXCEPT !.marks = marks]
  BY <1>1, <1>3
<1>6. account' \in Accounts /\ account'.marks = marks /\ account'.city = account.city
  BY <1>2, <1>4, <1>5 DEF Accounts
<1>7. PICK X : /\ Now(m, "committed") = Without(m) \cup X
               /\ \A x \in X : Fits(x, phone, taps) /\ x.at = "committed"
  BY <1>1, NowFacts
<1>8. m.of # TheCity
  BY <1>2, ItemFacts
<1>9. Says(m.of, account'.marks, account'.city, m.val)
  BY <1>4, <1>6, <1>8 DEF Says
<1>10. \A k \in Marked \ {m.of} : IF k = TheCity THEN account'.city = account.city
                                  ELSE (k \in account'.marks <=> k \in account.marks)
  BY <1>4, <1>6
<1>11. wire' = Without(m) \cup X /\ \A x \in X : Fits(x, phone, taps) /\ x.at \notin {"sent", "answered"}
  BY <1>1, <1>7
<1>12. m.kind \in {"toggle", "pick"}
  BY <1>1
<1>13. QED
  BY <1>1, <1>6, <1>9, <1>10, <1>11, <1>12, WriteKeeps

\* The old hearts of a phone come over the last tap only where that is unclear from then on.
LEMMA MergeKeeps ==
  ASSUME MarksInv, NEW m \in wire, Merge(m)
  PROVE  MarksInv'
<1>1. m.kind = "load" /\ m.at = "sent" /\ wire' = Now(m, "committed") /\ UNCHANGED <<phone, last, overtaken, taps>>
  BY DEF Merge, counters
<1>2. account \in Accounts /\ messy \in [Marked -> BOOLEAN] /\ m.add \in SUBSET Items
  BY DEF MarksInv, MarksType, WireInv, Fits, Messages
<1>3. PICK claimed \in BOOLEAN : claimed <=> (m.add # {} /\ ~account.merged)
  OBVIOUS
<1>4. PICK added : added = IF claimed THEN m.add \ account.marks ELSE {}
  OBVIOUS
<1>5. added \in SUBSET Items
  BY <1>2, <1>4
<1>6. /\ account' = [account EXCEPT !.marks = account.marks \cup added, !.merged = account.merged \/ claimed]
      /\ messy' = [k \in Marked |-> messy[k] \/ (k \in added /\ ~Awaited(k))]
  BY <1>2, <1>3, <1>4 DEF Merge, Accounts
<1>7. account' \in Accounts /\ account'.marks = account.marks \cup added /\ account'.city = account.city
  <2>1. account.marks \cup added \in SUBSET Items /\ (account.merged \/ claimed) \in BOOLEAN
    BY <1>2, <1>5 DEF Accounts
  <2>2. QED
    BY <1>2, <1>6, <2>1 DEF Accounts
<1>8. messy' \in [Marked -> BOOLEAN] /\ \A k \in Marked : messy[k] => messy'[k]
  BY <1>2, <1>6
<1>9. PICK X : /\ Now(m, "committed") = Without(m) \cup X
               /\ \A x \in X : Fits(x, phone, taps) /\ x.at = "committed"
  BY <1>1, NowFacts
<1>10. ASSUME NEW k \in Marked, last[k].by \in Phones, ~messy'[k], ~Awaited(k)'
       PROVE  Says(k, account'.marks, account'.city, last[k].val)
  <2>1. m \notin Writes(wire, k)
    BY <1>1 DEF Writes
  <2>2. ~Awaited(k)
    BY <1>1, <1>9, <1>10, <2>1, WritesLeft
  <2>3. ~messy[k] /\ k \notin added
    BY <1>6, <1>10, <2>2
  <2>4. Says(k, account.marks, account.city, last[k].val)
    BY <1>10, <2>2, <2>3, SaysAsBefore
  <2>5. QED
    BY <1>7, <2>3, <2>4 DEF Says
<1>11. wire' = Without(m) \cup X
  BY <1>1, <1>9
<1>12. \A x \in X : Fits(x, phone, taps) /\ x.at # "answered" /\ (x.at = "sent" => x.kind \notin {"toggle", "pick"})
  BY <1>9
<1>13. QED
  BY <1>1, <1>7, <1>8, <1>10, <1>11, <1>12, HandledKeeps

\* A city that nobody picked is written over a pick only where that is unclear from then on.
LEMMA OverruleKeeps ==
  ASSUME MarksInv, NEW m \in wire, m.kind \in {"settle", "locate"}, wire' = Without(m),
         account' = [account EXCEPT !.city = m.val], UNCHANGED <<phone, last, overtaken, taps>>,
         IF Awaited(TheCity) THEN UNCHANGED messy ELSE Overrules(m.val)
  PROVE  MarksInv'
<1>1. account \in Accounts /\ messy \in [Marked -> BOOLEAN] /\ m.val \in Cities /\ TheCity \in Marked
  BY ItemFacts DEF MarksInv, MarksType, WireInv, Fits, Sound
<1>2. account' \in Accounts /\ account'.marks = account.marks /\ account'.city = m.val
  BY <1>1 DEF Accounts
<1>3. PICK diff \in BOOLEAN : diff <=> IF last[TheCity].by = "nobody" THEN FALSE ELSE m.val # last[TheCity].val
  OBVIOUS
<1>4. ~Awaited(TheCity) => messy' = [messy EXCEPT ![TheCity] = messy[TheCity] \/ diff]
  <2>1. diff = (IF last[TheCity].by = "nobody" THEN FALSE ELSE m.val # last[TheCity].val)
    BY <1>3
  <2>2. QED
    BY <1>1, <2>1 DEF Overrules
<1>5. /\ messy' \in [Marked -> BOOLEAN] /\ \A k \in Marked : messy[k] => messy'[k]
      /\ ~Awaited(TheCity) => (messy'[TheCity] <=> (messy[TheCity] \/ diff))
  <2>1. CASE Awaited(TheCity)
    BY <1>1, <2>1
  <2>2. CASE ~Awaited(TheCity)
    BY <1>1, <1>4, <2>2
  <2>3. QED
    BY <2>1, <2>2
<1>6. PICK X : X = {}
  OBVIOUS
<1>7. wire' = Without(m) \cup X /\ \A x \in X : Fits(x, phone, taps) /\ x.at # "answered"
        /\ (x.at = "sent" => x.kind \notin {"toggle", "pick"})
  BY <1>6
<1>8. ASSUME NEW k \in Marked, last[k].by \in Phones, ~messy'[k], ~Awaited(k)'
      PROVE  Says(k, account'.marks, account'.city, last[k].val)
  <2>1. m \notin Writes(wire, k)
    BY DEF Writes
  <2>2. ~Awaited(k)
    BY <1>7, <1>8, <2>1, WritesLeft
  <2>3. Says(k, account.marks, account.city, last[k].val)
    BY <1>5, <1>8, <2>2, SaysAsBefore
  <2>4. CASE k # TheCity
    BY <1>2, <2>3, <2>4 DEF Says
  <2>5. CASE k = TheCity
    <3>1. last[TheCity].by # "nobody"
      BY <1>8, <2>5, MiniAppAssumption
    <3>2. ~diff
      BY <1>5, <1>8, <2>2, <2>5
    <3>3. m.val = last[TheCity].val
      BY <1>3, <3>1, <3>2
    <3>4. QED
      BY <1>2, <2>5, <3>3 DEF Says
  <2>6. QED
    BY <2>4, <2>5
<1>9. QED
  BY <1>2, <1>5, <1>7, <1>8, HandledKeeps

LEMMA SetCityKeeps ==
  ASSUME MarksInv, NEW m \in wire, SetCity(m)
  PROVE  MarksInv'
<1>1. /\ m.kind \in {"pick", "settle"} /\ m.at = "sent" /\ wire' = Without(m)
      /\ account' = [account EXCEPT !.city = m.val] /\ UNCHANGED <<phone, last, overtaken, taps>>
  BY DEF SetCity, counters
<1>2. CASE m.kind = "settle"
  <2>1. IF Awaited(TheCity) THEN UNCHANGED messy ELSE Overrules(m.val)
    BY <1>2 DEF SetCity
  <2>2. QED
    BY <1>1, <1>2, <2>1, OverruleKeeps
<1>3. CASE m.kind = "pick"
  <2>1. Swaps(m)
    BY <1>3 DEF SetCity
  <2>2. account \in Accounts /\ m.of = TheCity /\ m.val \in Cities
    BY <1>3 DEF MarksInv, MarksType, WireInv, Fits, Sound
  <2>3. account' \in Accounts /\ account'.marks = account.marks /\ account'.city = m.val
    BY <1>1, <2>2 DEF Accounts
  <2>4. PICK X : X = {}
    OBVIOUS
  <2>5. wire' = Without(m) \cup X /\ \A x \in X : Fits(x, phone, taps) /\ x.at \notin {"sent", "answered"}
    BY <1>1, <2>4
  <2>6. Says(m.of, account'.marks, account'.city, m.val)
    BY <2>2, <2>3 DEF Says
  <2>7. \A k \in Marked \ {m.of} : IF k = TheCity THEN account'.city = account.city
                                   ELSE (k \in account'.marks <=> k \in account.marks)
    BY <2>2, <2>3
  <2>8. m.kind \in {"toggle", "pick"}
    BY <1>3
  <2>9. QED
    BY <1>1, <2>1, <2>3, <2>5, <2>6, <2>7, <2>8, WriteKeeps
<1>4. QED
  BY <1>1, <1>2, <1>3

\* A message that is dropped, or looks only, leaves the account alone.
LEMMA LookKeeps ==
  ASSUME MarksInv, NEW m \in wire, LookForCity(m)
  PROVE  MarksInv'
<1>1. /\ m.kind = "locate" /\ UNCHANGED <<account, phone, last, messy, overtaken, taps>>
      /\ wire' = Without(m) \/ wire' = Now(m, "read")
  BY DEF LookForCity, tapHistory, counters
<1>2. \E X : Now(m, "read") = Without(m) \cup X /\ \A x \in X : Fits(x, phone, taps) /\ x.at = "read"
  BY <1>1, NowFacts
<1>3. \E X : Without(m) = Without(m) \cup X /\ \A x \in X : Fits(x, phone, taps) /\ x.at = "read"
  <2>1. PICK X : X = {}
    OBVIOUS
  <2>2. Without(m) = Without(m) \cup X /\ \A x \in X : Fits(x, phone, taps) /\ x.at = "read"
    BY <2>1
  <2>3. QED
    BY <2>2
<1>4. PICK X : wire' = Without(m) \cup X /\ \A x \in X : Fits(x, phone, taps) /\ x.at = "read"
  BY <1>1, <1>2, <1>3
<1>5. account \in Accounts /\ messy \in [Marked -> BOOLEAN]
  BY DEF MarksInv, MarksType
<1>6. ASSUME NEW k \in Marked, last[k].by \in Phones, ~messy'[k], ~Awaited(k)'
      PROVE  Says(k, account'.marks, account'.city, last[k].val)
  <2>1. m \notin Writes(wire, k)
    BY <1>1 DEF Writes
  <2>2. ~Awaited(k)
    BY <1>1, <1>4, <1>6, <2>1, WritesLeft
  <2>3. QED
    BY <1>1, <1>6, <2>2, SaysAsBefore
<1>7. QED
  BY <1>1, <1>4, <1>5, <1>6, HandledKeeps

LEMMA SaveKeeps ==
  ASSUME MarksInv, NEW m \in wire, SaveLocation(m)
  PROVE  MarksInv'
<1>1. /\ m.kind \in {"settle", "locate"} /\ wire' = Without(m)
      /\ account' = [account EXCEPT !.city = m.val] /\ UNCHANGED <<phone, last, overtaken, taps>>
      /\ IF Awaited(TheCity) THEN UNCHANGED messy ELSE Overrules(m.val)
  BY DEF SaveLocation, counters
<1>2. QED
  BY <1>1, OverruleKeeps

\* An answer that will be heard says what the account says; the phone is overtaken where
\* its last tap is not there yet.
LEMMA ListedKeeps ==
  ASSUME MarksInv, NEW m \in wire, Listed(m)
  PROVE  MarksInv'
<1>1. m.kind \in {"toggle", "load"} /\ m.at = "committed" /\ UNCHANGED <<phone, last, account, messy, taps>>
  BY DEF Listed, counters
<1>2. Fits(m, phone, taps) /\ m \in Messages(m.n) /\ account \in Accounts /\ overtaken \in [Marked -> BOOLEAN]
  BY DEF MarksInv, MarksType, WireInv, Fits
<1>3. ~m.gone
  BY <1>1, <1>2 DEF Fits, Paged
<1>4. PICK x : x = [m EXCEPT !.at = "answered", !.got = account.marks, !.city = account.city]
  OBVIOUS
<1>5. /\ x \in Messages(x.n) /\ x.at = "answered" /\ x.got = account.marks /\ x.city = account.city /\ x.d = m.d
      /\ x.n = m.n /\ x.kind = m.kind /\ x.of = m.of /\ x.val = m.val /\ x.seq = m.seq /\ (x.gone <=> m.gone) /\ (x.first <=> m.first)
  BY <1>2, <1>4 DEF Messages, Accounts
<1>6. Fits(x, phone, taps)
  <2>1. Sound(x)
    BY <1>1, <1>2, <1>5 DEF Fits, Sound
  <2>2. Paged(x, phone)
    BY <1>2, <1>3, <1>5 DEF Fits, Paged
  <2>3. QED
    BY <1>2, <1>5, <2>1, <2>2 DEF Fits
<1>7. PICK X : X = {x}
  OBVIOUS
<1>8. wire' = Without(m) \cup X /\ \A y \in X : y.at = "sent" => y.kind \notin {"toggle", "pick"}
  BY <1>4, <1>5, <1>7 DEF Listed
<1>9. overtaken' = [k \in Marked |-> overtaken[k] \/ (m.d = last[k].by /\ Heard(phone, m, k) /\ Awaited(k))]
  BY DEF Listed
<1>10. /\ overtaken' \in [Marked -> BOOLEAN]
       /\ \A k \in Marked : overtaken'[k] <=> (overtaken[k] \/ (m.d = last[k].by /\ Heard(phone, m, k) /\ Awaited(k)))
  BY <1>2, <1>9
<1>11. MarksType' /\ WireInv'
  BY <1>1, <1>6, <1>7, <1>8, <1>10 DEF MarksInv, MarksType, WireInv, Without
<1>12. \A k \in Marked : Writes(wire', k) = Writes(wire, k) \ {m} /\ m \notin Writes(wire, k)
                         /\ (Awaited(k)' <=> Awaited(k))
  <2>1. \A k : m \notin Writes(wire, k)
    BY <1>1 DEF Writes
  <2>2. QED
    BY <1>1, <1>8, <2>1, WritesLeft
<1>13. \A k \in Marked : last[k].by \in Phones /\ ~messy'[k] /\ ~Awaited(k)' =>
         Says(k, account'.marks, account'.city, last[k].val)
  BY <1>1, <1>12, SaysAsBefore
<1>14. ASSUME NEW k \in Marked, last[k].by \in Phones, ~messy[k], ~overtaken'[k],
              Shows(k, phone, wire, last[k].by, last[k].val)
       PROVE  Shows(k, phone', wire', last[k].by, last[k].val)
  <2>1. ASSUME NEW y \in wire', y.d = last[k].by, y.at = "answered", Heard(phone, y, k)
        PROVE  Says(k, y.got, y.city, last[k].val)
    <3>1. CASE y \in wire
      BY <1>14, <2>1, <3>1 DEF Shows
    <3>2. CASE y = x
      <4>1. Heard(phone, m, k) /\ m.d = last[k].by
        BY <1>5, <2>1, <3>2 DEF Heard
      <4>2. ~Awaited(k)
        BY <1>10, <1>14, <4>1
      <4>3. QED
        BY <1>5, <1>14, <3>2, <4>2, SaysAsBefore
    <3>3. QED
      BY <1>7, <1>8, <2>1, <3>1, <3>2 DEF Without
  <2>2. Says(k, phone[last[k].by].marks, phone[last[k].by].city, last[k].val)
    BY <1>14 DEF Shows
  <2>3. phone' = phone
    BY <1>1
  <2>4. QED
    BY <2>1, <2>2, <2>3 DEF Shows
<1>15. \A k \in Marked : (messy[k] => messy'[k]) /\ (overtaken[k] => overtaken'[k])
  BY <1>1, <1>10
<1>16. \A k \in Marked : \A o \in Writes(wire', k) : \E z \in Writes(wire, k) : o.n = z.n /\ o.val = z.val
  BY <1>12
<1>17. \A k \in Marked : last[k].by \in Phones /\ ~messy'[k] /\ ~overtaken'[k]
           /\ Shows(k, phone, wire, last[k].by, last[k].val) => Shows(k, phone', wire', last[k].by, last[k].val)
  BY <1>1, <1>14
<1>18. QED
  BY <1>1, <1>11, <1>13, <1>15, <1>16, <1>17, Carries

\* The lists that a phone takes over from an answer are those that it tapped nothing on since.
LEMMA AdoptedFacts ==
  ASSUME phone \in [Phones -> PhoneStates], NEW d \in Phones, NEW m, m \in Messages(m.n), NEW ls \in SUBSET Lists
  PROVE  /\ AdoptedMarks(d, m, ls) \in SUBSET Items
         /\ \A k \in Items : k \in AdoptedMarks(d, m, ls) <=>
              IF ListOf[k] \in ls /\ m.seq[ListOf[k]] = phone[d].seq[ListOf[k]] THEN k \in m.got ELSE k \in phone[d].marks
<1>1. m.got \in SUBSET Items /\ phone[d].marks \in SUBSET Items
  BY DEF Messages, PhoneStates
<1>2. \A k : k \in AdoptedMarks(d, m, ls) <=>
        \E l \in Lists : k \in (IF l \in ls /\ Current(d, m, l) THEN OfList(m.got, l) ELSE OfList(phone[d].marks, l))
  BY DEF AdoptedMarks
<1>3. \A k : k \in AdoptedMarks(d, m, ls) <=>
        \E l \in Lists : ListOf[k] = l /\ IF l \in ls /\ m.seq[l] = phone[d].seq[l] THEN k \in m.got ELSE k \in phone[d].marks
  BY <1>2 DEF OfList, Current
<1>4. \A k \in Items : ListOf[k] \in Lists
  BY ItemFacts
<1>5. QED
  BY <1>1, <1>3, <1>4

\* What an answer that arrives says is what the phone shows already of all that stands.
LEMMA AdoptKeeps ==
  ASSUME MarksInv, NEW m \in wire, m.kind \in {"toggle", "load"}, m.at = "answered",
         UNCHANGED <<account, last, messy, overtaken, taps>>, wire' = Without(m),
         NEW ls \in SUBSET Lists, m.kind = "load" \/ ls = {ListOf[m.of]},
         NEW p \in PhoneStates, phone' = [phone EXCEPT ![m.d] = p],
         p.open <=> phone[m.d].open, p.seq = phone[m.d].seq, p.touched <=> phone[m.d].touched,
         p.marks = AdoptedMarks(m.d, m, ls),
         p.city = phone[m.d].city \/ (m.kind = "load" /\ ~phone[m.d].touched /\ p.city = m.city)
  PROVE  MarksInv'
<1>1. /\ Fits(m, phone, taps) /\ m \in Messages(m.n) /\ phone \in [Phones -> PhoneStates] /\ m.d \in Phones
  BY DEF MarksInv, MarksType, WireInv, Fits, Messages
<1>2. ~m.gone
  BY <1>1 DEF Fits, Paged
<1>3. phone' \in [Phones -> PhoneStates] /\ phone'[m.d] = p /\ \A e \in Phones \ {m.d} : phone'[e] = phone[e]
  BY <1>1
<1>4. \A z \in wire : z.d \in Phones /\ Fits(z, phone, taps)
  BY DEF MarksInv, WireInv, Fits, Messages
<1>5. \A k \in Marked : \A z \in wire : Heard(phone', z, k) => Heard(phone, z, k)
  BY <1>3, <1>4 DEF Heard
<1>6. \A k \in Items : k \in p.marks <=>
        IF ListOf[k] \in ls /\ m.seq[ListOf[k]] = phone[m.d].seq[ListOf[k]] THEN k \in m.got ELSE k \in phone[m.d].marks
  BY <1>1, AdoptedFacts
<1>7. ASSUME NEW z \in wire'
      PROVE  Fits(z, phone', taps)
  <2>1. z \in wire
    BY <1>7 DEF Without
  <2>2. \A e \in Phones : (phone'[e].open <=> phone[e].open) /\ phone'[e].seq = phone[e].seq
    BY <1>3
  <2>3. Paged(z, phone')
    BY <1>4, <2>1, <2>2 DEF Fits, Paged
  <2>4. QED
    BY <1>4, <2>1, <2>3 DEF Fits
<1>8. MarksType' /\ WireInv'
  BY <1>3, <1>7 DEF MarksInv, MarksType, WireInv
<1>9. PICK X : X = {}
  OBVIOUS
<1>10. wire' = Without(m) \cup X /\ \A x \in X : x.at = "sent" => x.kind \notin {"toggle", "pick"}
  BY <1>9
<1>11. \A k \in Marked : Writes(wire', k) = Writes(wire, k) \ {m} /\ (Awaited(k)' <=> Awaited(k))
  <2>1. \A k : m \notin Writes(wire, k)
    BY DEF Writes
  <2>2. QED
    BY <1>10, <2>1, WritesLeft
<1>12. \A k \in Marked : last[k].by \in Phones /\ ~messy'[k] /\ ~Awaited(k)' =>
         Says(k, account'.marks, account'.city, last[k].val)
  BY <1>11, SaysAsBefore
<1>13. ASSUME NEW k \in Marked, NEW e \in Phones, NEW v, Shows(k, phone, wire, e, v)
       PROVE  Says(k, phone'[e].marks, phone'[e].city, v)
  <2>0. Says(k, phone[e].marks, phone[e].city, v)
    BY <1>13 DEF Shows
  <2>1. CASE e # m.d
    BY <1>3, <2>0, <2>1
  <2>2. CASE e = m.d /\ k = TheCity
    <3>1. CASE p.city = phone[e].city
      BY <1>3, <2>0, <2>2, <3>1 DEF Says
    <3>2. CASE m.kind = "load" /\ ~phone[m.d].touched /\ p.city = m.city
      <4>1. Heard(phone, m, k)
        BY <1>2, <2>2, <3>2 DEF Heard
      <4>2. Says(k, m.got, m.city, v)
        BY <1>13, <2>2, <4>1 DEF Shows
      <4>3. QED
        BY <1>3, <2>2, <3>2, <4>2 DEF Says
    <3>3. QED
      BY <2>2, <3>1, <3>2
  <2>3. CASE e = m.d /\ k # TheCity
    <3>1. k \in Items
      BY <2>3, ItemFacts
    <3>2. CASE ListOf[k] \in ls /\ m.seq[ListOf[k]] = phone[m.d].seq[ListOf[k]]
      <4>1. m.kind = "load" \/ (m.kind = "toggle" /\ ListOf[m.of] = ListOf[k])
        BY <3>2
      <4>2. Heard(phone, m, k)
        BY <1>2, <2>3, <3>2, <4>1 DEF Heard
      <4>3. Says(k, m.got, m.city, v)
        BY <1>13, <2>3, <4>2 DEF Shows
      <4>4. k \in p.marks <=> k \in m.got
        BY <1>6, <3>1, <3>2
      <4>5. QED
        BY <1>3, <2>3, <4>3, <4>4 DEF Says
    <3>3. CASE ~(ListOf[k] \in ls /\ m.seq[ListOf[k]] = phone[m.d].seq[ListOf[k]])
      <4>1. k \in p.marks <=> k \in phone[m.d].marks
        BY <1>6, <3>1, <3>3
      <4>2. QED
        BY <1>3, <2>0, <2>3, <4>1 DEF Says
    <3>4. QED
      BY <3>2, <3>3
  <2>4. QED
    BY <2>1, <2>2, <2>3
<1>14. ASSUME NEW k \in Marked, last[k].by \in Phones, Shows(k, phone, wire, last[k].by, last[k].val)
       PROVE  Shows(k, phone', wire', last[k].by, last[k].val)
  <2>1. Says(k, phone'[last[k].by].marks, phone'[last[k].by].city, last[k].val)
    BY <1>13, <1>14
  <2>2. \A x \in wire' : x.d = last[k].by /\ x.at = "answered" /\ Heard(phone', x, k)
          => Says(k, x.got, x.city, last[k].val)
    BY <1>5, <1>14 DEF Shows, Without
  <2>3. QED
    BY <2>1, <2>2 DEF Shows
<1>15. \A k \in Marked : \A o \in Writes(wire', k) : \E z \in Writes(wire, k) : o.n = z.n /\ o.val = z.val
  BY <1>11
<1>16. QED
  BY <1>8, <1>12, <1>14, <1>15, Carries

\* The answer to a tap that arrives says what stands.
LEMMA AdoptToggleKeeps ==
  ASSUME MarksInv, NEW m \in wire, AdoptToggle(m)
  PROVE  MarksInv'
<1>1. /\ m.kind = "toggle" /\ m.at = "answered" /\ UNCHANGED <<account, last, messy, overtaken, taps>>
      /\ wire' = Without(m)
  BY DEF AdoptToggle, tapHistory, counters
<1>2. m \in Messages(m.n) /\ Sound(m) /\ phone \in [Phones -> PhoneStates] /\ m.d \in Phones
  BY DEF MarksInv, MarksType, WireInv, Fits, Messages
<1>3. PICK ls : ls = {ListOf[m.of]}
  OBVIOUS
<1>4. ls \in SUBSET Lists
  BY <1>1, <1>2, <1>3, ItemFacts DEF Sound
<1>5. PICK marks : marks = AdoptedMarks(m.d, m, ls)
  OBVIOUS
<1>6. marks \in SUBSET Items
  BY <1>2, <1>4, <1>5, AdoptedFacts
<1>7. PICK p : p = [phone[m.d] EXCEPT !.marks = marks]
  OBVIOUS
<1>8. /\ p \in PhoneStates /\ p.seq = phone[m.d].seq /\ p.marks = marks /\ p.city = phone[m.d].city
      /\ (p.touched <=> phone[m.d].touched) /\ (p.open <=> phone[m.d].open)
  BY <1>2, <1>6, <1>7 DEF PhoneStates
<1>9. phone' = [phone EXCEPT ![m.d] = p]
  BY <1>2, <1>3, <1>5, <1>7 DEF AdoptToggle
<1>10. QED
  BY <1>1, <1>3, <1>4, <1>5, <1>8, <1>9, AdoptKeeps

\* So does the answer to a load, of the hearts, the venues and the city.
LEMMA AdoptLoadKeeps ==
  ASSUME MarksInv, NEW m \in wire, AdoptLoad(m)
  PROVE  MarksInv'
<1>1. /\ m.kind = "load" /\ m.at = "answered" /\ UNCHANGED <<account, last, messy, overtaken, taps>>
      /\ wire' = Without(m)
  BY DEF AdoptLoad, tapHistory, counters
<1>2. m \in Messages(m.n) /\ phone \in [Phones -> PhoneStates] /\ m.d \in Phones /\ phone[m.d] \in PhoneStates
  BY DEF MarksInv, MarksType, WireInv, Fits, Messages
<1>3. Lists \in SUBSET Lists
  OBVIOUS
<1>4. PICK marks : marks = AdoptedMarks(m.d, m, Lists)
  OBVIOUS
<1>5. marks \in SUBSET Items
  BY <1>2, <1>3, <1>4, AdoptedFacts
<1>6. PICK city : city = IF ~phone[m.d].touched /\ m.city # NoCity THEN m.city ELSE phone[m.d].city
  OBVIOUS
<1>7. /\ city \in Cities \cup {NoCity}
      /\ city = phone[m.d].city \/ (~phone[m.d].touched /\ city = m.city)
  BY <1>2, <1>6 DEF Messages, PhoneStates
<1>8. PICK lacking \in BOOLEAN : lacking <=> (phone[m.d].lacking \/ m.city = NoCity)
  OBVIOUS
<1>9. PICK p : p = [phone[m.d] EXCEPT !.marks = marks, !.migrated = TRUE, !.city = city, !.lacking = lacking]
  OBVIOUS
<1>10. /\ p \in PhoneStates /\ p.seq = phone[m.d].seq /\ p.marks = marks /\ p.city = city
       /\ (p.touched <=> phone[m.d].touched) /\ (p.open <=> phone[m.d].open)
  BY <1>2, <1>5, <1>7, <1>8, <1>9 DEF PhoneStates
<1>11. phone' = [phone EXCEPT ![m.d] = p]
  <2>1. phone[m.d].lacking \in BOOLEAN
    BY <1>2 DEF PhoneStates
  <2>2. lacking = (phone[m.d].lacking \/ m.city = NoCity)
    BY <1>8, <2>1
  <2>3. QED
    BY <1>2, <1>4, <1>6, <1>9, <2>2 DEF AdoptLoad
<1>12. p.city = phone[m.d].city \/ (m.kind = "load" /\ ~phone[m.d].touched /\ p.city = m.city)
  BY <1>1, <1>7, <1>10
<1>13. QED
  BY <1>1, <1>3, <1>4, <1>10, <1>11, <1>12, AdoptKeeps

\* A last tap that is lost is unclear; a bootstrap that is lost is asked for again.
LEMMA LoseKeeps ==
  ASSUME MarksInv, NEW m \in wire, Lose(m)
  PROVE  MarksInv'
<1>1. /\ UNCHANGED <<account, phone, last, overtaken, taps>>
      /\ messy' = [k \in Marked |-> messy[k] \/ (m \in Writes(wire, k) /\ m.n = last[k].n)]
  BY DEF Lose
<1>2. /\ account \in Accounts /\ messy \in [Marked -> BOOLEAN] /\ phone \in [Phones -> PhoneStates]
      /\ Fits(m, phone, taps) /\ m.d \in Phones
  BY DEF MarksInv, MarksType, WireInv, Fits, Messages
<1>3. messy' \in [Marked -> BOOLEAN] /\ \A k \in Marked : messy[k] => messy'[k]
  BY <1>1, <1>2
<1>4. PICK X : /\ wire' = Without(m) \cup X
               /\ \A x \in X : Fits(x, phone, taps) /\ x.at = "sent" /\ x.kind = "load"
  <2>1. CASE m.first /\ ~m.gone
    <3>1. PICK r : r = Load(m.d, FALSE, phone[m.d].seq)
      OBVIOUS
    <3>2. phone[m.d].seq \in Counts
      BY <1>2 DEF PhoneStates, Counts
    <3>3. r \in Messages(r.n) /\ AsksLoad(r, m.d, phone[m.d].seq)
      BY <1>2, <3>1, <3>2, LoadType
    <3>4. wire' = Without(m) \cup {r}
      BY <2>1, <3>1 DEF Lose
    <3>5. Sound(r) /\ r.kind = "load" /\ r.at = "sent"
      BY <3>3 DEF AsksLoad, Sound
    <3>6. Paged(r, phone)
      <4>1. m.of # TheCity
        BY <1>2, <2>1 DEF Fits, Sound, TheCity
      <4>2. phone[m.d].open
        BY <1>2, <2>1, <4>1 DEF Fits, Paged
      <4>3. \A l \in Lists : phone[m.d].seq[l] <= phone[m.d].seq[l]
        BY <3>2 DEF Counts
      <4>4. QED
        BY <3>3, <4>2, <4>3 DEF AsksLoad, Paged
    <3>7. Fits(r, phone, taps)
      BY <3>3, <3>5, <3>6 DEF Fits
    <3>8. PICK X : X = {r}
      OBVIOUS
    <3>9. wire' = Without(m) \cup X /\ \A x \in X : Fits(x, phone, taps) /\ x.at = "sent" /\ x.kind = "load"
      BY <3>4, <3>5, <3>7, <3>8
    <3>10. QED
      BY <3>9
  <2>2. CASE ~(m.first /\ ~m.gone)
    <3>1. PICK X : X = {}
      OBVIOUS
    <3>2. wire' = Without(m) \cup X /\ \A x \in X : Fits(x, phone, taps) /\ x.at = "sent" /\ x.kind = "load"
      BY <2>2, <3>1 DEF Lose
    <3>3. QED
      BY <3>2
  <2>3. QED
    BY <2>1, <2>2
<1>5. \A x \in X : Fits(x, phone, taps) /\ x.at # "answered" /\ (x.at = "sent" => x.kind \notin {"toggle", "pick"})
  BY <1>4
<1>6. ASSUME NEW k \in Marked, last[k].by \in Phones, ~messy'[k], ~Awaited(k)'
      PROVE  Says(k, account'.marks, account'.city, last[k].val)
  <2>1. ~messy[k] /\ (m \notin Writes(wire, k) \/ m.n # last[k].n)
    BY <1>1, <1>6
  <2>2. ~Awaited(k)
    BY <1>1, <1>4, <1>5, <1>6, <2>1, WritesLeft
  <2>3. QED
    BY <1>1, <1>6, <2>1, <2>2, SaysAsBefore
<1>7. QED
  BY <1>1, <1>2, <1>3, <1>4, <1>5, <1>6, HandledKeeps

LEMMA MarksInit == AppInit => MarksInv
<1> SUFFICES ASSUME AppInit
             PROVE  MarksInv
  OBVIOUS
<1>1. account \in Accounts
  BY DEF AppInit, Accounts
<1>2. phone \in [Phones -> PhoneStates]
  <2>1. \A d \in Phones : (IF scene = "marks" THEN LeftBehind[d] ELSE {}) \in SUBSET Items
    BY MiniAppAssumption
  <2>2. [l \in Lists |-> 0] \in [Lists -> Nat]
    OBVIOUS
  <2>3. QED
    BY <2>1, <2>2 DEF AppInit, PhoneStates
<1>3. last \in [Marked -> LastTaps] /\ \A k \in Marked : last[k].by \notin Phones
  <2>1. [by |-> "nobody"] \in LastTaps
    BY DEF LastTaps
  <2>2. QED
    BY <2>1, MiniAppAssumption DEF AppInit
<1>4. messy \in [Marked -> BOOLEAN] /\ overtaken \in [Marked -> BOOLEAN] /\ taps \in Nat
  BY DEF AppInit
<1>5. WireInv
  BY DEF AppInit, WireInv
<1>6. QED
  BY <1>1, <1>2, <1>3, <1>4, <1>5 DEF MarksInv, MarksType, Standing

\* No step of the App breaks it.
LEMMA MarksStep ==
  ASSUME MarksInv, [AppNext]_appVars
  PROVE  MarksInv'
<1>1. ASSUME UNCHANGED <<account, phone, wire, last, messy, overtaken>>, taps' \in {taps, taps + 1}
      PROVE  MarksInv'
  <2>1. taps \in Nat /\ taps' \in Nat /\ taps <= taps'
    BY <1>1 DEF MarksInv, MarksType
  <2>2. MarksType'
    BY <1>1, <2>1 DEF MarksInv, MarksType
  <2>3. \A m \in wire : Fits(m, phone, taps')
    BY <2>1 DEF MarksInv, WireInv, Fits
  <2>4. WireInv'
    BY <1>1, <2>3 DEF WireInv
  <2>5. \A k \in Marked : Standing(k)'
    BY <1>1 DEF MarksInv, Standing, Awaited
  <2>6. QED
    BY <2>2, <2>4, <2>5 DEF MarksInv
<1>2. CASE UNCHANGED appVars
  BY <1>1, <1>2 DEF appVars, tapHistory, counters
<1>3. ASSUME NEW d \in Phones, User(d)
      PROVE  MarksInv'
  <2>1. ASSUME NEW i \in Items, Tap(d, i) \/ AcceptInvite(d, i)
        PROVE  MarksInv'
    <3>1. \E on \in BOOLEAN : Mark(d, i, on)
      BY <2>1 DEF Tap, AcceptInvite
    <3>2. QED
      BY <3>1, MarkKeeps
  <2>2. ASSUME NEW c \in Cities, Pick(d, c) \/ SettleCity(d, c)
        PROVE  MarksInv'
    BY <2>2, PickKeeps, SettleKeeps
  <2>3. QED
    BY <1>3, <2>1, <2>2, OpenKeeps, CloseKeeps, SettleKeeps DEF User
<1>4. ASSUME NEW m \in wire, Server(m) \/ Answer(m)
      PROVE  MarksInv'
  BY <1>4, ToggleKeeps, MergeKeeps, ListedKeeps, SetCityKeeps, LookKeeps, SaveKeeps, AdoptToggleKeeps, AdoptLoadKeeps,
     LoseKeeps DEF Server, Answer
<1>5. CASE Screen
  BY <1>1, <1>5, ScreenApart
<1>6. CASE Frame
  BY <1>1, <1>6, FrameApart
<1>7. QED
  BY <1>2, <1>3, <1>4, <1>5, <1>6 DEF AppNext

\* What a user tapped last stands: a heart, a followed venue and the home city are in the
\* account as the last tap left them, once nothing is on its way, in whatever order the
\* requests, lists and loads of any number of phones were handled, lost or answered late -
\* unless the tap was lost, or an older one or a city nobody picked was handled after it;
\* and on the phone, unless an answer read before it came there (toggleFavorite, pickCity,
\* bootstrap).
THEOREM LastTapStands == AppSpec => []TapsStand
<1>1. MarksInv /\ [AppNext]_appVars => MarksInv'
  BY MarksStep
<1>2. MarksInv => TapsStand
  <2> SUFFICES ASSUME MarksInv, wire = {}, NEW k \in Marked, last[k].by \in Phones, ~messy[k]
               PROVE  LET p == phone[last[k].by]
                      IN  /\ IF k = TheCity THEN account.city = last[k].val ELSE (k \in account.marks) = last[k].val
                          /\ ~overtaken[k] =>
                               IF k = TheCity THEN p.city = last[k].val ELSE (k \in p.marks) = last[k].val
    BY DEF TapsStand
  <2>1. PICK p : p = phone[last[k].by]
    OBVIOUS
  <2>2. PICK v : v = last[k].val
    OBVIOUS
  <2>3. ~Awaited(k)
    BY DEF Awaited, Writes
  <2>4. Says(k, account.marks, account.city, v) /\ (~overtaken[k] => Says(k, p.marks, p.city, v))
    BY <2>1, <2>2, <2>3 DEF MarksInv, Standing, Shows
  <2>5. v \in Values(k)
    BY <2>2 DEF MarksInv, MarksType
  <2>6. QED
    BY <2>1, <2>2, <2>4, <2>5 DEF Says, Values
<1>3. QED
  BY MarksInit, <1>1, <1>2, PTL DEF AppSpec

-----------------------------------------------------------------------------
(* Submissions.                                                            *)

\* The rows that a pass reads are approved ones, each once.
LEMMA PassReads ==
  ASSUME NEW S \in SUBSET Subs, NEW n
  PROVE  FirstOf(S, n) \subseteq S
  BY DEF FirstOf

\* What the watch makes of a row is a verdict or nothing.
LEMMA VerdictType == \A row : Verdict(row) \in {"ingested", "failed", "none"}
  BY DEF Verdict

\* A step that leaves the rows, the watch and the history of verdicts and approvals
\* alone keeps the invariant, whatever becomes of requests.
LEMMA Elsewhere ==
  ASSUME IInv, UNCHANGED <<status, watch, approvals, verdicts>>,
         request' \in [Admins -> {Idle} \cup [op : Doing, sub : Subs]]
  PROVE  IInv'
  BY DEF IInv, TypeOK, VerdictPerApproval, Coming

\* A step that gives rows another status, but makes none approved.
LEMMA NoApproval ==
  ASSUME IInv, UNCHANGED <<watch, approvals, verdicts>>,
         status' \in [Subs -> Statuses],
         \A s \in Subs : status'[s] = "approved" => status[s] = "approved",
         request' \in [Admins -> {Idle} \cup [op : Doing, sub : Subs]]
  PROVE  IInv'
  BY DEF IInv, TypeOK, VerdictPerApproval, Coming

\* The form and its checks come before any approval.
LEMMA FormStep ==
  ASSUME IInv, NEW s \in Subs, Suggest(s) \/ Create(s) \/ Pipeline(s)
  PROVE  IInv'
<1>1. CASE Suggest(s)
  BY <1>1, NoApproval DEF Suggest, history, IInv, TypeOK, Statuses, Open
<1>2. CASE Create(s)
  BY <1>2, NoApproval DEF Create, history, IInv, TypeOK, Statuses, Open
<1>3. CASE Pipeline(s)
  BY <1>3, Elsewhere DEF Pipeline, rows, history, IInv, TypeOK
<1>4. QED
  BY <1>1, <1>2, <1>3

\* A decision gives a row at most the approval that its next verdict uses up.
LEMMA ModerationStep ==
  ASSUME IInv, NEW a \in Admins,
         (\E s \in Subs : BeginDecision(a, s)) \/ TakeUp(a) \/ Approve(a) \/ Reject(a)
  PROVE  IInv'
<1>1. ASSUME NEW s \in Subs, BeginDecision(a, s)
      PROVE  IInv'
  BY <1>1, Elsewhere DEF BeginDecision, rows, history, IInv, TypeOK, Doing
<1>2. CASE TakeUp(a)
  <2>1. request[a] \in [op : Doing, sub : Subs]
    BY <1>2 DEF TakeUp, IInv, TypeOK, Idle
  <2>2. request' = [request EXCEPT ![a].op = "written"] /\ UNCHANGED <<rows, watch, history>>
    BY <1>2 DEF TakeUp
  <2>3. QED
    BY <2>1, <2>2, Elsewhere DEF rows, history, IInv, TypeOK, Doing
<1>3. CASE Approve(a)
  <2> DEFINE s == request[a].sub
  <2>1. s \in Subs
    BY <1>3 DEF Approve, IInv, TypeOK, Idle
  <2>2. /\ status' = [status EXCEPT ![s] = "approved"]
        /\ request' = [request EXCEPT ![a] = Idle]
        /\ approvals' = [approvals EXCEPT ![s] = @ + 1]
        /\ UNCHANGED <<watch, verdicts>>
    BY <1>3 DEF Approve, SetStatus
  <2>3. TypeOK'
    BY <2>1, <2>2 DEF IInv, TypeOK, Statuses
  <2>4. /\ approvals'[s] = approvals[s] + 1
        /\ \A t \in Subs \ {s} : approvals'[t] = approvals[t] /\ status'[t] = status[t]
    BY <2>1, <2>2 DEF IInv, TypeOK
  <2>5. \A t \in Subs : verdicts[t] \in Nat /\ approvals[t] \in Nat
    BY DEF IInv, TypeOK
  <2>6. QED
    BY <2>1, <2>2, <2>3, <2>4, <2>5 DEF IInv, VerdictPerApproval, Coming
<1>4. CASE Reject(a)
  <2>1. request[a].sub \in Subs
    BY <1>4 DEF Reject, IInv, TypeOK, Idle
  <2>2. QED
    BY <1>4, <2>1, NoApproval DEF Reject, SetStatus, history, IInv, TypeOK, Statuses
<1>5. QED
  BY <1>1, <1>2, <1>3, <1>4

\* The watch gives a verdict on a row that it has read as approved, once.
LEMMA WatchStep ==
  ASSUME IInv, WatchBegin \/ \E row \in watch : WatchRow(row)
  PROVE  IInv'
<1>1. CASE WatchBegin
  <2>1. /\ watch = {}
        /\ watch' = {[sub |-> s, late |-> age[s] > Backstop] : s \in FirstOf(Awaiting, WatchLimit)}
        /\ UNCHANGED <<status, request, approvals, verdicts>>
    BY <1>1 DEF WatchBegin, rows, history
  <2>2. FirstOf(Awaiting, WatchLimit) \subseteq Awaiting /\ Awaiting \subseteq Subs
    BY PassReads DEF Awaiting
  <2>3. ASSUME NEW s \in Subs, NEW late, late = (age[s] > Backstop)
        PROVE  [sub |-> s, late |-> late] \in [sub : Subs, late : BOOLEAN]
    <3>1. late \in BOOLEAN
      BY <2>3
    <3>2. QED
      BY <3>1
  <2>4. \A row \in watch' : row.sub \in Awaiting /\ row = [sub |-> row.sub, late |-> age[row.sub] > Backstop]
    BY <2>1, <2>2
  <2>5. watch' \subseteq [sub : Subs, late : BOOLEAN]
    BY <2>1, <2>2, <2>3
  <2>6. \A one, other \in watch' : one.sub = other.sub => one = other
    BY <2>4
  <2>7. \A s \in Subs : Coming(s)' => Coming(s)
    BY <2>1, <2>4 DEF Coming, Awaiting
  <2>8. TypeOK' /\ VerdictPerApproval'
    BY <2>1, <2>5 DEF IInv, TypeOK, VerdictPerApproval
  <2>9. QED
    BY <2>1, <2>6, <2>7, <2>8 DEF IInv
<1>2. ASSUME NEW row \in watch, WatchRow(row)
      PROVE  IInv'
  <2> DEFINE s == row.sub
  <2>1. s \in Subs /\ verdicts[s] < approvals[s]
    BY DEF IInv, TypeOK, Coming
  <2>2. watch' = watch \ {row} /\ UNCHANGED <<request, approvals>>
    BY <1>2 DEF WatchRow
  <2>3. CASE Verdict(row) = "none"
    BY <1>2, <2>2, <2>3 DEF WatchRow, IInv, TypeOK, VerdictPerApproval, Coming
  <2>4. CASE Verdict(row) # "none"
    <3>1. /\ status' = [status EXCEPT ![s] = Verdict(row)]
          /\ verdicts' = [verdicts EXCEPT ![s] = @ + 1]
      BY <1>2, <2>4 DEF WatchRow
    <3>2. Verdict(row) \in {"ingested", "failed"}
      BY <2>4, VerdictType
    <3>3. TypeOK'
      BY <2>1, <2>2, <3>1, <3>2 DEF IInv, TypeOK, Statuses
    <3>4. /\ verdicts'[s] = verdicts[s] + 1 /\ status'[s] # "approved"
          /\ \A t \in Subs \ {s} : verdicts'[t] = verdicts[t] /\ status'[t] = status[t]
      BY <2>1, <3>1, <3>2 DEF IInv, TypeOK
    <3>5. \A other \in watch' : other.sub # s
      BY <2>2 DEF IInv
    <3>6. \A t \in Subs : verdicts[t] \in Nat /\ approvals[t] \in Nat
      BY DEF IInv, TypeOK
    <3>7. QED
      BY <2>1, <2>2, <3>3, <3>4, <3>5, <3>6 DEF IInv, VerdictPerApproval, Coming
  <2>5. QED
    BY <2>3, <2>4
<1>3. QED
  BY <1>1, <1>2

\* The days, the fetches and the crashes give none.
LEMMA WorldStep ==
  ASSUME IInv, (\E h \in Handles : Fetch(h) \/ SwitchOff(h)) \/ Day \/ Crash
  PROVE  IInv'
<1>1. ASSUME NEW h \in Handles, Fetch(h) \/ SwitchOff(h)
      PROVE  IInv'
  BY <1>1, Elsewhere DEF Fetch, SwitchOff, rows, history, IInv, TypeOK
<1>2. CASE Day
  BY <1>2, Elsewhere DEF Day, history, IInv, TypeOK
<1>3. CASE Crash
  <2>1. ASSUME NEW a \in Admins, request' = [request EXCEPT ![a] = Idle],
               UNCHANGED <<status, watch, history>>
        PROVE  IInv'
    BY <2>1, Elsewhere DEF history, IInv, TypeOK
  <2>2. CASE watch' = {} /\ UNCHANGED <<status, request, history>>
    BY <2>2 DEF history, IInv, TypeOK, VerdictPerApproval, Coming
  <2>3. ASSUME NEW s \in Checking, status' = [status EXCEPT ![s] = "refused"],
               UNCHANGED <<request, watch, history>>
        PROVE  IInv'
    BY <2>3, NoApproval DEF Checking, history, IInv, TypeOK, Statuses
  <2>4. QED
    BY <1>3, <2>1, <2>2, <2>3 DEF Crash
<1>4. QED
  BY <1>1, <1>2, <1>3

\* The invariant holds in every reachable state.
THEOREM Invariance == Spec => []IInv
<1>1. Init => IInv
  BY DEF Init, IInv, TypeOK, Statuses, VerdictPerApproval, Coming
<1>2. IInv /\ [Next]_vars => IInv'
  <2> SUFFICES ASSUME IInv, [Next]_vars PROVE IInv'
    OBVIOUS
  <2>1. CASE UNCHANGED vars
    BY <2>1, Elsewhere DEF vars, rows, history, IInv, TypeOK
  <2>2. QED
    BY <2>1, FormStep, ModerationStep, WatchStep, WorldStep DEF Next
<1>3. QED
  BY <1>1, <1>2, PTL DEF Spec

\* However many administrators decide on a submission at once, and whatever dies between
\* two transactions of theirs or of the watch, its author is told no more verdicts than
\* approvals were written (admin_moderation.py, submissions_status_watch).
THEOREM VerdictsAnswerApprovals == Spec => []VerdictPerApproval
<1>1. IInv => VerdictPerApproval
  BY DEF IInv
<1>2. QED
  BY <1>1, Invariance, PTL
=============================================================================

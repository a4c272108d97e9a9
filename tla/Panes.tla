------------------------------- MODULE Panes --------------------------------
(***************************************************************************)
(* The fetching effects of the Mini App's panes as one machine.  A pane    *)
(* wants the content of a key; turning to another key, or a refresh, runs  *)
(* the effect again after the cleanup of its last run.  What distinguishes *)
(* the panes is a record of traits, read off each component:               *)
(*   waits    a timer delays the request                                   *)
(*   drops    the cleanup aborts the request, or marks it dead             *)
(*   clears   the old content goes at once, not with the answer            *)
(*   spins    a loading flag                                               *)
(*   flags    a failure raises the error state                             *)
(*   blanks   a failure empties the pane                                   *)
(*   retries  a timeout repeats the request once (getJson)                 *)
(*   stages   requests in a row until the pane is filled                   *)
(*   warms    answers are kept per key and used at once                    *)
(*   empties  wanting nothing empties the pane                             *)
(*   freezes  wanting nothing leaves the pane as it is, out of sight       *)
(*   renews   a refresh exists                                             *)
(***************************************************************************)
EXTENDS Naturals, FiniteSets

Traits == {"waits", "drops", "clears", "spins", "flags", "blanks", "retries",
           "warms", "empties", "freezes", "renews"}
Effect(traits, stages) == [is |-> [t \in Traits |-> t \in traits], stages |-> stages]

Pins       == Effect({"waits", "drops", "spins", "flags", "blanks", "retries", "renews"}, 1)
Clusters   == Effect({"waits", "drops", "blanks", "retries", "warms", "empties", "renews"}, 1)
Search     == Effect({"waits", "drops", "spins", "flags", "blanks", "retries", "empties"}, 1)
Detail     == Effect({"drops", "clears", "retries", "empties"}, 1)
Faces      == Effect({"drops", "clears", "empties"}, 1)
Rings      == Effect({"waits", "drops", "empties"}, 1)
Tastes     == Effect({"drops", "empties"}, 1)
Venue      == Effect({"drops", "clears", "spins", "flags", "retries", "renews"}, 1)
ForYou     == Effect({"drops", "spins", "flags", "blanks", "retries", "renews"}, 1)
Collection == Effect({"drops", "clears", "spins", "flags", "blanks", "retries", "freezes"}, 1)
Friend     == Effect({"drops", "clears", "spins"}, 2)
Saved      == Effect({"spins", "blanks", "empties", "renews"}, 1)
Followed   == Effect({"spins", "flags", "blanks", "retries", "empties", "renews"}, 1)

EffectOf == [pins |-> Pins, clusters |-> Clusters, search |-> Search, detail |-> Detail,
             faces |-> Faces, rings |-> Rings, tastes |-> Tastes, venue |-> Venue,
             forYou |-> ForYou, collection |-> Collection, friend |-> Friend,
             saved |-> Saved, followed |-> Followed]

Nothing == "nothing"
Blank == [key |-> Nothing, nonce |-> 0]
\* shown is the request whose answer is on screen; failed remembers what became of the last.
Unmounted == [want |-> Blank, shown |-> Blank, timer |-> FALSE, flights |-> {}, loading |-> FALSE,
              error |-> FALSE, failed |-> FALSE, warm |-> {}]

\* A request for the screen, or in the background for the store of warm answers.
Flight(w, role) == [want |-> w, role |-> role, stage |-> 1, again |-> FALSE]
OnScreen(p) == {f \in p.flights : f.role = "screen"}
Resting(p) == ~p.timer /\ OnScreen(p) = {}

\* Fault: the cleanup leaves the request of the last run alone.
Uncleaned(x, p, refresh) == p.flights

\* The cleanup of the last run; background requests end with a refresh only.
Cleaned(x, p, refresh) ==
  {f \in p.flights : IF f.role = "screen" THEN ~x.is["drops"] ELSE ~refresh}

Wants(x, p, w, refresh) ==
  LET calm == [p EXCEPT !.want = w, !.flights = Cleaned(x, p, refresh), !.timer = FALSE, !.failed = FALSE,
                        !.error = FALSE, !.warm = IF refresh THEN {} ELSE @]
  IN  IF w.key = Nothing
      THEN IF x.is["empties"] THEN [calm EXCEPT !.shown = Blank, !.loading = FALSE]
                              ELSE [calm EXCEPT !.error = p.error]
      ELSE IF w \in calm.warm THEN [calm EXCEPT !.shown = w]
      ELSE [calm EXCEPT !.loading = x.is["spins"],
                        !.shown = IF x.is["clears"] THEN Blank ELSE @,
                        !.timer = x.is["waits"],
                        !.flights = IF x.is["waits"] THEN @ ELSE @ \cup {Flight(w, "screen")}]

Fired(p) == [p EXCEPT !.timer = FALSE, !.flights = @ \cup {Flight(p.want, "screen")}]

Landed(x, p, f) ==
  LET rest == p.flights \ {f}
      kept == IF x.is["warms"] THEN p.warm \cup {f.want} ELSE p.warm
  IN  IF f.role = "warm" THEN [p EXCEPT !.flights = rest, !.warm = kept]
      ELSE [p EXCEPT !.flights = rest, !.warm = kept, !.shown = f.want, !.loading = FALSE,
                      !.error = FALSE]

\* A pane that shows its first answer as nothing to show until the second one is there.
Advanced(p, f) == [p EXCEPT !.flights = (@ \ {f}) \cup {[f EXCEPT !.stage = @ + 1]}]

Failed(x, p, f) ==
  IF f.role = "warm" THEN [p EXCEPT !.flights = @ \ {f}]
  ELSE [p EXCEPT !.flights = @ \ {f}, !.failed = TRUE, !.loading = FALSE,
                 !.error = x.is["flags"], !.shown = IF x.is["blanks"] THEN Blank ELSE @]

Repeated(p, f) == [p EXCEPT !.flights = (@ \ {f}) \cup {[f EXCEPT !.again = TRUE]}]

\* What is on screen is what is wanted, unless its request
\* failed, and a pane that tells of failures tells of this one; it loads until then.
Honest(x, p) ==
  p.want # Blank =>
    /\ Resting(p) => p.shown = p.want \/ p.failed
    /\ x.is["flags"] => (p.error <=> Resting(p) /\ p.failed)
    /\ p.error /\ x.is["blanks"] => p.shown = Blank
    /\ x.is["spins"] => (p.loading <=> ~Resting(p))
=============================================================================

------------------------------ MODULE MCUpkeep ------------------------------
(***************************************************************************)
(* Small instances of Upkeep.                                              *)
(***************************************************************************)
EXTENDS Upkeep, TLC

CONSTANTS tick, full, spb, channel, sweep, site, spbSite, chan

MCSrc == [f \in Fetchers |-> CASE f = channel -> chan [] f = spb -> spbSite [] OTHER -> site]
MCMode == [f \in Fetchers |-> IF f = full THEN "full" ELSE "tick"]
MCKind == [s \in Sources |-> IF s = chan THEN "telegram" ELSE "yandex"]

\* Posts and the web sources touch nothing in common but the runner: posts come only in a
\* behaviour where the web flows have not run, and where nothing happens to their sources.
WebRests ==
  /\ \A f \in {tick, full, spb} : run[f] = NoRun /\ cursor[Src[f]] = 0 /\ active[Src[f]]
  /\ dead \subseteq Gone \cup {chan} /\ recent = Sources
MCNext == Next /\ (top'[chan] > 0 => WebRests')
MCSpec == Init /\ [][MCNext]_vars /\ Fairness
=============================================================================

---------------------------- MODULE MCIngestion ----------------------------
(***************************************************************************)
(* A small instance of Ingestion: a schedule post and its children, or two *)
(* structured sources of one event, or two posts that compete for the      *)
(* retries.  The three kinds meet in no row, so that a behaviour has the   *)
(* raws of one of them.                                                    *)
(***************************************************************************)
EXTENDS Ingestion, TLC

\* 1 is a schedule post, 2 and 3 are split from it; 4 is of the default city and
\* 5 of another one; 6 is a Timepad entry that tells of the same event as 4; 7 and 8 are
\* posts of one event each.
MCOrigin == [r \in Raws |-> <<"post", "child", "child", "kudago", "kudago_city",
                             "timepad", "post", "post">>[r]]
MCParent == [r \in Raws |-> IF r \in {2, 3} THEN 1 ELSE 0]
MCShow == [r \in Raws |-> IF r \in {4, 6} THEN 4 ELSE r]

\* 4 has no price at first, 6 has another one.
MCQuotes == {<<4, 2>>, <<6, 1>>}

Kind(r) == <<1, 1, 1, 2, 2, 2, 3, 3>>[r]
Apart(r) == \A s \in Raws : hash[s] # 0 => Kind(s) = Kind(r)

\* The posts that compete and the second source are not edited.
MCVersions(r) == IF r \in {6, 7, 8} THEN {1} ELSE 1..MaxVersion

MCNext ==
  \/ \E r \in Raws : \E v \in MCVersions(r) : Apart(r) /\ Fetch(r, v)
  \/ NormalizeStep \/ EnrichStep \/ DedupStep \/ ReprocessStep
  \/ RetryTransient
  \/ Failure

MCSpec == Init /\ [][MCNext]_vars /\ Fairness
=============================================================================

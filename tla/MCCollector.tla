---------------------------- MODULE MCCollector ----------------------------
(* Instances of the collector for TLC. *)
EXTENDS CollectorProperties

CONSTANTS g1, g2

\* Monday 00:00 UTC is minute 0.  Tuesday 22:00 PDT is Wednesday 05:00 UTC.
Tuesday22 == 2 * 1440 + 5 * 60
MCWeekdays == {1, 3, 5}
\* 22:14 and 22:16 are in two window slots; 22:30 is baseline, and floors to
\* the timestamp of the window slot of 22:00.
MCInstants == {Tuesday22 + 14, Tuesday22 + 16, Tuesday22 + 30}
MCOneInstant == {Tuesday22 + 14}

MCGames == {g1, g2}
MCTopLists == {<<g1>>, <<g1, g2>>, <<g1, g1>>}
MCFewLists == {<<g1>>, <<g1, g2>>}
MCLibraries == {{}, {g2}}
MCOneLibrary == {{g2}}
MCForced == {[force |-> TRUE, tier |-> "auto"]}
MCAnyOptions == [force : BOOLEAN, tier : {"auto", "window", "baseline"}]
=============================================================================

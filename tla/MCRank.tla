------------------------------- MODULE MCRank -------------------------------
(* Two writers beside one rank, one game that is small or under one giant,  *)
(* and two command lines: one that hides what falls, one whose ceiling is   *)
(* the minimum of the owned section and whose window ages.                  *)
EXTENDS Rank

CONSTANTS w1, w2, rank

MCProcesses == {w1, w2, rank}
MCMaxStarts == [p \in MCProcesses |-> IF p = w1 THEN 2 ELSE 1]
MCGames == {"game"}
MCReadings == {<<60, 4>>, <<90, 1>>}
MCOrders == {<<"window", FALSE>>, <<"baseline", TRUE>>}
MCConfigs ==
    {[eval_days |-> 2, hide_falling |-> TRUE,
      guards |-> [floor |-> 50, low |-> 2, high |-> {}, samples |-> 2]],
     [eval_days |-> 1, hide_falling |-> FALSE,
      guards |-> [floor |-> 10, low |-> 1, high |-> {1}, samples |-> 1]]}
=============================================================================

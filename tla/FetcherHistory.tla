--------------------------- MODULE FetcherHistory ---------------------------
(***************************************************************************)
(* The fetch path with a history variable: the addresses that no recorded  *)
(* result has ever made sick.                                              *)
(***************************************************************************)
EXTENDS UTLSFetcher

VARIABLE neverSick

historyVars == <<vars, neverSick>>

HistoryInit == Init /\ neverSick = Addresses

HistoryNext == Next /\ neverSick' = neverSick \cap HealthyAddresses'

HistorySpec ==
    HistoryInit /\ [][HistoryNext]_historyVars /\ Fairness

\* Addresses that have always been healthy share the load evenly, whatever
\* sickness and recovery the others went through (getHealthyNext, and its
\* fallback to getNext).
LoadIsBalanced ==
    \A a, b \in neverSick : usageStats[a] - usageStats[b] \in -1 .. 1
=============================================================================

--------------------------- MODULE BreakerHistory ---------------------------
(***************************************************************************)
(* The circuit breaker with history variables: how long ago each health    *)
(* object was last tripped, and which goroutines are about to close one by  *)
(* an opening time that is not that trip's.                                 *)
(***************************************************************************)
EXTENDS CircuitBreaker

VARIABLES
    tripAge,    (* health object -> ticks since it was last tripped          *)
    misled      (* goroutines that saw the opening time of an earlier trip   *)

historyVars == <<vars, tripAge, misled>>

HistoryInit ==
    /\ Init
    /\ tripAge = [o \in Objects |-> LongAgo]
    /\ misled = {}

\* Goroutines that have seen the recovery time of o over, and have yet to say so.
Recovering(o) ==
    {g \in Goroutines : pc[g] \in {"zeroTotal", "zeroFailed", "close"} /\ health[g] = o}

\* The flag of o is stored and its opening time is not.
Unstamped(o) == \E g \in Goroutines : pc[g] = "stamp" /\ health[g] = o

HistoryNext ==
    \/ /\ Tick
       /\ tripAge' = [o \in Objects |-> Older(tripAge[o])]
       /\ UNCHANGED misled
    \/ \E g \in Goroutines :
         \/ /\ Trip(g)
            /\ tripAge' = [tripAge EXCEPT ![health[g]] = 0]
            /\ misled' = misled \cup Recovering(health[g])
         \/ /\ Recover(g)
            /\ misled' = misled \cup {h \in {g} : Unstamped(health[g])}
            /\ UNCHANGED tripAge
         \/ /\ Close(g)
            /\ misled' = misled \ {g}
            /\ UNCHANGED tripAge
         \/ /\ Find(g) \/ Ask(g) \/ Record(g)
            /\ pc[g] \notin {"trip", "close"}
            /\ pc'[g] # "zeroTotal"
            /\ UNCHANGED <<tripAge, misled>>

HistorySpec == HistoryInit /\ [][HistoryNext]_historyVars /\ Fairness

-----------------------------------------------------------------------------
\* A trip holds for the recovery time, as its log line says.  Only a goroutine that
\* read the opening time between the two stores of the trip, or had decided to
\* close the breaker before the trip, closes it sooner (main.go:803-814, 841-847).
TripHolds ==
    [][\A o \in Objects :
         circuitOpen[o] /\ ~circuitOpen'[o] =>
             \/ Recovered(tripAge[o])
             \/ Recovering(o) \cap misled # {}]_historyVars
=============================================================================

---------------------------- MODULE FetchService ----------------------------
(***************************************************************************)
(* What the fetcher promises its callers, without addresses, statistics or *)
(* a network: requests are served in the order they arrived, as many at a  *)
(* time as there are workers and never fewer while any waits, and each is  *)
(* answered at most once.                                                  *)
(***************************************************************************)
EXTENDS Integers, FiniteSets

CONSTANT Concurrency    (* number of workers *)

VARIABLES
    arrived,    (* requests made so far: they are numbered 1 .. arrived *)
    answered    (* the ones that have their answer                      *)

serviceVars == <<arrived, answered>>

\* Work conservation: the requests that have reached a worker are the first
\* ones, as many as were answered and one more for each worker.
Started ==
    LET reach == Cardinality(answered) + Concurrency
    IN  1 .. (IF arrived < reach THEN arrived ELSE reach)

InService == Started \ answered

ServiceInit ==
    /\ arrived = 0
    /\ answered = {}

Arrive ==
    /\ arrived' = arrived + 1
    /\ UNCHANGED answered

Answer ==
    \E r \in InService :
        /\ answered' = answered \cup {r}
        /\ UNCHANGED arrived

ServiceNext == Arrive \/ Answer

ServiceSpec == ServiceInit /\ [][ServiceNext]_serviceVars
=============================================================================

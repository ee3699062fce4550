------------------------------ MODULE IPv6Pool ------------------------------
(***************************************************************************)
(* The address pool of a node (server/ipv6-pool.ts).  The Node event loop  *)
(* runs each of its methods without interruption, so each is one step.     *)
(*                                                                         *)
(* Usage is counted when an address is handed out, results are counted     *)
(* when the request that held it completes: everything in between is the   *)
(* state of the caller (UTLSFetcher).                                      *)
(***************************************************************************)
EXTENDS Integers

CONSTANTS
    Count,      (* number of addresses in the pool; 0 on a node without IPv6 *)
    Trial,      (* results an address may have before it is judged (20)      *)
    FailPct,    (* an address failing in this many percent is sick (30)      *)
    MaxAvgRT,   (* an address answering in this time on average is sick      *)
    NoAddress   (* what the pool hands out when it is empty (null)           *)

ASSUME PoolAssumption ==
    /\ Count \in Nat
    /\ Trial \in Nat \ {0}
    /\ FailPct \in 0 .. 100
    /\ MaxAvgRT \in Nat
    /\ NoAddress \notin 1 .. Count

Addresses == 1 .. Count

VARIABLES
    currentIndex,   (* the address getNext hands out next                    *)
    usageStats,     (* address -> times it was handed out                    *)
    detailedStats   (* address -> results recorded for it                    *)

poolVars == <<currentIndex, usageStats, detailedStats>>

\* minResponseTime, maxResponseTime and lastUsedAt are only displayed.
IPv6Stats ==
    [success : Nat, failure : Nat, responseTime : Nat]

PoolTypeOK ==
    /\ Count > 0 => currentIndex \in Addresses
    /\ usageStats \in [Addresses -> Nat]
    /\ detailedStats \in [Addresses -> IPv6Stats]

PoolInit ==
    /\ currentIndex = 1
    /\ usageStats = [a \in Addresses |-> 0]
    /\ detailedStats =
         [a \in Addresses |-> [success |-> 0, failure |-> 0, responseTime |-> 0]]

-----------------------------------------------------------------------------
\* totalRequests of an address; recordRequest keeps it the sum of the two.
TotalRequests(a) == detailedStats[a].success + detailedStats[a].failure

\* An address is healthy while it is new, or while it fails seldom and answers
\* fast on average.  The averages are those of its whole life.
Healthy(a) ==
    \/ TotalRequests(a) < Trial
    \/ /\ 100 * detailedStats[a].failure < FailPct * TotalRequests(a)
       /\ detailedStats[a].responseTime < MaxAvgRT * TotalRequests(a)

HealthyAddresses == {a \in Addresses : Healthy(a)}

\* The scan keeps the first address with strictly smaller usage.
LeastUsed(S, a) ==
    /\ a \in S
    /\ \A b \in S : \/ usageStats[a] < usageStats[b]
                    \/ usageStats[a] = usageStats[b] /\ a <= b

CountUse(a) == usageStats' = [usageStats EXCEPT ![a] = @ + 1]

GetNext(a) ==
    /\ a = currentIndex
    /\ currentIndex' = (currentIndex % Count) + 1
    /\ CountUse(a)
    /\ UNCHANGED detailedStats

\* Mutation of GetHealthyNext: in turn, a sick address giving way to the next.
InTurn(a, b) == (b - a) % Count

HealthyInTurn(a) ==
    /\ Count > 0
    /\ HealthyAddresses # {}
    /\ a \in HealthyAddresses
    /\ \A b \in HealthyAddresses : InTurn(currentIndex, a) <= InTurn(currentIndex, b)
    /\ currentIndex' = (currentIndex % Count) + 1
    /\ CountUse(a)
    /\ UNCHANGED detailedStats

\* Hands out a healthy address, or the next one in turn when none is healthy.
GetHealthyNext(a) ==
    \/ /\ Count = 0
       /\ a = NoAddress
       /\ UNCHANGED poolVars
    \/ /\ Count > 0
       /\ HealthyAddresses = {}
       /\ GetNext(a)
    \/ /\ HealthyAddresses # {}
       /\ LeastUsed(HealthyAddresses, a)
       /\ CountUse(a)
       /\ UNCHANGED <<currentIndex, detailedStats>>

\* Mutation of Recorded: a failed request is not recorded.
RecordedIfSuccess(a, success, duration) ==
    IF a \notin Addresses \/ ~success THEN detailedStats
    ELSE [detailedStats EXCEPT ![a].success = @ + 1]

\* detailedStats after the result of a request that held address a; a result
\* for no address, or for one that is not in the pool, is dropped.
Recorded(a, success, duration) ==
    IF a \notin Addresses THEN detailedStats
    ELSE [detailedStats EXCEPT ![a] =
            [success |-> @.success + (IF success THEN 1 ELSE 0),
             failure |-> @.failure + (IF success THEN 0 ELSE 1),
             responseTime |-> @.responseTime + duration]]

RecordRequest(a, success, duration) ==
    /\ detailedStats' = Recorded(a, success, duration)
    /\ UNCHANGED <<currentIndex, usageStats>>
=============================================================================

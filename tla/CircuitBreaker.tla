--------------------------- MODULE CircuitBreaker ---------------------------
(***************************************************************************)
(* The circuit breaker of one IPv6 address in the uTLS proxy               *)
(* (utls-proxy/main.go: getOrCreateIPv6Health, isCircuitOpen,              *)
(* recordRequestResult).  Each handler goroutine asks the breaker, sends   *)
(* its request, and records the result.                                    *)
(*                                                                         *)
(* The counters and the flag are separate atomics, the opening time is     *)
(* behind a mutex of its own, and the map entry is loaded and stored, not  *)
(* LoadOrStore'd: a step here is one such access, and steps of different   *)
(* goroutines interleave freely.                                           *)
(***************************************************************************)
EXTENDS Integers, FiniteSets

CONSTANTS
    Goroutines,     (* handler goroutines; each serves request after request *)
    Window,         (* circuitBreakerWindow: results before it may trip      *)
    ThresholdPct,   (* circuitBreakerThreshold, in percent                   *)
    Recovery,       (* circuitRecoveryTime, in ticks                         *)
    MaxTotal,       (* bound: no request starts above this many results      *)
    Nil

ASSUME BreakerAssumption ==
    /\ IsFiniteSet(Goroutines)
    /\ Window \in Nat \ {0}
    /\ ThresholdPct \in 0 .. 100
    /\ Recovery \in Nat
    /\ MaxTotal \in Nat
    /\ Nil \notin Goroutines

VARIABLES
    ipv6Health,      (* the map's entry: a health object, or Nil             *)
    totalRequests,   (* health object -> counter                             *)
    failedRequests,  (* health object -> counter                             *)
    circuitOpen,     (* health object -> flag                                *)
    openAge,         (* health object -> ticks since circuitOpenAt           *)
    pc,              (* goroutine -> the access it makes next                *)
    health,          (* goroutine -> the object it works on                  *)
    seenTotal,       (* goroutine -> the total it read                       *)
    seenFailed       (* goroutine -> the failures it read                    *)

objectVars == <<totalRequests, failedRequests, circuitOpen, openAge>>
localVars == <<health, seenTotal, seenFailed>>
vars == <<ipv6Health, objectVars, pc, localVars>>

\* A goroutine creates at most one health object: it bears the goroutine's name.
Objects == Goroutines

\* Ages are counted up to the first that is past the recovery time; the zero
\* time of a fresh object is that old.
LongAgo == Recovery + 1
Ages == 0 .. LongAgo
Older(age) == IF age < LongAgo THEN age + 1 ELSE LongAgo

\* isCircuitOpen, the request itself, and recordRequestResult.
Locations == {"idle", "create", "checkOpen", "readOpenAt", "zeroTotal",
              "zeroFailed", "close", "request", "countTotal", "countFailed",
              "loadTotal", "loadFailed", "judge", "trip", "stamp"}

TypeOK ==
    /\ ipv6Health \in Objects \cup {Nil}
    /\ totalRequests \in [Objects -> Nat]
    /\ failedRequests \in [Objects -> Nat]
    /\ circuitOpen \in [Objects -> BOOLEAN]
    /\ openAge \in [Objects -> Ages]
    /\ pc \in [Goroutines -> Locations]
    /\ health \in [Goroutines -> Objects \cup {Nil}]
    /\ seenTotal \in [Goroutines -> Nat]
    /\ seenFailed \in [Goroutines -> Nat]

Init ==
    /\ ipv6Health = Nil
    /\ totalRequests = [o \in Objects |-> 0]
    /\ failedRequests = [o \in Objects |-> 0]
    /\ circuitOpen = [o \in Objects |-> FALSE]
    /\ openAge = [o \in Objects |-> LongAgo]
    /\ pc = [g \in Goroutines |-> "idle"]
    /\ health = [g \in Goroutines |-> Nil]
    /\ seenTotal = [g \in Goroutines |-> 0]
    /\ seenFailed = [g \in Goroutines |-> 0]

-----------------------------------------------------------------------------
Goto(g, from, to) == pc[g] = from /\ pc' = [pc EXCEPT ![g] = to]

\* What a goroutine remembers of a call is dropped when the call returns.
Forget(g) ==
    /\ health' = [health EXCEPT ![g] = Nil]
    /\ seenTotal' = [seenTotal EXCEPT ![g] = 0]
    /\ seenFailed' = [seenFailed EXCEPT ![g] = 0]

\* ipv6HealthMap.Load, at the start of a request.  The bound stops requests to
\* an address with many results, but none to an address whose breaker is open.
Find(g) ==
    /\ ipv6Health # Nil =>
         totalRequests[ipv6Health] < MaxTotal \/ circuitOpen[ipv6Health]
    /\ \/ ipv6Health # Nil /\ Goto(g, "idle", "checkOpen")
       \/ ipv6Health = Nil /\ Goto(g, "idle", "create")
    /\ health' = [health EXCEPT ![g] = ipv6Health]
    /\ UNCHANGED <<ipv6Health, objectVars, seenTotal, seenFailed>>

\* ipv6HealthMap.Store of a fresh object, whatever the map holds by now.
Create(g) ==
    /\ Goto(g, "create", "checkOpen")
    /\ ipv6Health' = g
    /\ health' = [health EXCEPT ![g] = g]
    /\ UNCHANGED <<objectVars, seenTotal, seenFailed>>

CheckOpen(g) ==
    /\ \/ Goto(g, "checkOpen", "readOpenAt") /\ circuitOpen[health[g]]
       \/ Goto(g, "checkOpen", "request") /\ ~circuitOpen[health[g]]
    /\ UNCHANGED <<ipv6Health, objectVars, localVars>>

Recovered(age) == age > Recovery

\* The breaker is open and the recovery time, by the opening time as it was
\* read, is not over: 503.
Refuse(g) ==
    /\ Goto(g, "readOpenAt", "idle")
    /\ ~Recovered(openAge[health[g]])
    /\ Forget(g)
    /\ UNCHANGED <<ipv6Health, objectVars>>

\* Mutation of Recover: a breaker that is open is closed by the next request.
RecoverAtOnce(g) ==
    /\ Goto(g, "readOpenAt", "zeroTotal")
    /\ UNCHANGED <<ipv6Health, objectVars, localVars>>

\* The recovery time is over: three stores let the address try again.
Recover(g) ==
    /\ Goto(g, "readOpenAt", "zeroTotal")
    /\ Recovered(openAge[health[g]])
    /\ UNCHANGED <<ipv6Health, objectVars, localVars>>

ZeroTotal(g) ==
    /\ Goto(g, "zeroTotal", "zeroFailed")
    /\ totalRequests' = [totalRequests EXCEPT ![health[g]] = 0]
    /\ UNCHANGED <<ipv6Health, failedRequests, circuitOpen, openAge, localVars>>

\* Mutation of ZeroFailed: the failures are taken back, not cleared.
SubtractWindow(g) ==
    /\ Goto(g, "zeroFailed", "close")
    /\ failedRequests' = [failedRequests EXCEPT ![health[g]] = @ - Window]
    /\ UNCHANGED <<ipv6Health, totalRequests, circuitOpen, openAge, localVars>>

\* Mutation of ZeroFailed: the failures are kept.
KeepFailed(g) ==
    /\ Goto(g, "zeroFailed", "close")
    /\ UNCHANGED <<ipv6Health, objectVars, localVars>>

ZeroFailed(g) ==
    /\ Goto(g, "zeroFailed", "close")
    /\ failedRequests' = [failedRequests EXCEPT ![health[g]] = 0]
    /\ UNCHANGED <<ipv6Health, totalRequests, circuitOpen, openAge, localVars>>

\* Mutation of Close: the counters were reset, the flag is not.
StayOpen(g) ==
    /\ Goto(g, "close", "request")
    /\ UNCHANGED <<ipv6Health, objectVars, localVars>>

Close(g) ==
    /\ Goto(g, "close", "request")
    /\ circuitOpen' = [circuitOpen EXCEPT ![health[g]] = FALSE]
    /\ UNCHANGED <<ipv6Health, totalRequests, failedRequests, openAge, localVars>>

-----------------------------------------------------------------------------
\* The handler ends without a result to record: it has no client, could not
\* make a request of the URL, or panicked.
EndUnrecorded(g) ==
    /\ Goto(g, "request", "idle")
    /\ Forget(g)
    /\ UNCHANGED <<ipv6Health, objectVars>>

\* The request is over: recordRequestResult looks the object up again.
Lookup(g) ==
    /\ Goto(g, "request", "countTotal")
    /\ health' = [health EXCEPT ![g] = ipv6Health]
    /\ UNCHANGED <<ipv6Health, objectVars, seenTotal, seenFailed>>

CountTotal(g, success) ==
    /\ \/ success /\ Goto(g, "countTotal", "loadTotal")
       \/ ~success /\ Goto(g, "countTotal", "countFailed")
    /\ totalRequests' = [totalRequests EXCEPT ![health[g]] = @ + 1]
    /\ UNCHANGED <<ipv6Health, failedRequests, circuitOpen, openAge, localVars>>

CountFailed(g) ==
    /\ Goto(g, "countFailed", "loadTotal")
    /\ failedRequests' = [failedRequests EXCEPT ![health[g]] = @ + 1]
    /\ UNCHANGED <<ipv6Health, totalRequests, circuitOpen, openAge, localVars>>

LoadTotal(g) ==
    /\ Goto(g, "loadTotal", "loadFailed")
    /\ seenTotal' = [seenTotal EXCEPT ![g] = totalRequests[health[g]]]
    /\ UNCHANGED <<ipv6Health, objectVars, health, seenFailed>>

LoadFailed(g) ==
    /\ Goto(g, "loadFailed", "judge")
    /\ seenFailed' = [seenFailed EXCEPT ![g] = failedRequests[health[g]]]
    /\ UNCHANGED <<ipv6Health, objectVars, health, seenTotal>>

\* Enough results, too many of them failures, by the counters as they were read.
TooManyFailures(total, failed) ==
    total >= Window /\ 100 * failed > ThresholdPct * total

\* The failure rate is in order, or the breaker is open already.
Accept(g) ==
    /\ Goto(g, "judge", "idle")
    /\ \/ ~TooManyFailures(seenTotal[g], seenFailed[g])
       \/ circuitOpen[health[g]]
    /\ Forget(g)
    /\ UNCHANGED <<ipv6Health, objectVars>>

Condemn(g) ==
    /\ Goto(g, "judge", "trip")
    /\ TooManyFailures(seenTotal[g], seenFailed[g])
    /\ ~circuitOpen[health[g]]
    /\ UNCHANGED <<ipv6Health, objectVars, localVars>>

\* The flag is stored first, the opening time after it.
Trip(g) ==
    /\ Goto(g, "trip", "stamp")
    /\ circuitOpen' = [circuitOpen EXCEPT ![health[g]] = TRUE]
    /\ UNCHANGED <<ipv6Health, totalRequests, failedRequests, openAge, localVars>>

Stamp(g) ==
    /\ Goto(g, "stamp", "idle")
    /\ openAge' = [openAge EXCEPT ![health[g]] = 0]
    /\ Forget(g)
    /\ UNCHANGED <<ipv6Health, totalRequests, failedRequests, circuitOpen>>

Tick ==
    /\ openAge' = [o \in Objects |-> Older(openAge[o])]
    /\ UNCHANGED <<ipv6Health, totalRequests, failedRequests, circuitOpen, pc,
                   localVars>>

-----------------------------------------------------------------------------
Ask(g) == \/ Create(g) \/ CheckOpen(g) \/ Refuse(g)
          \/ Recover(g) \/ ZeroTotal(g) \/ ZeroFailed(g) \/ Close(g)

Record(g) == \/ EndUnrecorded(g) \/ Lookup(g) \/ (\E success \in BOOLEAN : CountTotal(g, success))
             \/ CountFailed(g) \/ LoadTotal(g) \/ LoadFailed(g)
             \/ Accept(g) \/ Condemn(g) \/ Trip(g) \/ Stamp(g)

Next == Tick \/ \E g \in Goroutines : Find(g) \/ Ask(g) \/ Record(g)

\* The scheduler runs every goroutine, a request ends (it has a timeout), time
\* passes, and requests for the address keep arriving.
Fairness ==
    /\ WF_vars(Tick)
    /\ \A g \in Goroutines : WF_vars(Find(g) \/ Ask(g) \/ Record(g))

Spec == Init /\ [][Next]_vars /\ Fairness

-----------------------------------------------------------------------------
\* The two counters may disagree: a result that straddles a reset is counted in
\* one of them only.  The error does not grow: while no goroutine is between the
\* two stores of a reset, the failures exceed the total by less than the number
\* of goroutines (main.go:808-810 against 823-826).
DriftIsBounded ==
    \A o \in Objects :
        (\A g \in Goroutines : ~(pc[g] = "zeroFailed" /\ health[g] = o)) =>
            failedRequests[o] - totalRequests[o] < Cardinality(Goroutines)

\* A breaker that is open closes again, as long as requests keep arriving.
BreakerCloses ==
    \A o \in Objects :
        circuitOpen[o] /\ ipv6Health = o ~> ~circuitOpen[o] \/ ipv6Health # o
=============================================================================

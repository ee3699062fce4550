------------------------ MODULE BreakerHistory_proof ------------------------
(***************************************************************************)
(* Proofs about the circuit breaker, for any number of goroutines, any      *)
(* window, threshold and recovery time, and any bound on results: the       *)
(* counters' error stays below the number of goroutines, and a trip holds   *)
(* for the recovery time.  Then about the fingerprint of an address, for    *)
(* any number of handler goroutines and fingerprints: an address is one     *)
(* browser.                                                                 *)
(***************************************************************************)
EXTENDS BreakerHistory, IdentityHistory, FiniteSetTheorems, TLAPS

\* A goroutine at work has a health object, and the map an entry.
AtWork ==
    \A g \in Goroutines :
        pc[g] \notin {"idle", "create"} => health[g] \in Objects /\ ipv6Health \in Objects

\* Failures counted in the total and not yet among the failures.
Owed(o) == {g \in Goroutines : pc[g] = "countFailed" /\ health[g] = o}

Zeroing(o) == \E g \in Goroutines : pc[g] = "zeroFailed" /\ health[g] = o

\* What the failures exceed the total by, with those owed, is below the number of
\* goroutines: a reset that ends at no failures leaves at most the others owing.
Drift ==
    \A o \in Objects :
        ~Zeroing(o) =>
            failedRequests[o] - totalRequests[o] + Cardinality(Owed(o))
                < Cardinality(Goroutines)

HistoryTypeOK == TypeOK /\ tripAge \in [Objects -> Ages]

\* The opening time is that of the last trip, or of a later one, once stamped.
Stamped == \A o \in Objects : ~Unstamped(o) => openAge[o] <= tripAge[o]

\* Who is about to close a breaker does so in time, or was misled.
Entitled ==
    \A o \in Objects : \A g \in Recovering(o) : Recovered(tripAge[o]) \/ g \in misled

IInv == HistoryTypeOK /\ AtWork /\ Drift /\ Stamped /\ Entitled

-----------------------------------------------------------------------------
LEMMA InitIInv == HistoryInit => IInv
  <1>. SUFFICES ASSUME HistoryInit PROVE IInv
    OBVIOUS
  <1>. USE BreakerAssumption DEF HistoryInit, Init
  <1>1. LongAgo \in Ages
    BY DEF LongAgo, Ages
  <1>2. HistoryTypeOK
    BY <1>1 DEF HistoryTypeOK, TypeOK, Locations
  <1>3. AtWork /\ Stamped /\ Entitled
    BY <1>1 DEF AtWork, Stamped, Entitled, Recovering, Ages, LongAgo
  <1>4. Drift
    <2>. SUFFICES ASSUME NEW o \in Objects
         PROVE failedRequests[o] - totalRequests[o] + Cardinality(Owed(o))
                 < Cardinality(Goroutines)
      BY DEF Drift
    <2>1. Owed(o) = {}
      BY DEF Owed
    <2>2. Cardinality(Owed(o)) = 0
      BY <2>1, FS_EmptySet
    <2>3. Cardinality(Goroutines) \in Nat /\ Cardinality(Goroutines) # 0
      BY FS_EmptySet, FS_CardinalityType DEF Objects
    <2>. QED BY <2>2, <2>3
  <1>. QED BY <1>2, <1>3, <1>4 DEF IInv

\* A step of one goroutine leaves the others where they are.
LEMMA OthersStay ==
  ASSUME TypeOK, NEW g \in Goroutines, Find(g) \/ Ask(g) \/ Record(g),
         NEW h \in Goroutines, h # g
  PROVE  pc'[h] = pc[h] /\ health'[h] = health[h]
  BY DEF TypeOK, Find, Ask, Record, Create, CheckOpen, Refuse, EndUnrecorded, Recover, ZeroTotal, ZeroFailed,
         Close, Lookup, CountTotal, CountFailed, LoadTotal, LoadFailed, Accept, Condemn, Trip,
         Stamp, Goto, Forget, localVars

\* With history or without, a step is a step of the breaker.
LEMMA HistoryStep == HistoryNext => Next
  BY DEF HistoryNext, Next, Ask, Record

-----------------------------------------------------------------------------
\* Types.
LEMMA OlderType == ASSUME NEW a \in Ages PROVE Older(a) \in Ages /\ a <= Older(a)
  BY BreakerAssumption DEF Ages, LongAgo, Older

LEMMA TypeStep ==
  ASSUME TypeOK, AtWork, Next
  PROVE  TypeOK' /\ AtWork'
  <1>. USE DEF TypeOK, Objects
  <1>1. CASE Tick
    <2>1. openAge' \in [Objects -> Ages]
      BY <1>1, OlderType DEF Tick
    <2>. QED BY <1>1, <2>1 DEF Tick, AtWork, localVars
  <1>2. ASSUME NEW g \in Goroutines, Find(g) \/ Ask(g) \/ Record(g)
        PROVE  TypeOK' /\ AtWork'
    <2>. USE DEF AtWork, Goto, Forget, Locations, objectVars, localVars
    <2>1. CASE Find(g) BY <2>1 DEF Find
    <2>2. CASE Create(g) BY <2>2 DEF Create
    <2>3. CASE CheckOpen(g) BY <2>3 DEF CheckOpen
    <2>4. CASE Refuse(g) \/ EndUnrecorded(g) BY <2>4 DEF Refuse, EndUnrecorded
    <2>5. CASE Recover(g) BY <2>5 DEF Recover
    <2>6. CASE ZeroTotal(g) BY <2>6 DEF ZeroTotal
    <2>7. CASE ZeroFailed(g) BY <2>7 DEF ZeroFailed
    <2>8. CASE Close(g) BY <2>8 DEF Close
    <2>9. CASE Lookup(g) BY <2>9 DEF Lookup
    <2>10. ASSUME NEW success \in BOOLEAN, CountTotal(g, success) PROVE TypeOK' /\ AtWork'
      <3>1. totalRequests[health[g]] + 1 \in Nat BY <2>10 DEF CountTotal
      <3>. QED BY <2>10, <3>1 DEF CountTotal
    <2>11. CASE CountFailed(g)
      <3>1. failedRequests[health[g]] + 1 \in Nat BY <2>11 DEF CountFailed
      <3>. QED BY <2>11, <3>1 DEF CountFailed
    <2>12. CASE LoadTotal(g) BY <2>12 DEF LoadTotal
    <2>13. CASE LoadFailed(g) BY <2>13 DEF LoadFailed
    <2>14. CASE Accept(g) BY <2>14 DEF Accept
    <2>15. CASE Condemn(g) BY <2>15 DEF Condemn
    <2>16. CASE Trip(g) BY <2>16 DEF Trip
    <2>17. CASE Stamp(g)
      <3>1. 0 \in Ages BY BreakerAssumption DEF Ages, LongAgo
      <3>. QED BY <2>17, <3>1 DEF Stamp
    <2>. QED BY <1>2, <2>1, <2>2, <2>3, <2>4, <2>5, <2>6, <2>7, <2>8, <2>9, <2>10, <2>11, <2>12,
                <2>13, <2>14, <2>15, <2>16, <2>17 DEF Ask, Record
  <1>. QED BY <1>1, <1>2 DEF Next

-----------------------------------------------------------------------------
\* Drift.
LEMMA OwedCardinality ==
  ASSUME NEW o
  PROVE  /\ IsFiniteSet(Owed(o)) /\ Cardinality(Owed(o)) \in Nat
         /\ Cardinality(Goroutines) \in Nat
         /\ \A g \in Goroutines : g \notin Owed(o) =>
              /\ Cardinality(Owed(o)) < Cardinality(Goroutines)
              /\ Cardinality(Owed(o) \cup {g}) = Cardinality(Owed(o)) + 1
         /\ \A g \in Owed(o) : Cardinality(Owed(o) \ {g}) = Cardinality(Owed(o)) - 1
  <1>1. Owed(o) \in SUBSET Goroutines
    BY DEF Owed
  <1>2. IsFiniteSet(Owed(o)) /\ Cardinality(Owed(o)) <= Cardinality(Goroutines)
        /\ (Cardinality(Goroutines) = Cardinality(Owed(o)) => Goroutines = Owed(o))
    BY <1>1, BreakerAssumption, FS_Subset
  <1>3. Cardinality(Owed(o)) \in Nat /\ Cardinality(Goroutines) \in Nat
    BY <1>2, BreakerAssumption, FS_CardinalityType
  <1>4. ASSUME NEW g \in Goroutines, g \notin Owed(o)
        PROVE  Cardinality(Owed(o) \cup {g}) = Cardinality(Owed(o)) + 1
    BY <1>2, <1>4, FS_AddElement
  <1>5. ASSUME NEW g \in Owed(o)
        PROVE  Cardinality(Owed(o) \ {g}) = Cardinality(Owed(o)) - 1
    BY <1>2, FS_RemoveElement
  <1>6. ASSUME NEW g \in Goroutines, g \notin Owed(o)
        PROVE  Cardinality(Owed(o)) < Cardinality(Goroutines)
    <2>1. Goroutines # Owed(o) BY <1>6
    <2>. QED BY <1>2, <1>3, <2>1
  <1>. QED BY <1>2, <1>3, <1>4, <1>5, <1>6

\* The same for the state after a step.
LEMMA OwedCardinalityNext ==
  ASSUME NEW o, NEW g \in Goroutines, g \notin Owed(o)'
  PROVE  Cardinality(Owed(o))' \in Nat /\ Cardinality(Owed(o))' < Cardinality(Goroutines)
  <1>1. Owed(o)' \in SUBSET Goroutines
    BY DEF Owed
  <1>2. IsFiniteSet(Owed(o)') /\ Cardinality(Owed(o)') <= Cardinality(Goroutines)
        /\ (Cardinality(Goroutines) = Cardinality(Owed(o)') => Goroutines = Owed(o)')
    BY <1>1, BreakerAssumption, FS_Subset
  <1>3. Cardinality(Owed(o)') \in Nat /\ Cardinality(Goroutines) \in Nat
    BY <1>2, BreakerAssumption, FS_CardinalityType
  <1>4. Goroutines # Owed(o)' OBVIOUS
  <1>. QED BY <1>2, <1>3, <1>4

\* A step that touches neither counter nor who owes and resets keeps the drift.
LEMMA QuietDrift ==
  ASSUME NEW o \in Objects, Drift, ~Zeroing(o),
         failedRequests'[o] = failedRequests[o], totalRequests'[o] = totalRequests[o],
         Owed(o)' = Owed(o)
  PROVE  (failedRequests[o] - totalRequests[o] + Cardinality(Owed(o))
            < Cardinality(Goroutines))'
  BY DEF Drift

LEMMA DriftStep ==
  ASSUME TypeOK, AtWork, Drift, Next
  PROVE  Drift'
  <1>. SUFFICES ASSUME NEW o \in Objects, ~Zeroing(o)'
       PROVE (failedRequests[o] - totalRequests[o] + Cardinality(Owed(o))
                < Cardinality(Goroutines))'
    BY DEF Drift
  <1>1. CASE Tick
    <2>1. Owed(o)' = Owed(o) /\ ~Zeroing(o)
      BY <1>1 DEF Tick, localVars, Owed, Zeroing
    <2>. QED BY <1>1, <2>1, QuietDrift DEF Tick
  <1>2. ASSUME NEW g \in Goroutines, Find(g) \/ Ask(g) \/ Record(g)
        PROVE (failedRequests[o] - totalRequests[o] + Cardinality(Owed(o))
                 < Cardinality(Goroutines))'
    <2>0. \A h \in Goroutines : h # g => pc'[h] = pc[h] /\ health'[h] = health[h]
      BY <1>2, OthersStay
    <2>1. CASE pc[g] # "zeroFailed" /\ failedRequests'[o] = failedRequests[o]
               /\ totalRequests'[o] = totalRequests[o] /\ (g \in Owed(o) <=> g \in Owed(o)')
      <3>1. ~Zeroing(o)
        BY <2>0, <2>1 DEF Zeroing
      <3>2. Owed(o)' = Owed(o)
        BY <2>0, <2>1 DEF Owed
      <3>. QED BY <2>1, <3>1, <3>2, QuietDrift
    <2>2. CASE \E success \in BOOLEAN : CountTotal(g, success)
      <3>1. /\ health' = health /\ pc[g] = "countTotal" /\ pc'[g] \in {"loadTotal", "countFailed"}
            /\ failedRequests' = failedRequests
            /\ totalRequests' = [totalRequests EXCEPT ![health[g]] = @ + 1]
        BY <2>2 DEF CountTotal, Goto, localVars, TypeOK
      <3>2. CASE health[g] # o
        BY <2>1, <3>1, <3>2 DEF TypeOK, Owed
      <3>3. CASE health[g] = o
        <4>1. totalRequests'[o] = totalRequests[o] + 1 /\ failedRequests'[o] = failedRequests[o]
          BY <3>1, <3>3 DEF TypeOK
        <4>2. g \notin Owed(o) BY <3>1 DEF Owed
        <4>3. \/ Cardinality(Owed(o))' = Cardinality(Owed(o))
              \/ Cardinality(Owed(o))' = Cardinality(Owed(o)) + 1
          <5>1. CASE Owed(o)' = Owed(o)
            BY <5>1
          <5>2. CASE Owed(o)' = Owed(o) \cup {g}
            <6>1. Cardinality(Owed(o) \cup {g}) = Cardinality(Owed(o)) + 1
              BY <4>2, OwedCardinality
            <6>. QED BY <5>2, <6>1
          <5>3. Owed(o)' = Owed(o) \/ Owed(o)' = Owed(o) \cup {g}
            BY <2>0, <3>1, <3>3 DEF Owed
          <5>. QED BY <5>1, <5>2, <5>3
        <4>4. ~Zeroing(o)
          BY <2>0, <3>1 DEF Zeroing
        <4>5. failedRequests[o] - totalRequests[o] + Cardinality(Owed(o)) < Cardinality(Goroutines)
          BY <4>4 DEF Drift
        <4>6. /\ failedRequests[o] \in Nat /\ totalRequests[o] \in Nat
              /\ Cardinality(Owed(o)) \in Nat /\ Cardinality(Goroutines) \in Nat
          BY OwedCardinality DEF TypeOK
        <4>. QED BY <4>1, <4>3, <4>5, <4>6
      <3>. QED BY <3>2, <3>3
    <2>3. CASE CountFailed(g)
      <3>1. /\ health' = health /\ pc[g] = "countFailed" /\ pc'[g] = "loadTotal"
            /\ totalRequests' = totalRequests
            /\ failedRequests' = [failedRequests EXCEPT ![health[g]] = @ + 1]
        BY <2>3 DEF CountFailed, Goto, localVars, TypeOK
      <3>2. CASE health[g] # o
        BY <2>1, <3>1, <3>2 DEF TypeOK, Owed
      <3>3. CASE health[g] = o
        <4>1. failedRequests'[o] = failedRequests[o] + 1 /\ totalRequests'[o] = totalRequests[o]
          BY <3>1, <3>3 DEF TypeOK
        <4>2. g \in Owed(o) BY <3>1, <3>3 DEF Owed
        <4>3. Cardinality(Owed(o))' = Cardinality(Owed(o)) - 1
          <5>1. Owed(o)' = Owed(o) \ {g}
            BY <2>0, <3>1 DEF Owed
          <5>2. Cardinality(Owed(o) \ {g}) = Cardinality(Owed(o)) - 1
            BY <4>2, OwedCardinality
          <5>. QED BY <5>1, <5>2
        <4>4. ~Zeroing(o)
          BY <2>0, <3>1 DEF Zeroing
        <4>5. failedRequests[o] - totalRequests[o] + Cardinality(Owed(o)) < Cardinality(Goroutines)
          BY <4>4 DEF Drift
        <4>6. /\ failedRequests[o] \in Nat /\ totalRequests[o] \in Nat
              /\ Cardinality(Owed(o)) \in Nat /\ Cardinality(Goroutines) \in Nat
          BY OwedCardinality DEF TypeOK
        <4>. QED BY <4>1, <4>3, <4>5, <4>6
      <3>. QED BY <3>2, <3>3
    <2>4. CASE ZeroTotal(g)
      <3>1. health[g] # o
        BY <2>4 DEF ZeroTotal, Goto, Zeroing, TypeOK, localVars
      <3>. QED BY <2>1, <2>4, <3>1 DEF ZeroTotal, Goto, TypeOK, localVars, Owed
    <2>5. CASE ZeroFailed(g)
      <3>1. /\ health' = health /\ pc[g] = "zeroFailed" /\ pc'[g] = "close"
            /\ totalRequests' = totalRequests
            /\ failedRequests' = [failedRequests EXCEPT ![health[g]] = 0]
        BY <2>5 DEF ZeroFailed, Goto, localVars, TypeOK
      <3>2. CASE health[g] # o
        <4>1. Owed(o)' = Owed(o) /\ ~Zeroing(o)
          BY <2>0, <3>1, <3>2 DEF Owed, Zeroing
        <4>2. failedRequests'[o] = failedRequests[o] /\ totalRequests'[o] = totalRequests[o]
          BY <3>1, <3>2 DEF TypeOK
        <4>. QED BY <4>1, <4>2, QuietDrift
      <3>3. CASE health[g] = o
        <4>1. failedRequests'[o] = 0 /\ totalRequests'[o] \in Nat
          BY <3>1, <3>3 DEF TypeOK
        <4>2. g \notin Owed(o)'
          BY <3>1 DEF Owed
        <4>3. Cardinality(Owed(o))' \in Nat /\ Cardinality(Owed(o))' < Cardinality(Goroutines)
          BY <4>2, OwedCardinalityNext
        <4>4. Cardinality(Goroutines) \in Nat
          BY OwedCardinality
        <4>. QED BY <4>1, <4>3, <4>4
      <3>. QED BY <3>2, <3>3
    <2>6. CASE ~ZeroTotal(g) /\ ~ZeroFailed(g) /\ ~CountFailed(g)
               /\ ~(\E success \in BOOLEAN : CountTotal(g, success))
      <3>1. /\ failedRequests' = failedRequests /\ totalRequests' = totalRequests
            /\ pc[g] \notin {"zeroFailed", "countFailed"} /\ pc'[g] # "countFailed"
        BY <1>2, <2>6 DEF TypeOK, Find, Ask, Record, Create, CheckOpen, Refuse, EndUnrecorded, Recover, Close,
             Lookup, LoadTotal, LoadFailed, Accept, Condemn, Trip, Stamp, Goto, objectVars
      <3>. QED BY <2>1, <3>1 DEF Owed
    <2>. QED BY <2>2, <2>3, <2>4, <2>5, <2>6
  <1>. QED BY <1>1, <1>2 DEF Next

-----------------------------------------------------------------------------
\* Trips.
LEMMA TripStep ==
  ASSUME HistoryTypeOK, AtWork, Stamped, Entitled, HistoryNext
  PROVE  (tripAge \in [Objects -> Ages])' /\ Stamped' /\ Entitled'
  <1>. USE DEF HistoryTypeOK
  <1>1. CASE Tick /\ tripAge' = [o \in Objects |-> Older(tripAge[o])] /\ UNCHANGED misled
    <2>1. tripAge' \in [Objects -> Ages]
      BY <1>1, OlderType
    <2>2. \A o \in Objects : /\ Unstamped(o)' <=> Unstamped(o)
                             /\ Recovering(o)' = Recovering(o)
      BY <1>1 DEF Tick, localVars, Unstamped, Recovering
    <2>3. \A a, b \in Ages : /\ a <= b => Older(a) <= Older(b)
                             /\ Recovered(a) => Recovered(Older(a))
      BY BreakerAssumption DEF Ages, LongAgo, Older, Recovered
    <2>4. \A o \in Objects : /\ tripAge'[o] = Older(tripAge[o]) /\ openAge'[o] = Older(openAge[o])
                             /\ tripAge[o] \in Ages /\ openAge[o] \in Ages
      BY <1>1 DEF Tick, TypeOK
    <2>5. Stamped'
      BY <2>2, <2>3, <2>4 DEF Stamped
    <2>6. Entitled'
      BY <1>1, <2>2, <2>3, <2>4 DEF Entitled
    <2>. QED BY <2>1, <2>5, <2>6
  <1>2. ASSUME NEW g \in Goroutines,
               Trip(g), tripAge' = [tripAge EXCEPT ![health[g]] = 0],
               misled' = misled \cup Recovering(health[g])
        PROVE  (tripAge \in [Objects -> Ages])' /\ Stamped' /\ Entitled'
    <2>1. pc[g] = "trip" /\ pc' = [pc EXCEPT ![g] = "stamp"] /\ health' = health
          /\ openAge' = openAge /\ health[g] \in Objects
      BY <1>2 DEF Trip, Goto, AtWork, localVars
    <2>2. tripAge' \in [Objects -> Ages]
      <3>1. 0 \in Ages
        BY BreakerAssumption DEF Ages, LongAgo
      <3>. QED BY <1>2, <3>1
    <2>3. \A o \in Objects : Recovering(o)' = Recovering(o)
      BY <2>1 DEF Recovering, TypeOK
    <2>4. \A o \in Objects : Unstamped(o)' <=> (Unstamped(o) \/ o = health[g])
      BY <2>1 DEF Unstamped, TypeOK
    <2>5. \A o \in Objects : o # health[g] => tripAge'[o] = tripAge[o]
      BY <1>2
    <2>6. Stamped'
      BY <2>1, <2>4, <2>5 DEF Stamped
    <2>7. Entitled'
      BY <1>2, <2>3, <2>5 DEF Entitled
    <2>. QED BY <2>2, <2>6, <2>7
  <1>3. ASSUME NEW g \in Goroutines, Recover(g), UNCHANGED tripAge,
               misled' = misled \cup {h \in {g} : Unstamped(health[g])}
        PROVE  (tripAge \in [Objects -> Ages])' /\ Stamped' /\ Entitled'
    <2>1. /\ pc[g] = "readOpenAt" /\ pc' = [pc EXCEPT ![g] = "zeroTotal"] /\ health' = health
          /\ openAge' = openAge /\ health[g] \in Objects /\ Recovered(openAge[health[g]])
      BY <1>3 DEF Recover, Goto, AtWork, localVars, objectVars
    <2>2. \A o \in Objects : Unstamped(o)' <=> Unstamped(o)
      BY <2>1 DEF Unstamped, TypeOK
    <2>3. \A o \in Objects : \A h \in Recovering(o)' : h \in Recovering(o) \/ (h = g /\ o = health[g])
      BY <2>1 DEF Recovering, TypeOK
    <2>4. Recovered(tripAge[health[g]]) \/ g \in misled'
      <3>1. CASE Unstamped(health[g])
        BY <1>3, <3>1
      <3>2. CASE ~Unstamped(health[g])
        <4>1. openAge[health[g]] <= tripAge[health[g]]
          BY <2>1, <3>2 DEF Stamped
        <4>2. openAge[health[g]] \in Ages /\ tripAge[health[g]] \in Ages
          BY <2>1 DEF TypeOK
        <4>. QED BY <2>1, <4>1, <4>2, BreakerAssumption DEF Recovered, Ages, LongAgo
      <3>. QED BY <3>1, <3>2
    <2>5. Stamped'
      BY <1>3, <2>1, <2>2 DEF Stamped
    <2>6. Entitled'
      BY <1>3, <2>3, <2>4 DEF Entitled
    <2>. QED BY <1>3, <2>5, <2>6
  <1>4. ASSUME NEW g \in Goroutines, Close(g), misled' = misled \ {g}, UNCHANGED tripAge
        PROVE  (tripAge \in [Objects -> Ages])' /\ Stamped' /\ Entitled'
    <2>1. pc[g] = "close" /\ pc' = [pc EXCEPT ![g] = "request"] /\ health' = health
          /\ openAge' = openAge
      BY <1>4 DEF Close, Goto, localVars
    <2>2. \A o \in Objects : /\ Unstamped(o)' <=> Unstamped(o)
                             /\ Recovering(o)' \subseteq Recovering(o) \ {g}
      BY <2>1 DEF Unstamped, Recovering, TypeOK
    <2>. QED BY <1>4, <2>1, <2>2 DEF Stamped, Entitled
  <1>5. ASSUME NEW g \in Goroutines, Find(g) \/ Ask(g) \/ Record(g),
               pc[g] \notin {"trip", "close"}, pc'[g] # "zeroTotal",
               UNCHANGED <<tripAge, misled>>
        PROVE  (tripAge \in [Objects -> Ages])' /\ Stamped' /\ Entitled'
    <2>0. \A h \in Goroutines : h # g => pc'[h] = pc[h] /\ health'[h] = health[h]
      BY <1>5, OthersStay
    <2>1. /\ pc'[g] \in {"zeroFailed", "close"} =>
               pc[g] \in {"zeroTotal", "zeroFailed"} /\ health'[g] = health[g]
          /\ pc'[g] # "stamp"
      BY <1>5 DEF TypeOK, Find, Ask, Record, Create, CheckOpen, Refuse, EndUnrecorded, Recover, ZeroTotal,
           ZeroFailed, Close, Lookup, CountTotal, CountFailed, LoadTotal, LoadFailed, Accept,
           Condemn, Trip, Stamp, Goto, Forget, localVars
    <2>2. \A o \in Objects : Recovering(o)' \subseteq Recovering(o)
      BY <1>5, <2>0, <2>1 DEF Recovering
    <2>3. Entitled'
      BY <1>5, <2>2 DEF Entitled
    <2>4. CASE pc[g] = "stamp"
      <3>1. openAge' = [openAge EXCEPT ![health[g]] = 0] /\ health[g] \in Objects
        BY <1>5, <2>4 DEF Find, Ask, Record, Create, CheckOpen, Refuse, EndUnrecorded, Recover, ZeroTotal,
             ZeroFailed, Close, Lookup, CountTotal, CountFailed, LoadTotal, LoadFailed, Accept,
             Condemn, Trip, Stamp, Goto, AtWork
      <3>2. ASSUME NEW o \in Objects, ~Unstamped(o)' PROVE openAge'[o] <= tripAge'[o]
        <4>1. CASE o = health[g]
          <5>1. openAge'[o] = 0 BY <3>1, <4>1 DEF TypeOK
          <5>2. tripAge'[o] \in Nat BY <1>5, BreakerAssumption DEF Ages, LongAgo
          <5>. QED BY <5>1, <5>2
        <4>2. CASE o # health[g]
          <5>1. ~Unstamped(o) BY <2>0, <3>2, <4>2 DEF Unstamped
          <5>2. openAge'[o] = openAge[o] BY <3>1, <4>2 DEF TypeOK
          <5>. QED BY <1>5, <5>1, <5>2 DEF Stamped
        <4>. QED BY <4>1, <4>2
      <3>. QED BY <1>5, <2>3, <3>2 DEF Stamped
    <2>5. CASE pc[g] # "stamp"
      <3>1. openAge' = openAge
        BY <1>5, <2>5 DEF Find, Ask, Record, Create, CheckOpen, Refuse, EndUnrecorded, Recover, ZeroTotal,
             ZeroFailed, Close, Lookup, CountTotal, CountFailed, LoadTotal, LoadFailed, Accept,
             Condemn, Trip, Stamp, Goto, objectVars
      <3>2. \A o \in Objects : ~Unstamped(o)' => ~Unstamped(o)
        BY <2>0, <2>5 DEF Unstamped
      <3>3. Stamped'
        BY <1>5, <3>1, <3>2 DEF Stamped
      <3>. QED BY <1>5, <2>3, <3>3
    <2>. QED BY <2>4, <2>5
  <1>. QED BY <1>1, <1>2, <1>3, <1>4, <1>5 DEF HistoryNext

-----------------------------------------------------------------------------
LEMMA NextIInv == IInv /\ [HistoryNext]_historyVars => IInv'
  <1>. SUFFICES ASSUME IInv, [HistoryNext]_historyVars PROVE IInv'
    OBVIOUS
  <1>1. CASE HistoryNext
    <2>1. TypeOK' /\ AtWork' /\ Drift'
      BY <1>1, HistoryStep, TypeStep, DriftStep DEF IInv, HistoryTypeOK
    <2>2. (tripAge \in [Objects -> Ages])' /\ Stamped' /\ Entitled'
      BY <1>1, TripStep DEF IInv
    <2>. QED BY <2>1, <2>2 DEF IInv, HistoryTypeOK
  <1>2. CASE UNCHANGED historyVars
    <2>. USE <1>2 DEF historyVars, vars, objectVars, localVars
    <2>1. HistoryTypeOK' /\ AtWork'
      BY DEF IInv, HistoryTypeOK, TypeOK, AtWork
    <2>2. \A o \in Objects : Owed(o)' = Owed(o) /\ (Zeroing(o)' <=> Zeroing(o))
      BY DEF Owed, Zeroing
    <2>3. Drift'
      BY <2>2, QuietDrift DEF IInv, Drift
    <2>4. Stamped' /\ Entitled'
      BY DEF IInv, Stamped, Entitled, Unstamped, Recovering
    <2>. QED BY <2>1, <2>3, <2>4 DEF IInv
  <1>. QED BY <1>1, <1>2

\* Every access of every goroutine keeps types, drift and trips in order
\* (main.go:771-851).
THEOREM BreakerInvariant == HistorySpec => []IInv
  BY InitIInv, NextIInv, PTL DEF HistorySpec

\* Every goroutine at work has a health object and the counters stay natural
\* numbers (main.go:771-788, 795-815).
THEOREM BreakerTypeCorrect == HistorySpec => []TypeOK
  <1>1. IInv => TypeOK BY DEF IInv, HistoryTypeOK
  <1>. QED BY <1>1, BreakerInvariant, PTL

\* Whatever interleaves, the failures of an address exceed its results by less
\* than the number of goroutines, unless one is between the two stores of a reset
\* (main.go:808-810, 823-826).
THEOREM DriftIsBoundedCorrect == HistorySpec => []DriftIsBounded
  <1>1. IInv => DriftIsBounded
    <2>. SUFFICES ASSUME IInv, NEW o \in Objects, ~Zeroing(o)
         PROVE failedRequests[o] - totalRequests[o] < Cardinality(Goroutines)
      BY DEF DriftIsBounded, Zeroing
    <2>1. failedRequests[o] - totalRequests[o] + Cardinality(Owed(o)) < Cardinality(Goroutines)
      BY DEF IInv, Drift
    <2>2. Cardinality(Owed(o)) \in Nat /\ Cardinality(Goroutines) \in Nat
      BY OwedCardinality
    <2>3. failedRequests[o] \in Nat /\ totalRequests[o] \in Nat
      BY DEF IInv, HistoryTypeOK, TypeOK
    <2>. QED BY <2>1, <2>2, <2>3
  <1>. QED BY <1>1, BreakerInvariant, PTL

\* However many goroutines meet, a trip ends before the recovery time only by one
\* that read an opening time which was not the trip's (main.go:803-814, 841-847).
THEOREM TripHoldsCorrect == HistorySpec => TripHolds
  <1>1. IInv /\ [HistoryNext]_historyVars =>
          [\A o \in Objects :
             circuitOpen[o] /\ ~circuitOpen'[o] =>
                 \/ Recovered(tripAge[o])
                 \/ Recovering(o) \cap misled # {}]_historyVars
    <2>. SUFFICES ASSUME IInv, HistoryNext, NEW o \in Objects, circuitOpen[o], ~circuitOpen'[o]
         PROVE Recovered(tripAge[o]) \/ Recovering(o) \cap misled # {}
      OBVIOUS
    <2>1. PICK g \in Goroutines : Close(g)
      BY DEF HistoryNext, IInv, HistoryTypeOK, TypeOK, Tick, Find, Ask, Record, Create, CheckOpen,
             Refuse, EndUnrecorded, Recover, ZeroTotal, ZeroFailed, Lookup, CountTotal, CountFailed, LoadTotal,
             LoadFailed, Accept, Condemn, Trip, Stamp, objectVars
    <2>2. g \in Recovering(o)
      BY <2>1 DEF Close, Goto, Recovering, IInv, HistoryTypeOK, TypeOK
    <2>. QED BY <2>2 DEF IInv, Entitled
  <1>. QED BY <1>1, BreakerInvariant, PTL DEF HistorySpec, TripHolds

-----------------------------------------------------------------------------
\* What a goroutine does between requests, and what it looks a fingerprint up for.
Ordered ==
    \A g \in Handlers :
        /\ step[g] = "idle" => errand[g] = "request"
        /\ wanted[g] = "hello" => step[g] \in {"load", "choose"}

\* A fingerprint that is in the map.
Current(p) == p = browserProfile /\ p # None

\* The goroutine holds for its errand, and for the request that the visit is made
\* for, what is in the map; what it is about to choose is not there.
Sound(g) ==
    LET m == Message(errand[g]) IN
    /\ step[g] = "choose" => browserProfile = None
    /\ step[g] \in {"client", "cache", "ready"} \/ wanted[g] = "hello" => Current(headers[g][m])
    /\ step[g] \in {"cache", "ready"} => Current(hello[g][m])
    /\ step[g] \in {"attach", "send"} \/ errand[g] \in {"visit", "revisit"} =>
         Current(headers[g]["request"]) /\ Current(hello[g]["request"])

\* The cleaner forgets the fingerprint after the client.
Last ==
    /\ client # None => client = browserProfile
    /\ cleaner = "deleteProfile" \/ (cleaner = "listProfiles" /\ session = "none") =>
         client = None

Undisturbed == Last /\ \A g \in Handlers : Sound(g)

IdentityInv ==
    /\ IdentityTypeOK
    /\ disturbed \in BOOLEAN
    /\ Ordered
    /\ ~disturbed => Undisturbed

-----------------------------------------------------------------------------
LEMMA InitIdentityInv == IdentityHistoryInit => IdentityInv
  <1> SUFFICES ASSUME IdentityHistoryInit PROVE IdentityInv
    OBVIOUS
  <1>1. IdentityTypeOK
    <2>1. Nobody \in [Messages -> Profiles \cup {None}]
      BY DEF Nobody
    <2>. QED BY <2>1 DEF IdentityHistoryInit, IdentityInit, IdentityTypeOK, Errands
  <1>2. Ordered /\ Last /\ \A g \in Handlers : Sound(g)
    BY DEF IdentityHistoryInit, IdentityInit, Ordered, Last, Sound
  <1>. QED BY <1>1, <1>2 DEF IdentityHistoryInit, IdentityInv, Undisturbed

\* What a goroutine works on is typed.
Local ==
    /\ step \in [Handlers -> {"idle", "load", "choose", "client", "cache", "ready", "attach",
                              "send"}]
    /\ errand \in [Handlers -> Errands]
    /\ wanted \in [Handlers -> {"headers", "hello"}]
    /\ headers \in [Handlers -> [Messages -> Profiles \cup {None}]]
    /\ hello \in [Handlers -> [Messages -> Profiles \cup {None}]]

LEMMA MessageTyped ==
  /\ \A e : Message(e) \in Messages
  /\ {"request", "visit"} \subseteq Messages
  /\ Nobody \in [Messages -> Profiles \cup {None}]
  BY DEF Message, Messages, Nobody

LEMMA ReturnsTyped ==
  ASSUME Local, Ordered, NEW g \in Handlers, NEW from, NEW p \in Profiles \cup {None},
         Returns(g, from, p), UNCHANGED errand, from # "idle"
  PROVE  Local' /\ Ordered'
  <1>. DEFINE m == Message(errand[g])
  <1>1. m \in Messages /\ p \in Profiles \cup {None}
    BY MessageTyped
  <1>. HIDE DEF m
  <1>2. CASE /\ wanted[g] = "headers" /\ Moves(g, from, "client")
             /\ headers' = [headers EXCEPT ![g][m] = p]
             /\ UNCHANGED <<wanted, hello>>
    BY <1>1, <1>2 DEF Local, Ordered, Moves
  <1>3. CASE /\ wanted[g] = "hello" /\ Moves(g, from, "cache")
             /\ hello' = [hello EXCEPT ![g][m] = p]
             /\ wanted' = [wanted EXCEPT ![g] = "headers"]
             /\ UNCHANGED headers
    BY <1>1, <1>3 DEF Local, Ordered, Moves
  <1>. QED BY <1>2, <1>3 DEF Returns, m

LEMMA LeaveTyped ==
  ASSUME Local, Ordered, NEW g \in Handlers, Leave(g)
  PROVE  Local' /\ Ordered'
  BY MessageTyped DEF Local, Ordered, Leave, Errands

LEMMA IdentityTypeStep ==
  ASSUME IdentityInv, IdentityHistoryNext
  PROVE  IdentityTypeOK' /\ disturbed' \in BOOLEAN /\ Ordered'
  <1>1. Local /\ Ordered /\ IdentityTypeOK /\ disturbed \in BOOLEAN
    BY DEF IdentityInv, IdentityTypeOK, Local
  <1>2. ASSUME NEW g \in Handlers, Arrive(g) PROVE IdentityTypeOK' /\ Ordered'
    BY <1>1, <1>2 DEF Arrive, Moves, maps, locals, IdentityTypeOK, Ordered
  <1>3. ASSUME NEW g \in Handlers, LoadProfile(g) PROVE IdentityTypeOK' /\ Ordered'
    <2>1. Local' /\ Ordered'
      <3>1. CASE Returns(g, "load", browserProfile)
        BY <1>1, <1>3, <3>1, ReturnsTyped DEF LoadProfile, IdentityTypeOK
      <3>2. CASE Moves(g, "load", "choose") /\ UNCHANGED <<wanted, headers, hello>>
        BY <1>1, <1>3, <3>2 DEF LoadProfile, Local, Ordered, Moves
      <3>. QED BY <1>3, <3>1, <3>2 DEF LoadProfile
    <2>. QED BY <1>1, <1>3, <2>1 DEF LoadProfile, maps, IdentityTypeOK, Local
  <1>4. ASSUME NEW g \in Handlers, Panic(g) \/ End(g)
        PROVE  IdentityTypeOK' /\ Ordered'
    BY <1>1, <1>4, LeaveTyped DEF Panic, End, maps, IdentityTypeOK, Local
  <1>5. ASSUME NEW g \in Handlers, NEW p \in Profiles, StoreProfile(g, p)
        PROVE  IdentityTypeOK' /\ Ordered'
    <2>1. Local' /\ Ordered'
      BY <1>1, <1>5, ReturnsTyped DEF StoreProfile
    <2>. QED BY <1>1, <1>5, <2>1 DEF StoreProfile, IdentityTypeOK, Local
  <1>6. ASSUME NEW g \in Handlers, LoadClient(g) PROVE IdentityTypeOK' /\ Ordered'
    <2>. DEFINE m == Message(errand[g])
    <2>1. m \in Messages
      BY MessageTyped
    <2>. HIDE DEF m
    <2>2. CASE /\ Moves(g, "client", "ready")
               /\ hello' = [hello EXCEPT ![g][m] = client]
               /\ UNCHANGED wanted
      BY <1>1, <1>6, <2>1, <2>2 DEF LoadClient, Moves, maps, IdentityTypeOK, Ordered
    <2>3. CASE /\ Moves(g, "client", "load")
               /\ wanted' = [wanted EXCEPT ![g] = "hello"]
               /\ UNCHANGED hello
      BY <1>1, <1>6, <2>3 DEF LoadClient, Moves, maps, IdentityTypeOK, Ordered
    <2>. QED BY <1>6, <2>2, <2>3 DEF LoadClient, m
  <1>7. ASSUME NEW g \in Handlers, StoreClient(g) PROVE IdentityTypeOK' /\ Ordered'
    BY <1>1, <1>7, MessageTyped DEF StoreClient, Moves, locals, IdentityTypeOK,
                                    Ordered
  <1>8. ASSUME NEW g \in Handlers, NeedsNoSession(g) \/ NotRefreshed(g) \/ StartVisit(g)
                                       \/ Attach(g) \/ Forbidden(g)
        PROVE  IdentityTypeOK' /\ Ordered'
    <2>. USE <1>1 DEF Moves, maps, locals, IdentityTypeOK, Ordered, Errands
    <2>1. CASE NeedsNoSession(g)
      BY <2>1 DEF NeedsNoSession
    <2>2. CASE NotRefreshed(g)
      BY <2>2 DEF NotRefreshed, CreateSession
    <2>3. CASE StartVisit(g)
      BY <2>3 DEF StartVisit, CreateSession
    <2>4. CASE Attach(g)
      BY <2>4 DEF Attach, CreateSession
    <2>5. CASE Forbidden(g)
      <3>1. step' = [step EXCEPT ![g] = "load"] /\ errand' = [errand EXCEPT ![g] = "revisit"]
        BY <2>5 DEF Forbidden
      <3>2. UNCHANGED <<browserProfile, client, wanted, headers, hello, cleaner>>
        BY <2>5 DEF Forbidden
      <3>3. session' \in {"none", "used", "idle"}
        BY <2>5 DEF Forbidden, CreateSession
      <3>. QED BY <3>1, <3>2, <3>3
    <2>. QED BY <1>8, <2>1, <2>2, <2>3, <2>4, <2>5
  <1>9. ASSUME NEW g \in Handlers, Visit(g) PROVE IdentityTypeOK' /\ Ordered'
    BY <1>1, <1>9, MessageTyped DEF Visit, Back, Moves, maps, IdentityTypeOK,
                                    Ordered, Errands
  <1>10. ASSUME NEW g \in Handlers, Revisit(g) PROVE IdentityTypeOK' /\ Ordered'
    <2>1. CASE Leave(g)
      BY <1>1, <1>10, <2>1, LeaveTyped DEF Revisit, maps, IdentityTypeOK, Local
    <2>2. CASE Moves(g, "ready", "send") /\ Back(g) /\ UNCHANGED <<errand, wanted>>
      BY <1>1, <1>10, <2>2, MessageTyped DEF Revisit, Back, Moves, maps,
                                             IdentityTypeOK, Ordered
    <2>. QED BY <1>10, <2>1, <2>2 DEF Revisit
  <1>11. ASSUME GoIdle PROVE IdentityTypeOK' /\ Ordered'
    BY <1>1, <1>11 DEF GoIdle, locals, IdentityTypeOK, Ordered
  <1>12. ASSUME Clean PROVE IdentityTypeOK' /\ Ordered'
    BY <1>1, <1>12 DEF Clean, ListSessions, DeleteSession, ListClients,
                       DeleteClient, ListProfiles, DeleteProfile,
                       CleanerGoes, maps, locals, IdentityTypeOK, Ordered
  <1>13. disturbed' \in BOOLEAN
    BY <1>1 DEF IdentityHistoryNext, HistoryStore, HistoryCache, HistoryDelete,
                HistoryOther
  <1>. QED BY <1>2, <1>3, <1>4, <1>5, <1>6, <1>7, <1>8, <1>9, <1>10, <1>11, <1>12, <1>13
           DEF IdentityHistoryNext, HistoryStore, HistoryCache, HistoryDelete,
               HistoryOther, Proceed, Clean

-----------------------------------------------------------------------------
\* A goroutine that does nothing stays sound while the map stays.
LEMMA OthersSound ==
  ASSUME Undisturbed, UNCHANGED browserProfile, NEW g,
         \A h \in Handlers \ {g} : /\ step'[h] = step[h] /\ errand'[h] = errand[h]
                                     /\ wanted'[h] = wanted[h]
                                     /\ headers'[h] = headers[h] /\ hello'[h] = hello[h]
  PROVE  \A h \in Handlers \ {g} : Sound(h)'
  BY DEF Undisturbed, Sound, Current

LEMMA LastStays ==
  ASSUME Last, UNCHANGED <<client, browserProfile, cleaner>>,
         UNCHANGED session \/ session' # "none"
  PROVE  Last'
  BY DEF Last

LEMMA LeaveSound ==
  ASSUME Local, NEW g \in Handlers, Leave(g)
  PROVE  Sound(g)'
  BY DEF Local, Leave, Sound, Errands

LEMMA MoveSound ==
  ASSUME IdentityTypeOK, Ordered, Undisturbed, NEW g \in Handlers,
         Arrive(g) \/ LoadProfile(g) \/ Panic(g) \/ LoadClient(g) \/ Proceed(g)
  PROVE  Undisturbed'
  <1>1. Local /\ Ordered /\ Last /\ Sound(g) /\ browserProfile \in Profiles \cup {None}
    BY DEF IdentityTypeOK, Local, Undisturbed
  <1>2. UNCHANGED <<client, browserProfile, cleaner>> /\ (UNCHANGED session \/ session' # "none")
    BY DEF Arrive, LoadProfile, Panic, LoadClient, Proceed,
           NeedsNoSession, NotRefreshed, StartVisit, Visit, Attach,
           Forbidden, Revisit, End, CreateSession, maps
  <1>3. \A h \in Handlers \ {g} : /\ step'[h] = step[h] /\ errand'[h] = errand[h]
                                    /\ wanted'[h] = wanted[h]
                                    /\ headers'[h] = headers[h] /\ hello'[h] = hello[h]
    BY <1>1 DEF Local, Arrive, LoadProfile, Returns, Panic, LoadClient,
                Proceed, NeedsNoSession, NotRefreshed, StartVisit,
                Visit, Attach, Forbidden, Revisit, End, Leave,
                Back, Moves, locals
  <1>4. Last' /\ \A h \in Handlers \ {g} : Sound(h)'
    BY <1>1, <1>2, <1>3, LastStays, OthersSound
  <1>5. {Message(errand[g]), "request", "visit"} \subseteq Messages
    BY MessageTyped
  <1>6. Sound(g)'
    <2>1. CASE Arrive(g)
      BY <1>1, <1>2, <2>1 DEF Arrive, Moves, locals, Local, Ordered, Sound
    <2>2. CASE LoadProfile(g)
      <3>1. CASE browserProfile # None /\ Returns(g, "load", browserProfile)
        <4>1. UNCHANGED errand
          BY <2>2 DEF LoadProfile
        <4>2. CASE wanted[g] = "headers"
          BY <1>1, <1>2, <1>5, <3>1, <4>1, <4>2
            DEF Returns, Moves, Local, Sound, Current
        <4>3. CASE wanted[g] = "hello"
          BY <1>1, <1>2, <1>5, <3>1, <4>1, <4>3
            DEF Returns, Moves, Local, Sound, Current
        <4>. QED BY <1>1, <4>2, <4>3 DEF Local
      <3>2. CASE /\ browserProfile = None /\ Moves(g, "load", "choose")
                 /\ UNCHANGED <<wanted, headers, hello>>
        BY <1>1, <1>2, <2>2, <3>2 DEF LoadProfile, Moves, Local, Sound, Current
      <3>. QED BY <2>2, <3>1, <3>2 DEF LoadProfile
    <2>3. CASE Panic(g) \/ End(g)
      BY <1>1, <2>3, LeaveSound DEF Panic, End
    <2>4. CASE LoadClient(g)
      <3>1. CASE client # None
        BY <1>1, <1>2, <1>5, <2>4, <3>1 DEF LoadClient, Moves, Local, Sound,
                                            Current, Last
      <3>2. CASE client = None
        BY <1>1, <1>2, <1>5, <2>4, <3>2 DEF LoadClient, Moves, Local, Sound,
                                            Current, Ordered
      <3>. QED BY <3>1, <3>2
    <2>5. CASE \/ NeedsNoSession(g) \/ NotRefreshed(g) \/ StartVisit(g)
               \/ Attach(g) \/ Forbidden(g)
      <3>1. CASE NeedsNoSession(g)
        BY <1>1, <1>2, <3>1 DEF NeedsNoSession, Moves, Local, Sound, Current,
                                Message, Ordered
      <3>2. CASE NotRefreshed(g)
        BY <1>1, <1>2, <3>2 DEF NotRefreshed, Moves, Local, Sound, Current,
                                Message, locals, Ordered
      <3>3. CASE StartVisit(g)
        BY <1>1, <1>2, <3>3 DEF StartVisit, Moves, Local, Sound, Current,
                                Message, Ordered
      <3>4. CASE Attach(g)
        BY <1>1, <1>2, <3>4 DEF Attach, Moves, Local, Sound, Current, locals,
                                Ordered
      <3>5. CASE Forbidden(g)
        BY <1>1, <1>2, <3>5 DEF Forbidden, Moves, Local, Sound, Current, Ordered
      <3>. QED BY <2>5, <3>1, <3>2, <3>3, <3>4, <3>5
    <2>6. CASE Visit(g)
      BY <1>1, <1>2, <1>5, <2>6 DEF Visit, Back, Moves, Local, Sound, Current,
                                    Ordered
    <2>7. CASE Revisit(g)
      <3>1. CASE Leave(g)
        BY <1>1, <3>1, LeaveSound
      <3>2. CASE Moves(g, "ready", "send") /\ Back(g) /\ UNCHANGED <<errand, wanted>>
        BY <1>1, <1>2, <1>5, <2>7, <3>2 DEF Revisit, Back, Moves, Local, Sound,
                                            Current, Ordered
      <3>. QED BY <2>7, <3>1, <3>2 DEF Revisit
    <2>. QED BY <2>1, <2>2, <2>3, <2>4, <2>5, <2>6, <2>7 DEF Proceed
  <1>. QED BY <1>4, <1>6 DEF Undisturbed

\* The first fingerprint: nobody else is about to store one.
LEMMA StoreSound ==
  ASSUME IdentityTypeOK, Ordered, Undisturbed,
         NEW g \in Handlers, NEW p \in Profiles,
         StoreProfile(g, p), \A h \in Handlers \ {g} : step[h] # "choose"
  PROVE  Undisturbed'
  <1>1. Local /\ Last /\ \A h \in Handlers : Sound(h)
    BY DEF IdentityTypeOK, Local, Undisturbed
  <1>2. /\ step[g] = "choose" /\ browserProfile' = p /\ p # None /\ Returns(g, "choose", p)
        /\ UNCHANGED <<client, session, errand, cleaner>>
    BY IdentityAssumption DEF StoreProfile, Returns, Moves
  <1>3. browserProfile = None
    BY <1>1, <1>2 DEF Sound
  <1>4. client = None
    BY <1>1, <1>3 DEF Last
  <1>5. ASSUME NEW h \in Handlers \ {g} PROVE Sound(h)'
    <2>1. /\ step'[h] = step[h] /\ errand'[h] = errand[h] /\ wanted'[h] = wanted[h]
          /\ headers'[h] = headers[h] /\ hello'[h] = hello[h]
      BY <1>1, <1>2 DEF Local, Returns, Moves
    <2>. QED BY <1>1, <1>3, <2>1 DEF Sound, Current
  <1>6. Message(errand[g]) \in Messages /\ "request" \in Messages
    BY MessageTyped
  <1>7. wanted[g] = "headers" /\ errand[g] \notin {"visit", "revisit"}
    BY <1>1, <1>2, <1>3 DEF Sound, Current, Local
  <1>8. Sound(g)'
    BY <1>1, <1>2, <1>6, <1>7 DEF Returns, Moves, Local, Sound, Current
  <1>. QED BY <1>2, <1>4, <1>5, <1>8 DEF Undisturbed, Last

\* A client that the cleaner will still see.
LEMMA CacheSound ==
  ASSUME IdentityTypeOK, Undisturbed, NEW g \in Handlers, StoreClient(g),
         cleaner # "deleteProfile", ~(cleaner = "listProfiles" /\ session = "none")
  PROVE  Undisturbed'
  <1>1. Local /\ Sound(g)
    BY DEF IdentityTypeOK, Local, Undisturbed
  <1>2. \A h \in Handlers \ {g} : Sound(h)'
    BY <1>1, OthersSound DEF StoreClient, Moves, locals, Local
  <1>3. Sound(g)'
    BY <1>1 DEF StoreClient, Moves, locals, Local, Sound, Current
  <1>4. Last'
    BY <1>1 DEF StoreClient, Moves, Last, Sound, Current
  <1>. QED BY <1>2, <1>3, <1>4 DEF Undisturbed

\* Nobody is under way.
LEMMA AllIdle ==
  ASSUME IdentityTypeOK, Ordered, UnderWay = {}, NEW g \in Handlers
  PROVE  step[g] = "idle" /\ errand[g] = "request" /\ wanted[g] = "headers"
  BY DEF IdentityTypeOK, Ordered, UnderWay

LEMMA DeleteSound ==
  ASSUME IdentityTypeOK, Ordered, Undisturbed, DeleteProfile, UnderWay = {}
  PROVE  Undisturbed'
  <1>1. \A g \in Handlers : Sound(g)'
    BY AllIdle DEF DeleteProfile, CleanerGoes, locals, Sound
  <1>2. Last'
    BY DEF Undisturbed, DeleteProfile, CleanerGoes, Last
  <1>. QED BY <1>1, <1>2 DEF Undisturbed

LEMMA CleanSound ==
  ASSUME Undisturbed,
         \/ GoIdle \/ ListSessions \/ DeleteSession
         \/ ListClients \/ DeleteClient \/ ListProfiles
  PROVE  Undisturbed'
  <1>1. UNCHANGED <<browserProfile, locals, step>> \/ GoIdle
    BY DEF ListSessions, DeleteSession, ListClients, DeleteClient,
           ListProfiles, CleanerGoes, maps
  <1>2. \A g \in Handlers : Sound(g)'
    BY <1>1 DEF GoIdle, Undisturbed, Sound, Current, locals
  <1>3. Last'
    BY DEF GoIdle, ListSessions, DeleteSession, ListClients,
           DeleteClient, ListProfiles, CleanerGoes, maps, Undisturbed, Last
  <1>. QED BY <1>2, <1>3 DEF Undisturbed

\* When the address is forgotten and nobody remembers, it starts anew.
LEMMA Anew ==
  ASSUME IdentityTypeOK, Ordered, Forgotten, UnderWay = {}
  PROVE  Undisturbed
  BY AllIdle DEF Forgotten, Undisturbed, Last, Sound

LEMMA IdentityStep ==
  ASSUME IdentityInv, [IdentityHistoryNext]_identityHistoryVars
  PROVE  IdentityInv'
  <1>1. CASE IdentityHistoryNext
    <2>1. IdentityTypeOK /\ Ordered /\ disturbed \in BOOLEAN /\ (~disturbed => Undisturbed)
      BY <1>1 DEF IdentityInv
    <2>2. ASSUME NEW g \in Handlers, NEW p \in Profiles, HistoryStore(g, p), ~disturbed'
          PROVE  Undisturbed'
      BY <2>1, <2>2, StoreSound DEF HistoryStore
    <2>3. ASSUME NEW g \in Handlers, HistoryCache(g), ~disturbed'
          PROVE  Undisturbed'
      BY <2>1, <2>3, CacheSound DEF HistoryCache
    <2>4. ASSUME HistoryDelete, ~disturbed' PROVE Undisturbed'
      BY <2>1, <2>4, DeleteSound DEF HistoryDelete
    <2>5. ASSUME HistoryOther, ~disturbed' PROVE Undisturbed'
      <3>1. Undisturbed
        BY <2>1, <2>5, Anew DEF HistoryOther
      <3>. QED BY <2>1, <2>5, <3>1, MoveSound, CleanSound DEF HistoryOther
    <2>6. ~disturbed' => Undisturbed'
      BY <1>1, <2>2, <2>3, <2>4, <2>5 DEF IdentityHistoryNext
    <2>. QED BY <1>1, <2>6, IdentityTypeStep DEF IdentityInv
  <1>2. CASE UNCHANGED identityHistoryVars
    BY <1>2 DEF identityHistoryVars, identityVars, maps, locals, IdentityInv, IdentityTypeOK,
                Ordered, Undisturbed, Last, Sound, Current
  <1>. QED BY <1>1, <1>2

\* The inductive invariant of an address's fingerprint: a goroutine holds what is in
\* the map, and the cleaner forgets it last (main.go:541-567, 628-655, 1836-1871).
THEOREM IdentityInvariant ==
  IdentityHistorySpec => []IdentityInv
  <1>1. IdentityInv /\ [IdentityHistoryNext]_identityHistoryVars => IdentityInv'
    BY IdentityStep
  <1>. QED BY <1>1, InitIdentityInv, PTL DEF IdentityHistorySpec

\* An address is one browser, however many requests it serves at a time, as long as
\* no two store a fingerprint and none is forgotten in use.
THEOREM OneBrowserCorrect ==
  IdentityHistorySpec => []OneBrowser
  <1>1. IdentityInv => OneBrowser
    <2>1. ASSUME Undisturbed, NEW g \in Handlers
          PROVE  /\ step[g] = "send" => Matched(g, "request")
                 /\ step[g] = "ready" => Matched(g, Message(errand[g]))
      BY <2>1 DEF Undisturbed, Sound, Current, Matched, Message
    <2>. QED BY <2>1 DEF IdentityInv, OneBrowser, Undisturbed, Last
  <1>. QED BY <1>1, IdentityInvariant, PTL
=============================================================================

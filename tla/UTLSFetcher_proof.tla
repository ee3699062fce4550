------------------------- MODULE UTLSFetcher_proof --------------------------
(***************************************************************************)
(* Proofs about the fetch path, for every pool, every number of workers    *)
(* and every number of requests; and about its load balance: no sequence of *)
(* selections and results upsets it.                                       *)
(***************************************************************************)
EXTENDS FetcherHistory, FiniteSetTheorems, TLAPS

LEMMA PoolTypeStep ==
    ASSUME PoolAssumption, PoolTypeOK, NEW a, GetHealthyNext(a)
    PROVE  /\ PoolTypeOK'
           /\ a \in Addresses \cup {NoAddress}
           /\ a \notin Addresses => usageStats' = usageStats
           /\ a \in Addresses => usageStats' = [usageStats EXCEPT ![a] = @ + 1]
           /\ detailedStats' = detailedStats
<1> USE DEF Addresses
<1>1. CASE Count = 0 /\ a = NoAddress /\ UNCHANGED poolVars
  BY <1>1, PoolAssumption, PoolTypeOK DEF PoolTypeOK, PoolAssumption, poolVars
<1>2. CASE Count > 0 /\ GetNext(a)
  <2>1. (currentIndex % Count) + 1 \in 1 .. Count
    BY <1>2, PoolAssumption, PoolTypeOK DEF PoolTypeOK, PoolAssumption
  <2>2. QED
    BY <1>2, <2>1, PoolTypeOK DEF PoolTypeOK, GetNext, CountUse
<1>3. CASE /\ LeastUsed(HealthyAddresses, a) /\ CountUse(a)
           /\ UNCHANGED <<currentIndex, detailedStats>>
  BY <1>3, PoolTypeOK DEF PoolTypeOK, LeastUsed, HealthyAddresses, CountUse
<1>4. QED
  BY <1>1, <1>2, <1>3 DEF GetHealthyNext

LEMMA RecordedType ==
    ASSUME PoolTypeOK, NEW a, NEW success, NEW d \in Nat
    PROVE  Recorded(a, success, d) \in [Addresses -> IPv6Stats]
BY DEF PoolTypeOK, Recorded, IPv6Stats

-----------------------------------------------------------------------------
\* Sets of requests are finite, so they can be counted.
LEMMA RequestsFinite ==
    ASSUME FetcherAssumption, NEW S \in SUBSET Requests
    PROVE  IsFiniteSet(S) /\ Cardinality(S) \in Nat
<1>1. IsFiniteSet(Requests)
  BY FS_Interval DEF Requests, FetcherAssumption
<1>2. IsFiniteSet(S)
  BY <1>1, FS_Subset
<1>3. QED
  BY <1>2, FS_CardinalityType

\* A finite set keeps its size when one element leaves and another enters.
LEMMA SwapOne ==
    ASSUME NEW R, NEW S \in SUBSET R, NEW T \in SUBSET R, IsFiniteSet(S),
           NEW r \in S, NEW h \in R, h \notin S,
           \A q \in R : q \in T <=> q = h \/ (q \in S /\ q # r)
    PROVE  Cardinality(T) = Cardinality(S)
<1>1. T = (S \ {r}) \cup {h}
  OBVIOUS
<1>2. /\ IsFiniteSet(S \ {r})
      /\ Cardinality(S \ {r}) = Cardinality(S) - 1
      /\ Cardinality(S) \in Nat
  BY FS_RemoveElement, FS_CardinalityType
<1>3. h \notin S \ {r}
  OBVIOUS
<1>4. Cardinality((S \ {r}) \cup {h}) = Cardinality(S \ {r}) + 1
  BY <1>2, <1>3, FS_AddElement
<1>5. QED
  BY <1>1, <1>2, <1>4

LEMMA HeadIsQueued ==
    ASSUME FetcherAssumption, IInv, queue # <<>>
    PROVE  /\ Head(queue) \in Requests
           /\ Head(queue) = requestCount - Len(queue) + 1
           /\ phase[Head(queue)] = "queued"
           /\ Tail(queue) \in Seq(Requests)
           /\ Len(Tail(queue)) = Len(queue) - 1
           /\ \A i \in 1 .. Len(queue) - 1 : Tail(queue)[i] = queue[i + 1]
<1>1. queue \in Seq(Requests) /\ Len(queue) \in Nat /\ Len(queue) > 0
  BY DEF IInv, TypeOK
<1>2. Head(queue) = queue[1] /\ queue[1] = requestCount - Len(queue) + 1
  BY <1>1 DEF IInv, TypeOK, QueueInOrder
<1>3. Head(queue) \in Requests
  BY <1>1
<1>4. Head(queue) \in requestCount - Len(queue) + 1 .. requestCount
  BY <1>1, <1>2, <1>3 DEF IInv, TypeOK, QueueInOrder, Requests, FetcherAssumption
<1>5. phase[Head(queue)] = "queued"
  BY <1>3, <1>4 DEF IInv, QueueInOrder
<1>6. QED
  BY <1>1, <1>2, <1>3, <1>5

-----------------------------------------------------------------------------
LEMMA InitIInv == PoolAssumption /\ FetcherAssumption /\ Init => IInv
<1> SUFFICES ASSUME PoolAssumption, FetcherAssumption, Init PROVE IInv
  OBVIOUS
<1>1. PoolTypeOK
  BY DEF Init, PoolInit, PoolTypeOK, PoolAssumption, Addresses, IPv6Stats
<1>2. TypeOK
  BY <1>1 DEF Init, TypeOK, Phases, FetcherAssumption
<1>3. Working = {}
  BY DEF Init, Working, InPhase
<1>4. CounterIsExact
  BY <1>3, FS_EmptySet DEF Init, CounterIsExact, FetcherAssumption
<1>5. QueueInOrder /\ WorkConserving
  BY DEF Init, QueueInOrder, WorkConserving, Requests, FetcherAssumption
<1>6. QED
  BY <1>2, <1>4, <1>5 DEF IInv

LEMMA FetchIInv ==
    ASSUME PoolAssumption, FetcherAssumption, IInv,
           NEW r \in Requests, NEW a, Fetch(r, a)
    PROVE  IInv'
<1> USE PoolAssumption, FetcherAssumption DEF FetcherAssumption
<1>1. PoolTypeOK' /\ a \in Addresses \cup {NoAddress}
  BY PoolTypeStep DEF IInv, TypeOK, Fetch
<1>2. phase[r] = "idle" /\ r = requestCount + 1
  BY DEF Fetch, IInv, QueueInOrder, TypeOK
<1>3. Working \in SUBSET Requests
  BY DEF Working, InPhase
<1>4. CASE /\ Cardinality(Working) < Concurrency
           /\ phase' = [phase EXCEPT ![r] = "sent"]
           /\ concurrentRequests' = concurrentRequests + 1
           /\ maxConcurrent' = Higher(concurrentRequests + 1)
           /\ UNCHANGED queue
  <2>1. Working' = Working \cup {r} /\ r \notin Working
    BY <1>2, <1>4 DEF Working, InPhase, IInv, TypeOK
  <2>2. Cardinality(Working') = Cardinality(Working) + 1
    BY <2>1, <1>3, RequestsFinite, FS_AddElement
  <2>3. CounterIsExact'
    BY <1>4, <2>2, <1>3, RequestsFinite DEF IInv, CounterIsExact, Higher, TypeOK
  <2>4. queue = <<>>
    BY <1>4 DEF IInv, WorkConserving, CounterIsExact
  <2>5. TypeOK'
    BY <1>1, <1>4 DEF IInv, TypeOK, Fetch, Higher, Phases
  <2>6. QueueInOrder'
    BY <1>2, <1>4, <2>4 DEF IInv, TypeOK, QueueInOrder, Fetch, Requests
  <2>7. QED
    BY <1>4, <2>3, <2>4, <2>5, <2>6 DEF IInv, WorkConserving
<1>5. CASE /\ Cardinality(Working) >= Concurrency
           /\ phase' = [phase EXCEPT ![r] = "queued"]
           /\ queue' = Append(queue, r)
           /\ UNCHANGED <<concurrentRequests, maxConcurrent>>
  <2>1. Working' = Working
    BY <1>2, <1>5 DEF Working, InPhase, IInv, TypeOK
  <2>2. CounterIsExact' /\ concurrentRequests' = Concurrency
    BY <1>5, <2>1, <1>3, RequestsFinite DEF IInv, CounterIsExact, TypeOK
  <2>3. TypeOK'
    BY <1>1, <1>5 DEF IInv, TypeOK, Fetch, Phases
  <2>4. /\ Len(queue) \in Nat
        /\ Len(queue') = Len(queue) + 1
        /\ \A i \in 1 .. Len(queue) : queue'[i] = queue[i]
        /\ queue'[Len(queue) + 1] = r
    BY <1>5 DEF IInv, TypeOK
  <2>5. requestCount' = requestCount + 1 /\ requestCount \in Nat
    BY <1>2 DEF Fetch, IInv, TypeOK
  <2>6. \A i \in 1 .. Len(queue') :
           queue'[i] = requestCount' - Len(queue') + i
    BY <2>4, <2>5, <1>2 DEF IInv, QueueInOrder
  <2>7. \A q \in Requests :
           /\ phase'[q] = "idle" <=> q > requestCount'
           /\ phase'[q] = "queued" <=>
                 q \in requestCount' - Len(queue') + 1 .. requestCount'
    BY <1>2, <1>5, <2>4, <2>5 DEF IInv, QueueInOrder, TypeOK, Requests
  <2>8. QueueInOrder'
    BY <2>4, <2>5, <2>6, <2>7 DEF IInv, QueueInOrder
  <2>9. QED
    BY <2>2, <2>3, <2>8 DEF IInv, WorkConserving
<1>6. QED
  BY <1>4, <1>5 DEF Fetch

LEMMA CompleteIInv ==
    ASSUME PoolAssumption, FetcherAssumption, IInv,
           NEW r \in Requests, NEW code \in StatusCodes \cup {0, 200},
           NEW d \in Durations,
           phase[r] \in {"sent", "receiving"}, Complete(r, code, d)
    PROVE  IInv'
<1> USE PoolAssumption, FetcherAssumption DEF FetcherAssumption
<1>1. Working \in SUBSET Requests /\ r \in Working
  BY DEF Working, InPhase
<1>2. Cardinality(Working) > 0
  BY <1>1, RequestsFinite, FS_EmptySet
<1>3. PoolTypeOK' /\ statusCode' \in [Requests -> StatusCodes \cup {0, 200}]
  <2>1. d \in Nat
    OBVIOUS
  <2>2. PoolTypeOK
    BY DEF IInv, TypeOK
  <2>3. detailedStats' \in [Addresses -> IPv6Stats]
    BY <2>1, <2>2, RecordedType DEF Complete, RecordRequest
  <2>4. QED
    BY <2>2, <2>3 DEF PoolTypeOK, IInv, TypeOK, Complete, RecordRequest
<1>4. CASE /\ queue = <<>>
           /\ phase' = [phase EXCEPT ![r] = "done"]
           /\ concurrentRequests' = concurrentRequests - 1
           /\ UNCHANGED <<queue, maxConcurrent>>
  <2>1. Working' = Working \ {r}
    BY <1>4 DEF Working, InPhase, IInv, TypeOK
  <2>2. Cardinality(Working') = Cardinality(Working) - 1
    BY <2>1, <1>1, RequestsFinite, FS_RemoveElement
  <2>3. CounterIsExact'
    BY <1>4, <2>2, <1>1, RequestsFinite DEF IInv, CounterIsExact, TypeOK
  <2>4. TypeOK'
    BY <1>2, <1>3, <1>4 DEF IInv, TypeOK, Phases, Complete, CounterIsExact
  <2>5. QueueInOrder'
    BY <1>4 DEF IInv, TypeOK, QueueInOrder, Complete
  <2>6. QED
    BY <1>4, <2>3, <2>4, <2>5 DEF IInv, WorkConserving
<1>5. CASE /\ queue # <<>>
           /\ phase' = [phase EXCEPT ![r] = "done", ![Head(queue)] = "sent"]
           /\ queue' = Tail(queue)
           /\ concurrentRequests' = (concurrentRequests - 1) + 1
           /\ maxConcurrent' = Higher((concurrentRequests - 1) + 1)
  <2>1. PICK h \in Requests :
        /\ h = Head(queue)
        /\ h = requestCount - Len(queue) + 1
        /\ phase[h] = "queued"
        /\ queue' \in Seq(Requests)
        /\ Len(queue') = Len(queue) - 1
        /\ \A i \in 1 .. Len(queue) - 1 : queue'[i] = queue[i + 1]
    BY <1>5, HeadIsQueued
  <2>2. h # r /\ h \notin Working
    BY <2>1 DEF Working, InPhase
  <2>3. phase' = [phase EXCEPT ![r] = "done", ![h] = "sent"]
    BY <1>5, <2>1
  <2>4. \A q \in Requests :
           phase'[q] = IF q = h THEN "sent"
                       ELSE IF q = r THEN "done" ELSE phase[q]
    BY <2>1, <2>2, <2>3 DEF IInv, TypeOK
  <2>5. Cardinality(Working') = Cardinality(Working)
    <3>1. \A q \in Requests :
             q \in Working' <=> q = h \/ (q \in Working /\ q # r)
      BY <2>4, <2>2 DEF Working, InPhase
    <3>2. Working' \in SUBSET Requests
      BY DEF Working, InPhase
    <3>3. IsFiniteSet(Working)
      BY <1>1, RequestsFinite
    <3>4. PICK W \in SUBSET Requests : W = Working'
      BY <3>2
    <3>5. \A q \in Requests : q \in W <=> q = h \/ (q \in Working /\ q # r)
      BY <3>1, <3>4
    <3>6. Cardinality(W) = Cardinality(Working)
      BY <3>3, <3>5, <1>1, <2>1, <2>2, SwapOne
    <3>7. QED
      BY <3>4, <3>6
  <2>6. concurrentRequests' = concurrentRequests /\ maxConcurrent' = maxConcurrent
    BY <1>5 DEF IInv, TypeOK, CounterIsExact, Higher
  <2>7. CounterIsExact' /\ WorkConserving'
    BY <1>5, <2>5, <2>6 DEF IInv, CounterIsExact, WorkConserving
  <2>8. phase' \in [Requests -> Phases]
    BY <2>3, <2>1 DEF IInv, TypeOK, Phases
  <2>9. TypeOK'
    BY <1>3, <2>1, <2>6, <2>8 DEF IInv, TypeOK, Complete
  <2>10. requestCount' = requestCount /\ requestCount \in Nat /\ Len(queue) \in Nat
    BY DEF Complete, IInv, TypeOK
  <2>11. \A i \in 1 .. Len(queue') :
            queue'[i] = requestCount' - Len(queue') + i
    BY <2>1, <2>10 DEF IInv, QueueInOrder
  <2>12. \A q \in Requests :
            /\ phase'[q] = "idle" <=> q > requestCount'
            /\ phase'[q] = "queued" <=>
                  q \in requestCount' - Len(queue') + 1 .. requestCount'
    <3>2. \A q \in Requests :
             /\ phase[q] = "idle" <=> q > requestCount
             /\ phase[q] = "queued" <=>
                   q \in requestCount - Len(queue) + 1 .. requestCount
      BY DEF IInv, QueueInOrder
    <3>3. h <= requestCount /\ r <= requestCount
      BY <2>1, <2>10, <3>2 DEF Requests
    <3>4. \A q \in Requests : phase'[q] = "idle" <=> phase[q] = "idle"
      BY <2>4, <2>1, <2>2
    <3>5. \A q \in Requests : phase'[q] = "queued" <=> phase[q] = "queued" /\ q # h
      BY <2>4, <2>2
    <3>6. \A q \in Requests :
             phase'[q] = "queued" <=>
               q \in requestCount - (Len(queue) - 1) + 1 .. requestCount
      <4>1. h = requestCount - Len(queue) + 1 /\ Requests \in SUBSET Nat
        BY <2>1 DEF Requests
      <4> SUFFICES ASSUME NEW q \in Requests
                   PROVE  phase'[q] = "queued" <=>
                            q \in requestCount - (Len(queue) - 1) + 1 .. requestCount
        OBVIOUS
      <4>2. phase'[q] = "queued" <=>
              q \in requestCount - Len(queue) + 1 .. requestCount /\ q # h
        BY <3>2, <3>5
      <4>3. q \in Nat
        BY <4>1
      <4>4. QED
        BY <4>1, <4>2, <4>3, <2>10
    <3>7. QED
      BY <3>2, <3>4, <3>6, <2>1, <2>10
  <2>13. QED
    BY <2>1, <2>7, <2>9, <2>10, <2>11, <2>12 DEF IInv, QueueInOrder
<1>6. QED
  BY <1>4, <1>5 DEF Complete

LEMMA MoveIInv ==
    ASSUME FetcherAssumption, IInv, NEW r \in Requests, NEW p \in {"receiving", "lost"},
           phase[r] \in {"sent", "receiving"},
           phase' = [phase EXCEPT ![r] = p],
           header' \in [Requests -> StatusCodes \cup {NoStatus}],
           UNCHANGED <<poolVars, requestCount, ipv6, queue, concurrentRequests,
                       maxConcurrent, statusCode>>
    PROVE  IInv'
<1>1. Working' = Working
  BY DEF Working, InPhase, IInv, TypeOK
<1>2. TypeOK'
  BY DEF IInv, TypeOK, PoolTypeOK, poolVars, Phases
<1>3. CounterIsExact' /\ WorkConserving'
  BY <1>1 DEF IInv, CounterIsExact, WorkConserving
<1>4. QueueInOrder'
  BY DEF IInv, TypeOK, QueueInOrder
<1>5. QED
  BY <1>2, <1>3, <1>4 DEF IInv

LEMMA NextIInv ==
    PoolAssumption /\ FetcherAssumption /\ IInv /\ [Next]_vars => IInv'
<1> SUFFICES ASSUME PoolAssumption, FetcherAssumption, IInv, [Next]_vars
             PROVE  IInv'
  OBVIOUS
<1>1. ASSUME NEW r \in Requests, NEW a, Fetch(r, a) PROVE IInv'
  BY <1>1, FetchIInv
<1>2. ASSUME NEW r \in Requests, NEW h \in StatusCodes \cup {NoStatus}, Headers(r, h)
      PROVE  IInv'
  <2>1. header' \in [Requests -> StatusCodes \cup {NoStatus}]
    BY <1>2 DEF Headers, IInv, TypeOK
  <2>2. QED
    BY <1>2, <2>1, MoveIInv DEF Headers
<1>3. ASSUME NEW r \in Requests, NEW d \in Durations, End(r, d) PROVE IInv'
  <2>1. PICK code \in StatusCodes \cup {0, 200} : code = StatusOf(header[r])
    <3>1. header[r] \in StatusCodes \cup {NoStatus}
      BY <1>3 DEF IInv, TypeOK
    <3>2. CASE header[r] = NoStatus
      BY <3>2 DEF StatusOf
    <3>3. CASE header[r] # NoStatus
      BY <3>1, <3>3 DEF StatusOf
    <3>4. QED
      BY <3>2, <3>3
  <2>2. Complete(r, code, d) /\ phase[r] = "receiving"
    BY <1>3, <2>1 DEF End, Complete, RecordRequest
  <2>3. QED
    BY <2>2, CompleteIInv
<1>4. ASSUME NEW r \in Requests, NEW d \in Durations, Fail(r, d) PROVE IInv'
  BY <1>4, CompleteIInv DEF Fail
<1>5. ASSUME NEW r \in Requests, LoseBody(r) PROVE IInv'
  <2>1. header' \in [Requests -> StatusCodes \cup {NoStatus}]
    BY <1>5 DEF LoseBody, IInv, TypeOK
  <2>2. QED
    BY <1>5, <2>1, MoveIInv DEF LoseBody
<1>6. CASE UNCHANGED vars
  <2>1. Working' = Working
    BY <1>6 DEF vars, fetchVars, Working, InPhase
  <2>2. QED
    BY <1>6, <2>1 DEF vars, fetchVars, poolVars, IInv, TypeOK, PoolTypeOK,
          CounterIsExact, QueueInOrder, WorkConserving
<1>7. QED
  BY <1>1, <1>2, <1>3, <1>4, <1>5, <1>6 DEF Next

-----------------------------------------------------------------------------
\* Every state of the fetch path satisfies the inductive invariant: workers and
\* queue are what utls-fetcher.ts and fastq take them for.
THEOREM FetcherInvariant == Spec => []IInv
<1>1. Init => IInv
  BY InitIInv, PoolAssumption, FetcherAssumption
<1>2. IInv /\ [Next]_vars => IInv'
  BY NextIInv, PoolAssumption, FetcherAssumption
<1>3. QED
  BY <1>1, <1>2, PTL DEF Spec

\* The variables of the fetch path keep their types.
THEOREM TypeCorrect == Spec => []TypeOK
<1>1. IInv => TypeOK
  BY DEF IInv
<1>2. QED
  BY <1>1, FetcherInvariant, PTL

\* The concurrency counter of worker is exact and bounded.
THEOREM CounterCorrect == Spec => []CounterIsExact
<1>1. IInv => CounterIsExact
  BY DEF IInv
<1>2. QED
  BY <1>1, FetcherInvariant, PTL

-----------------------------------------------------------------------------
(* Accounting: uses of an address against its results and its requests.    *)

LEMMA AccountingFetch ==
    ASSUME PoolAssumption, FetcherAssumption, IInv, Accounting,
           NEW r \in Requests, NEW a, Fetch(r, a)
    PROVE  Accounting'
<1> SUFFICES ASSUME NEW b \in Addresses
             PROVE  usageStats'[b] = TotalRequests(b)' + Cardinality(InFlight(b)')
  BY DEF Accounting
<1>1. /\ a \in Addresses \cup {NoAddress}
      /\ a \notin Addresses => usageStats' = usageStats
      /\ a \in Addresses => usageStats' = [usageStats EXCEPT ![a] = @ + 1]
      /\ detailedStats' = detailedStats
  BY PoolTypeStep DEF IInv, TypeOK, Fetch
<1>2. phase[r] = "idle" /\ PoolTypeOK
  BY DEF Fetch, IInv, QueueInOrder, TypeOK
<1>3. TotalRequests(b)' = TotalRequests(b)
  BY <1>1 DEF TotalRequests
<1>4. InFlight(b) \in SUBSET Requests /\ r \notin InFlight(b)
  BY <1>2 DEF InFlight, InPhase
<1>5. IsFiniteSet(InFlight(b)) /\ Cardinality(InFlight(b)) \in Nat
  BY <1>4, RequestsFinite
<1>6. usageStats[b] = TotalRequests(b) + Cardinality(InFlight(b))
  BY DEF Accounting
<1>7. /\ phase' \in [Requests -> Phases]
      /\ phase'[r] \in {"sent", "queued"}
      /\ \A q \in Requests \ {r} : phase'[q] = phase[q]
  BY DEF Fetch, IInv, TypeOK, Phases
<1>8. /\ ipv6'[r] = a
      /\ \A q \in Requests \ {r} : ipv6'[q] = ipv6[q]
  BY DEF Fetch, IInv, TypeOK
<1>9. CASE a = b
  <2>1. InFlight(b)' = InFlight(b) \cup {r}
    BY <1>7, <1>8, <1>9 DEF InFlight, InPhase
  <2>2. Cardinality(InFlight(b) \cup {r}) = Cardinality(InFlight(b)) + 1
    BY <1>4, <1>5, FS_AddElement
  <2>3. usageStats'[b] = usageStats[b] + 1 /\ TotalRequests(b) \in Nat
    BY <1>1, <1>2, <1>9 DEF PoolTypeOK, TotalRequests, IPv6Stats
  <2>4. QED
    BY <1>3, <1>5, <1>6, <2>1, <2>2, <2>3
<1>10. CASE a # b
  <2>1. InFlight(b)' = InFlight(b)
    BY <1>2, <1>7, <1>8, <1>10 DEF InFlight, InPhase
  <2>2. usageStats'[b] = usageStats[b]
    BY <1>1, <1>2, <1>10 DEF PoolTypeOK
  <2>3. QED
    BY <1>3, <1>6, <2>1, <2>2
<1>11. QED
  BY <1>9, <1>10

LEMMA AccountingComplete ==
    ASSUME PoolAssumption, FetcherAssumption, IInv, Accounting,
           NEW r \in Requests, NEW code, NEW d \in Durations,
           phase[r] \in {"sent", "receiving"}, Complete(r, code, d)
    PROVE  Accounting'
<1> SUFFICES ASSUME NEW b \in Addresses
             PROVE  usageStats'[b] = TotalRequests(b)' + Cardinality(InFlight(b)')
  BY DEF Accounting
<1>1. PoolTypeOK /\ usageStats' = usageStats /\ ipv6' = ipv6
  BY DEF IInv, TypeOK, Complete, RecordRequest
<1>2. usageStats[b] = TotalRequests(b) + Cardinality(InFlight(b))
  BY DEF Accounting
<1>3. InFlight(b) \in SUBSET Requests
  BY DEF InFlight, InPhase
<1>4. IsFiniteSet(InFlight(b)) /\ Cardinality(InFlight(b)) \in Nat
  BY <1>3, RequestsFinite
<1>5. /\ phase'[r] = "done"
      /\ \A q \in Requests \ {r} :
           phase'[q] \in {"queued", "sent", "receiving", "lost"} <=>
           phase[q] \in {"queued", "sent", "receiving", "lost"}
  <2>1. CASE queue = <<>>
    BY <2>1 DEF Complete, IInv, TypeOK
  <2>2. CASE queue # <<>>
    <3>1. PICK h \in Requests : h = Head(queue) /\ phase[h] = "queued"
      BY <2>2, HeadIsQueued
    <3>2. phase' = [phase EXCEPT ![r] = "done", ![h] = "sent"] /\ h # r
      BY <2>2, <3>1 DEF Complete
    <3>3. QED
      BY <3>1, <3>2 DEF IInv, TypeOK
  <2>3. QED
    BY <2>1, <2>2
<1>6. detailedStats' = Recorded(ipv6[r], Success(code), d)
  BY DEF Complete, RecordRequest
<1>7. TotalRequests(b) \in Nat
  BY <1>1 DEF PoolTypeOK, TotalRequests, IPv6Stats
<1>8. CASE ipv6[r] = b
  <2>1. InFlight(b)' = InFlight(b) \ {r} /\ r \in InFlight(b)
    BY <1>1, <1>5, <1>8 DEF InFlight, InPhase
  <2>2. Cardinality(InFlight(b) \ {r}) = Cardinality(InFlight(b)) - 1
    BY <1>4, <2>1, FS_RemoveElement
  <2>3. TotalRequests(b)' = TotalRequests(b) + 1
    BY <1>1, <1>6, <1>8 DEF Recorded, TotalRequests, PoolTypeOK, IPv6Stats
  <2>4. QED
    BY <1>1, <1>2, <1>4, <1>7, <2>1, <2>2, <2>3
<1>9. CASE ipv6[r] # b
  <2>1. InFlight(b)' = InFlight(b)
    BY <1>1, <1>5, <1>9 DEF InFlight, InPhase
  <2>2. TotalRequests(b)' = TotalRequests(b)
    BY <1>1, <1>6, <1>9 DEF Recorded, TotalRequests, PoolTypeOK
  <2>3. QED
    BY <1>1, <1>2, <2>1, <2>2
<1>10. QED
  BY <1>8, <1>9

LEMMA AccountingStep ==
    PoolAssumption /\ FetcherAssumption /\ IInv /\ Accounting /\ [Next]_vars => Accounting'
<1> SUFFICES ASSUME PoolAssumption, FetcherAssumption, IInv, Accounting, [Next]_vars
             PROVE  Accounting'
  OBVIOUS
<1>1. ASSUME NEW r \in Requests, NEW a, Fetch(r, a) PROVE Accounting'
  BY <1>1, AccountingFetch
<1>2. ASSUME NEW r \in Requests, NEW p \in {"receiving", "lost"},
             phase[r] \in {"sent", "receiving"},
             phase' = [phase EXCEPT ![r] = p],
             UNCHANGED <<poolVars, ipv6>>
      PROVE  Accounting'
  <2>1. \A a : InFlight(a)' = InFlight(a) /\ TotalRequests(a)' = TotalRequests(a)
    BY <1>2 DEF InFlight, InPhase, IInv, TypeOK, TotalRequests, poolVars
  <2>2. QED
    BY <1>2, <2>1 DEF Accounting, poolVars
<1>3. ASSUME NEW r \in Requests, NEW h, Headers(r, h) PROVE Accounting'
  BY <1>2, <1>3 DEF Headers
<1>4. ASSUME NEW r \in Requests, NEW d \in Durations, End(r, d) PROVE Accounting'
  <2>1. PICK code : code = StatusOf(header[r])
    OBVIOUS
  <2>2. Complete(r, code, d) /\ phase[r] = "receiving"
    BY <1>4, <2>1 DEF End, Complete, RecordRequest
  <2>3. QED
    BY <2>2, AccountingComplete
<1>5. ASSUME NEW r \in Requests, NEW d \in Durations, Fail(r, d) PROVE Accounting'
  BY <1>5, AccountingComplete DEF Fail
<1>6. ASSUME NEW r \in Requests, LoseBody(r) PROVE Accounting'
  BY <1>2, <1>6 DEF LoseBody
<1>7. CASE UNCHANGED vars
  <2>1. \A a : InFlight(a)' = InFlight(a) /\ TotalRequests(a)' = TotalRequests(a)
    BY <1>7 DEF InFlight, InPhase, TotalRequests, vars, poolVars, fetchVars
  <2>2. QED
    BY <1>7, <2>1 DEF Accounting, vars, poolVars
<1>8. QED
  BY <1>1, <1>3, <1>4, <1>5, <1>6, <1>7 DEF Next

\* Every use of an address is a recorded result or a request in flight.
THEOREM AccountingCorrect == Spec => []Accounting
<1>1. Init => Accounting
  <2> SUFFICES ASSUME Init PROVE Accounting
    OBVIOUS
  <2>1. \A a \in Addresses : InFlight(a) = {}
    BY DEF Init, InFlight, InPhase
  <2>2. \A a \in Addresses : TotalRequests(a) = 0 /\ usageStats[a] = 0
    BY DEF Init, PoolInit, TotalRequests
  <2>3. QED
    BY <2>1, <2>2, FS_EmptySet DEF Accounting
<1>2. IInv /\ Accounting /\ [Next]_vars => Accounting'
  BY AccountingStep, PoolAssumption, FetcherAssumption
<1>3. QED
  BY <1>1, <1>2, FetcherInvariant, PTL DEF Spec

-----------------------------------------------------------------------------
(* Refinement: the fetch path is a work-conserving first-come-first-served *)
(* service.                                                                *)

Answered == InPhase({"done"})

LEMMA StartedIsPrefix ==
    ASSUME FetcherAssumption, IInv
    PROVE  Service!Started = 1 .. requestCount - Len(queue)
<1> USE FetcherAssumption DEF FetcherAssumption
<1>1. PICK k \in Nat : /\ requestCount \in 0 .. MaxRequests
                      /\ Len(queue) \in Nat
                      /\ k = requestCount - Len(queue)
  <2>1. requestCount - Len(queue) \in Nat
    BY DEF IInv, TypeOK, QueueInOrder
  <2>2. QED
    BY <2>1 DEF IInv, TypeOK
<1>2. 1 .. k = Answered \cup Working
  <2>1. \A r \in Requests : r <= k <=> phase[r] \notin {"idle", "queued"}
    <3>1. Requests \in SUBSET Int
      BY DEF Requests
    <3>2. QED
      BY <1>1, <3>1 DEF IInv, QueueInOrder
  <2>2. \A r \in Requests : r <= k <=> r \in Answered \cup Working
    BY <2>1 DEF IInv, TypeOK, Phases, Answered, Working, InPhase
  <2>3. Answered \cup Working \in SUBSET Requests
    BY DEF Answered, Working, InPhase
  <2>4. QED
    BY <1>1, <2>2, <2>3 DEF Requests
<1>3. Answered \cap Working = {}
  BY DEF Answered, Working, InPhase
<1>4. Answered \in SUBSET Requests /\ Working \in SUBSET Requests
  BY DEF Answered, Working, InPhase
<1>5. Cardinality(1 .. k) = Cardinality(Answered) + Cardinality(Working)
  <2>1. Cardinality(Answered \cap Working) = 0
    BY <1>3, FS_EmptySet
  <2>2. /\ IsFiniteSet(Answered) /\ Cardinality(Answered) \in Nat
        /\ IsFiniteSet(Working) /\ Cardinality(Working) \in Nat
    BY <1>4, RequestsFinite
  <2>3. Cardinality(Answered \cup Working) =
          Cardinality(Answered) + Cardinality(Working) - Cardinality(Answered \cap Working)
    BY <2>2, FS_Union
  <2>4. Cardinality(1 .. k) = Cardinality(Answered \cup Working)
    BY <1>2, Zenon
  <2>5. QED
    BY <2>1, <2>2, <2>3, <2>4
<1>6. Cardinality(1 .. k) = k
  BY <1>1, FS_Interval
<1>7. Cardinality(Answered) \in Nat /\ Cardinality(Working) \in Nat
  BY <1>4, RequestsFinite
<1>8. PICK reach \in Nat : reach = Cardinality(Answered) + Concurrency
  BY <1>7
<1>9. Service!Started = 1 .. (IF requestCount < reach THEN requestCount ELSE reach)
  <2>1. Service!Started =
          LET n == Cardinality(Answered) + Concurrency
          IN  1 .. (IF requestCount < n THEN requestCount ELSE n)
    BY DEF Service!Started, Answered, Service!Cardinality, Cardinality
  <2>2. QED
    BY <1>8, <2>1
<1>10. CASE queue = <<>>
  <2>1. k = requestCount /\ requestCount <= reach
    BY <1>1, <1>5, <1>6, <1>7, <1>8, <1>10 DEF IInv, CounterIsExact, TypeOK
  <2>2. (IF requestCount < reach THEN requestCount ELSE reach) = k
    BY <1>1, <1>8, <2>1
  <2>3. QED
    BY <1>1, <1>9, <2>2
<1>11. CASE queue # <<>>
  <2>1. k = reach /\ k <= requestCount
    BY <1>1, <1>5, <1>6, <1>8, <1>11 DEF IInv, CounterIsExact, WorkConserving
  <2>2. (IF requestCount < reach THEN requestCount ELSE reach) = k
    BY <1>1, <1>8, <2>1
  <2>3. QED
    BY <1>1, <1>9, <2>2
<1>12. QED
  BY <1>1, <1>10, <1>11

LEMMA CompleteAnswers ==
    ASSUME FetcherAssumption, IInv,
           NEW r \in Requests, NEW code, NEW d,
           phase[r] \in {"sent", "receiving"}, Complete(r, code, d)
    PROVE  Service!Answer
<1>1. Answered' = Answered \cup {r}
  <2>1. CASE queue = <<>>
    BY <2>1 DEF Complete, Answered, InPhase, IInv, TypeOK
  <2>2. CASE queue # <<>>
    <3>1. PICK h \in Requests : h = Head(queue) /\ phase[h] = "queued"
      BY <2>2, HeadIsQueued
    <3>2. phase' = [phase EXCEPT ![r] = "done", ![h] = "sent"] /\ h # r
      BY <2>2, <3>1 DEF Complete
    <3>3. \A q \in Requests : phase'[q] = "done" <=> q = r \/ phase[q] = "done"
      BY <3>1, <3>2 DEF IInv, TypeOK
    <3>4. QED
      BY <3>3 DEF Answered, InPhase
  <2>3. QED
    BY <2>1, <2>2
<1>2. r \in Service!InService
  <2>1. r \in 1 .. requestCount - Len(queue)
    <3>1. requestCount \in Nat /\ Len(queue) \in Nat /\ r \in Nat /\ r >= 1
      BY DEF IInv, TypeOK, Requests
    <3>2. r <= requestCount /\ r \notin requestCount - Len(queue) + 1 .. requestCount
      BY <3>1 DEF IInv, QueueInOrder
    <3>3. QED
      BY <3>1, <3>2
  <2>2. r \notin Answered
    BY DEF Answered, InPhase
  <2>3. QED
    BY <2>1, <2>2, StartedIsPrefix DEF Service!InService, Answered
<1>3. requestCount' = requestCount
  BY DEF Complete
<1>4. QED
  BY <1>1, <1>2, <1>3 DEF Service!Answer, Answered

LEMMA ServiceStep ==
    FetcherAssumption /\ IInv /\ [Next]_vars =>
        [Service!ServiceNext]_(Service!serviceVars)
<1> SUFFICES ASSUME FetcherAssumption, IInv, [Next]_vars
             PROVE  Service!ServiceNext \/ UNCHANGED <<requestCount, Answered>>
  BY DEF Service!serviceVars, Answered
<1>1. ASSUME NEW r \in Requests, NEW a, Fetch(r, a) PROVE Service!ServiceNext
  <2>1. phase[r] = "idle"
    BY <1>1 DEF Fetch, IInv, QueueInOrder, TypeOK
  <2>2. Answered' = Answered
    <3>1. \A q \in Requests : phase'[q] = "done" <=> phase[q] = "done"
      BY <1>1, <2>1 DEF Fetch, IInv, TypeOK
    <3>2. QED
      BY <3>1 DEF Answered, InPhase
  <2>3. QED
    BY <1>1, <2>2 DEF Fetch, Service!ServiceNext, Service!Arrive, Answered
<1>2. ASSUME NEW r \in Requests, NEW p \in {"receiving", "lost"},
             phase[r] \in {"sent", "receiving"},
             phase' = [phase EXCEPT ![r] = p],
             UNCHANGED requestCount
      PROVE  UNCHANGED <<requestCount, Answered>>
  BY <1>2 DEF Answered, InPhase, IInv, TypeOK
<1>3. ASSUME NEW r \in Requests, NEW h, Headers(r, h)
      PROVE  UNCHANGED <<requestCount, Answered>>
  BY <1>2, <1>3 DEF Headers
<1>4. ASSUME NEW r \in Requests, NEW d \in Durations, End(r, d)
      PROVE  Service!ServiceNext
  <2>1. PICK code : code = StatusOf(header[r])
    OBVIOUS
  <2>2. Complete(r, code, d) /\ phase[r] = "receiving"
    BY <1>4, <2>1 DEF End, Complete, RecordRequest
  <2>3. QED
    BY <2>2, CompleteAnswers DEF Service!ServiceNext
<1>5. ASSUME NEW r \in Requests, NEW d \in Durations, Fail(r, d)
      PROVE  Service!ServiceNext
  BY <1>5, CompleteAnswers DEF Fail, Service!ServiceNext
<1>6. ASSUME NEW r \in Requests, LoseBody(r)
      PROVE  UNCHANGED <<requestCount, Answered>>
  BY <1>2, <1>6 DEF LoseBody
<1>7. CASE UNCHANGED vars
  BY <1>7 DEF vars, fetchVars, Answered, InPhase
<1>8. QED
  BY <1>1, <1>3, <1>4, <1>5, <1>6, <1>7 DEF Next

\* The fetch path implements the service its callers count on.
THEOREM ServiceImplemented == Spec => ServiceKept
<1>1. Init => Service!ServiceInit
  BY DEF Init, Service!ServiceInit, InPhase
<1>2. IInv /\ [Next]_vars => [Service!ServiceNext]_(Service!serviceVars)
  BY ServiceStep, FetcherAssumption
<1>3. QED
  BY <1>1, <1>2, FetcherInvariant, PTL DEF Spec, ServiceKept, Service!ServiceSpec

-----------------------------------------------------------------------------
\* The addresses of the history are healthy now, and share the load.
HistoryInv ==
    /\ neverSick \subseteq HealthyAddresses
    /\ LoadIsBalanced

LEMMA SelectionBalances ==
    ASSUME PoolAssumption, PoolTypeOK, HistoryInv, NEW a, GetHealthyNext(a)
    PROVE  \A b, c \in neverSick : usageStats'[b] - usageStats'[c] \in -1 .. 1
<1> SUFFICES ASSUME NEW b \in neverSick, NEW c \in neverSick
             PROVE  usageStats'[b] - usageStats'[c] \in -1 .. 1
  OBVIOUS
<1>1. b \in HealthyAddresses /\ c \in HealthyAddresses
  BY DEF HistoryInv
<1>2. /\ b \in Addresses /\ c \in Addresses /\ Count > 0
      /\ usageStats[b] \in Nat /\ usageStats[c] \in Nat
  BY <1>1, PoolAssumption DEF HealthyAddresses, Addresses, PoolTypeOK, PoolAssumption
<1>3. LeastUsed(HealthyAddresses, a) /\ CountUse(a)
  BY <1>1, <1>2 DEF GetHealthyNext
<1>4. /\ a \in Addresses /\ usageStats[a] \in Nat
      /\ usageStats[a] <= usageStats[b] /\ usageStats[a] <= usageStats[c]
  BY <1>1, <1>2, <1>3 DEF LeastUsed, HealthyAddresses, PoolTypeOK
<1>5. /\ usageStats[b] - usageStats[c] \in -1 .. 1
      /\ a \in neverSick => /\ usageStats[b] - usageStats[a] \in -1 .. 1
                            /\ usageStats[c] - usageStats[a] \in -1 .. 1
  BY DEF HistoryInv, LoadIsBalanced
<1>6. \A x \in Addresses : usageStats'[x] = usageStats[x] + (IF x = a THEN 1 ELSE 0)
  BY <1>3, <1>4 DEF CountUse, PoolTypeOK
<1>7. QED
  BY <1>2, <1>4, <1>5, <1>6

LEMMA HistoryStep ==
    PoolAssumption /\ IInv /\ HistoryInv /\ [HistoryNext]_historyVars => HistoryInv'
<1> SUFFICES ASSUME PoolAssumption, IInv, HistoryInv, [HistoryNext]_historyVars
             PROVE  HistoryInv'
  OBVIOUS
<1>1. CASE HistoryNext
  <2>1. neverSick' \subseteq neverSick /\ neverSick' \subseteq HealthyAddresses'
    BY <1>1 DEF HistoryNext
  <2>2. \A b, c \in neverSick : usageStats'[b] - usageStats'[c] \in -1 .. 1
    <3>1. ASSUME NEW r, NEW a, Fetch(r, a)
          PROVE  \A b, c \in neverSick : usageStats'[b] - usageStats'[c] \in -1 .. 1
      BY <3>1, SelectionBalances DEF Fetch, IInv, TypeOK
    <3>2. ASSUME usageStats' = usageStats
          PROVE  \A b, c \in neverSick : usageStats'[b] - usageStats'[c] \in -1 .. 1
      BY <3>2 DEF HistoryInv, LoadIsBalanced
    <3>3. (\E r, a : Fetch(r, a)) \/ usageStats' = usageStats
      BY <1>1 DEF HistoryNext, Next, Headers, End, Fail, LoseBody, Complete,
            RecordRequest, poolVars
    <3>4. QED
      BY <3>1, <3>2, <3>3
  <2>3. QED
    BY <2>1, <2>2 DEF HistoryInv, LoadIsBalanced
<1>2. CASE UNCHANGED historyVars
  BY <1>2 DEF historyVars, vars, poolVars, HistoryInv, LoadIsBalanced,
        HealthyAddresses, Healthy, TotalRequests
<1>3. QED
  BY <1>1, <1>2

\* Addresses that have never been sick differ by at most one use.
THEOREM LoadBalanceCorrect == HistorySpec => []LoadIsBalanced
<1>1. HistoryInit => IInv /\ HistoryInv
  <2> SUFFICES ASSUME HistoryInit PROVE IInv /\ HistoryInv
    OBVIOUS
  <2>1. IInv
    BY InitIInv, PoolAssumption, FetcherAssumption DEF HistoryInit
  <2>2. neverSick \subseteq HealthyAddresses
    BY PoolAssumption DEF HistoryInit, Init, PoolInit, HealthyAddresses, Healthy,
          TotalRequests, PoolAssumption
  <2>3. LoadIsBalanced
    BY DEF HistoryInit, Init, PoolInit, LoadIsBalanced
  <2>4. QED
    BY <2>1, <2>2, <2>3 DEF HistoryInv
<1>2. IInv /\ HistoryInv /\ [HistoryNext]_historyVars => (IInv /\ HistoryInv)'
  <2>1. [HistoryNext]_historyVars => [Next]_vars
    BY DEF HistoryNext, historyVars
  <2>2. QED
    BY <2>1, NextIInv, HistoryStep, PoolAssumption, FetcherAssumption
<1>3. HistoryInv => LoadIsBalanced
  BY DEF HistoryInv
<1>4. QED
  BY <1>1, <1>2, <1>3, PTL DEF HistorySpec
=============================================================================

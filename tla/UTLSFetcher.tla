---------------------------- MODULE UTLSFetcher -----------------------------
(***************************************************************************)
(* The fetch path of a node: server/utls-fetcher.ts with the address pool  *)
(* it draws from.  A request takes its address when it arrives, waits for  *)
(* one of the workers of the fastq queue, is sent to the local uTLS proxy, *)
(* and is recorded against its address when it completes.                  *)
(*                                                                         *)
(* Steps are those of the event loop: a callback of the HTTP client, or a  *)
(* call of fetch.  The proxy and the connection to it are the environment. *)
(***************************************************************************)
EXTENDS IPv6Pool, Sequences, FiniteSets

CONSTANTS
    Concurrency,    (* workers of the queue (utls.concurrency)               *)
    MaxRequests,    (* bound: requests made in a behaviour                   *)
    StatusCodes,    (* what the upstream may answer, through the proxy       *)
    NoStatus,       (* an answer without X-Status-Code: the proxy's own      *)
    Durations       (* how long a request may take, queueing included        *)

ASSUME FetcherAssumption ==
    /\ Concurrency \in Nat \ {0}
    /\ MaxRequests \in Nat
    /\ StatusCodes \subseteq 100 .. 599
    /\ NoStatus \notin Int
    /\ Durations \subseteq Nat

VARIABLES
    requestCount,       (* requests made so far; a request is its number     *)
    ipv6,               (* request -> the address it was given               *)
    phase,              (* request -> where it is                            *)
    header,             (* request -> X-Status-Code of the answer, once in   *)
    queue,              (* fastq: requests waiting for a worker, oldest first*)
    concurrentRequests, (* the counter the worker keeps                      *)
    maxConcurrent,      (* its high-water mark                               *)
    statusCode          (* request -> the status its caller was given        *)

fetchVars == <<requestCount, ipv6, phase, header, queue,
               concurrentRequests, maxConcurrent, statusCode>>
vars == <<poolVars, fetchVars>>

Requests == 1 .. MaxRequests

Phases == {"idle",      \* not made yet
           "queued",    \* waiting for a worker
           "sent",      \* a worker sent it to the proxy
           "receiving", \* the headers of the answer are in
           "lost",      \* the connection went away in the body: nothing settles
           "done"}      \* answered

TypeOK ==
    /\ PoolTypeOK
    /\ requestCount \in 0 .. MaxRequests
    /\ ipv6 \in [Requests -> Addresses \cup {NoAddress}]
    /\ phase \in [Requests -> Phases]
    /\ header \in [Requests -> StatusCodes \cup {NoStatus}]
    /\ queue \in Seq(Requests)
    /\ concurrentRequests \in Nat
    /\ maxConcurrent \in Nat
    /\ statusCode \in [Requests -> StatusCodes \cup {0, 200}]

Init ==
    /\ PoolInit
    /\ requestCount = 0
    /\ ipv6 = [r \in Requests |-> NoAddress]
    /\ phase = [r \in Requests |-> "idle"]
    /\ header = [r \in Requests |-> NoStatus]
    /\ queue = <<>>
    /\ concurrentRequests = 0
    /\ maxConcurrent = 0
    /\ statusCode = [r \in Requests |-> 0]

InPhase(S) == {r \in Requests : phase[r] \in S}

\* The requests that hold a worker.  A lost one holds it for ever: the promise
\* of httpRequest is settled by 'end', 'error' and 'timeout' only.
Working == InPhase({"sent", "receiving", "lost"})

-----------------------------------------------------------------------------
\* A worker takes a request: it counts itself before its first await.
Higher(n) == IF n > maxConcurrent THEN n ELSE maxConcurrent

\* fetch: the address is chosen before the request is queued, so the health it
\* was chosen for may be out of date when the request is sent.  No caller names an
\* address of its own (options.ipv6, utls-fetcher.ts:68).
Fetch(r, a) ==
    /\ requestCount < MaxRequests
    /\ r = requestCount + 1
    /\ GetHealthyNext(a)
    /\ requestCount' = r
    /\ ipv6' = [ipv6 EXCEPT ![r] = a]
    /\ \/ /\ Cardinality(Working) < Concurrency
          /\ phase' = [phase EXCEPT ![r] = "sent"]
          /\ concurrentRequests' = concurrentRequests + 1
          /\ maxConcurrent' = Higher(concurrentRequests + 1)
          /\ UNCHANGED queue
       \/ /\ Cardinality(Working) >= Concurrency
          /\ phase' = [phase EXCEPT ![r] = "queued"]
          /\ queue' = Append(queue, r)
          /\ UNCHANGED <<concurrentRequests, maxConcurrent>>
    /\ UNCHANGED <<header, statusCode>>

\* The worker returns: it records the result, gives its caller the status and
\* steps down; fastq hands the worker to the request that waited longest.
Success(code) == 200 <= code /\ code < 300

\* Mutation of Complete: the catch block forgets to step down.
CompleteLeaking(r, code, duration) ==
    /\ RecordRequest(ipv6[r], Success(code), duration)
    /\ statusCode' = [statusCode EXCEPT ![r] = code]
    /\ queue = <<>>
    /\ phase' = [phase EXCEPT ![r] = "done"]
    /\ concurrentRequests' = concurrentRequests - (IF code = 0 THEN 0 ELSE 1)
    /\ UNCHANGED <<requestCount, ipv6, header, queue, maxConcurrent>>

\* Mutation of Complete: the worker goes to the request that came last.
CompleteNewestNext(r, code, duration) ==
    /\ RecordRequest(ipv6[r], Success(code), duration)
    /\ statusCode' = [statusCode EXCEPT ![r] = code]
    /\ queue # <<>>
    /\ phase' = [phase EXCEPT ![r] = "done", ![queue[Len(queue)]] = "sent"]
    /\ queue' = SubSeq(queue, 1, Len(queue) - 1)
    /\ UNCHANGED <<requestCount, ipv6, header, concurrentRequests, maxConcurrent>>

\* Mutation of Complete: the catch block steps down, and so does a finally block.
CompleteTwice(r, code, duration) ==
    /\ RecordRequest(ipv6[r], Success(code), duration)
    /\ statusCode' = [statusCode EXCEPT ![r] = code]
    /\ queue = <<>>
    /\ phase' = [phase EXCEPT ![r] = "done"]
    /\ concurrentRequests' = concurrentRequests - (IF code = 0 THEN 2 ELSE 1)
    /\ UNCHANGED <<requestCount, ipv6, header, queue, maxConcurrent>>

Complete(r, code, duration) ==
    /\ RecordRequest(ipv6[r], Success(code), duration)
    /\ statusCode' = [statusCode EXCEPT ![r] = code]
    /\ \/ /\ queue = <<>>
          /\ phase' = [phase EXCEPT ![r] = "done"]
          /\ concurrentRequests' = concurrentRequests - 1
          /\ UNCHANGED <<queue, maxConcurrent>>
       \/ /\ queue # <<>>
          /\ phase' = [phase EXCEPT ![r] = "done", ![Head(queue)] = "sent"]
          /\ queue' = Tail(queue)
          /\ concurrentRequests' = (concurrentRequests - 1) + 1
          /\ maxConcurrent' = Higher((concurrentRequests - 1) + 1)
    /\ UNCHANGED <<requestCount, ipv6, header>>

\* The headers of an answer arrive: the proxy names the upstream's status, or
\* answers itself (http.Error) and names none.
Headers(r, h) ==
    /\ phase[r] = "sent"
    /\ phase' = [phase EXCEPT ![r] = "receiving"]
    /\ header' = [header EXCEPT ![r] = h]
    /\ UNCHANGED <<poolVars, requestCount, ipv6, queue, concurrentRequests,
                   maxConcurrent, statusCode>>

\* parseInt(headers['x-status-code'] || '200')
StatusOf(h) == IF h = NoStatus THEN 200 ELSE h

\* 'end': the whole body is in.
End(r, duration) ==
    /\ phase[r] = "receiving"
    /\ Complete(r, StatusOf(header[r]), duration)

\* Mutation of Fail: no 'timeout' on a request the proxy never answers.
FailAfterHeaders(r, duration) ==
    /\ phase[r] = "receiving"
    /\ Complete(r, 0, duration)

\* 'error' before any answer, or 'timeout' on an idle connection: status 0.
Fail(r, duration) ==
    /\ phase[r] \in {"sent", "receiving"}
    /\ Complete(r, 0, duration)

\* The connection is lost in the body: no 'end', and 'error' goes to a response
\* nobody listens to.
LoseBody(r) ==
    /\ phase[r] = "receiving"
    /\ phase' = [phase EXCEPT ![r] = "lost"]
    /\ UNCHANGED <<poolVars, requestCount, ipv6, header, queue,
                   concurrentRequests, maxConcurrent, statusCode>>

-----------------------------------------------------------------------------
Next ==
    \/ \E r \in Requests, a \in Addresses \cup {NoAddress} : Fetch(r, a)
    \/ \E r \in Requests, h \in StatusCodes \cup {NoStatus} : Headers(r, h)
    \/ \E r \in Requests, d \in Durations : End(r, d)
    \/ \E r \in Requests, d \in Durations : Fail(r, d)
    \/ \E r \in Requests : LoseBody(r)

\* The HTTP client reports an answer or an idle connection in the end, for
\* every request whose connection it still watches.
Fairness == \A r \in Requests : WF_vars(\E d \in Durations : End(r, d) \/ Fail(r, d))

Spec == Init /\ [][Next]_vars
FairSpec == Spec /\ Fairness

-----------------------------------------------------------------------------
\* Every use of an address is accounted for: it was recorded once, as a success
\* or a failure, or its request is still queued, being served or lost.  The
\* success rate the monitor shows divides recorded results by uses
\* (ipv6-pool.ts:239), so this is what keeps it at most 100%.
InFlight(a) == {r \in InPhase({"queued", "sent", "receiving", "lost"}) : ipv6[r] = a}

Accounting ==
    \A a \in Addresses : usageStats[a] = TotalRequests(a) + Cardinality(InFlight(a))

\* The counter the monitor shows as concurrent requests is the number of
\* requests that hold a worker, on every path out of worker, and neither it nor
\* its high-water mark passes the configured concurrency (utls-fetcher.ts:92-95).
CounterIsExact ==
    /\ concurrentRequests = Cardinality(Working)
    /\ concurrentRequests <= maxConcurrent
    /\ maxConcurrent <= Concurrency

\* The queue holds the latest arrivals, oldest first, and nothing else.
QueueInOrder ==
    /\ Len(queue) <= requestCount
    /\ \A i \in 1 .. Len(queue) : queue[i] = requestCount - Len(queue) + i
    /\ \A r \in Requests : phase[r] = "idle" <=> r > requestCount
    /\ \A r \in Requests :
         phase[r] = "queued" <=> r \in requestCount - Len(queue) + 1 .. requestCount

\* No worker is free while a request waits.
WorkConserving == queue # <<>> => concurrentRequests = Concurrency

\* The inductive invariant: type, workers and queue.
IInv ==
    /\ TypeOK
    /\ CounterIsExact
    /\ QueueInOrder
    /\ WorkConserving

\* fetch keeps the promise of FetchService: first come first served, no idle
\* worker while a request waits, one answer at most for each request.
Service == INSTANCE FetchService
             WITH arrived <- requestCount, answered <- InPhase({"done"})

ServiceKept == Service!ServiceSpec

\* A request is answered in the end, or its own connection was lost in the
\* body, or every worker is held by a request that was lost that way.
AnsweredUnlessLost ==
    \A r \in Requests :
        phase[r] \in {"queued", "sent"} ~>
            \/ phase[r] \in {"done", "lost"}
            \/ Cardinality(InPhase({"lost"})) = Concurrency

=============================================================================

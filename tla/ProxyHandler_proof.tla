------------------------- MODULE ProxyHandler_proof -------------------------
(***************************************************************************)
(* Proofs about the request handler, for any number of requests and tries. *)
(***************************************************************************)
EXTENDS ProxyHandler, FiniteSetTheorems, TLAPS

\* Sets of goroutines are finite, so they can be counted.
LEMMA GoroutinesFinite ==
    ASSUME NEW S \in SUBSET Goroutines
    PROVE  /\ IsFiniteSet(S)
           /\ Cardinality(S) \in Nat
           /\ Cardinality(S) <= Cardinality(Goroutines)
BY HandlerAssumption, FS_Subset, FS_CardinalityType DEF HandlerAssumption

LEMMA CountsAreNumbers == MaxRetries \in Nat /\ Cardinality(Goroutines) \in Nat
BY HandlerAssumption, FS_CardinalityType DEF HandlerAssumption

\* A set that gains g, loses g or stays as it is.
LEMMA OneMore ==
    ASSUME NEW S \in SUBSET Goroutines, NEW T \in SUBSET Goroutines,
           NEW g \in Goroutines, g \notin S, g \in T,
           \A h \in Goroutines : h # g => (h \in T <=> h \in S)
    PROVE  Cardinality(T) = Cardinality(S) + 1
<1>1. T = S \cup {g}
  OBVIOUS
<1>2. QED
  BY <1>1, GoroutinesFinite, FS_AddElement

LEMMA OneLess ==
    ASSUME NEW S \in SUBSET Goroutines, NEW T \in SUBSET Goroutines,
           NEW g \in Goroutines, g \in S, g \notin T,
           \A h \in Goroutines : h # g => (h \in T <=> h \in S)
    PROVE  Cardinality(T) = Cardinality(S) - 1
<1>1. Cardinality(S) = Cardinality(T) + 1
  BY OneMore
<1>2. QED
  BY <1>1, GoroutinesFinite

LEMMA SameMembers ==
    ASSUME NEW S \in SUBSET Goroutines, NEW T \in SUBSET Goroutines,
           \A h \in Goroutines : h \in T <=> h \in S
    PROVE  Cardinality(T) = Cardinality(S)
<1>1. T = S
  OBVIOUS
<1>2. QED
  BY <1>1

-----------------------------------------------------------------------------
\* RecordedOnce and LoopEntered, of one goroutine.
Own(g) ==
    /\ recorded[g] = IF /\ attempt[g] # -1
                        /\ pc[g] \in {"leave", "done"}
                        /\ answer[g] # "panic"
                     THEN 1 ELSE 0
    /\ pc[g] \in {"idle", "enter", "count", "validate"} => attempt[g] = -1
    /\ pc[g] \in {"try", "backoff", "refresh", "body", "recordFailure",
                  "recordSuccess"} => attempt[g] # -1
    /\ answer[g] = "no url" => pc[g] \in {"leave", "done"} /\ attempt[g] = -1
    /\ answer[g] = "panic" => pc[g] \in {"leave", "done"}
    /\ pc[g] \in {"backoff", "refresh"} => attempt[g] < MaxRetries

\* What the step of a goroutine may change: its own entries only.
Others(g) ==
    \A h \in Goroutines : h # g =>
        /\ pc'[h] = pc[h] /\ attempt'[h] = attempt[h]
        /\ recorded'[h] = recorded[h] /\ answer'[h] = answer[h]

LEMMA OwnOfAll ==
    /\ RecordedOnce /\ LoopEntered => \A g \in Goroutines : Own(g)
    /\ (\A g \in Goroutines : Own(g)') => RecordedOnce' /\ LoopEntered'
BY DEF Own, RecordedOnce, LoopEntered

\* The types of what a goroutine changes.
HandlerTypes ==
    /\ totalRequests \in Nat
    /\ successRequests \in Nat
    /\ failedRequests \in Nat
    /\ pc \in [Goroutines -> Locations]
    /\ attempt \in [Goroutines -> -1 .. MaxRetries]
    /\ hasRefreshedCookie \in [Goroutines -> BOOLEAN]
    /\ recorded \in [Goroutines -> Nat]
    /\ answer \in [Goroutines -> Answers]

\* A step that moves g, and writes none of its other entries or one of them.
LEMMA MoveOnly ==
    ASSUME HandlerTypes, NEW g \in Goroutines, NEW from, NEW to \in Locations,
           Goto(g, from, to), UNCHANGED <<attempt, recorded, answer>>
    PROVE  /\ pc' \in [Goroutines -> Locations]
           /\ pc[g] = from /\ pc'[g] = to
           /\ Others(g)
BY DEF HandlerTypes, Goto, Others

LEMMA MoveAndWrite ==
    ASSUME HandlerTypes, NEW g \in Goroutines, NEW from, NEW to \in Locations,
           Goto(g, from, to), UNCHANGED <<attempt, recorded>>,
           NEW r \in Answers, Write(g, r)
    PROVE  /\ pc' \in [Goroutines -> Locations]
           /\ answer' \in [Goroutines -> Answers]
           /\ pc[g] = from /\ pc'[g] = to /\ answer'[g] = r
           /\ Others(g)
BY DEF HandlerTypes, Goto, Others, Write

LEMMA MoveAndTry ==
    ASSUME HandlerTypes, NEW g \in Goroutines, NEW from, NEW to \in Locations,
           Goto(g, from, to), UNCHANGED <<recorded, answer>>,
           attempt[g] < MaxRetries, NextAttempt(g)
    PROVE  /\ pc' \in [Goroutines -> Locations]
           /\ attempt' \in [Goroutines -> -1 .. MaxRetries]
           /\ pc[g] = from /\ pc'[g] = to /\ attempt'[g] = attempt[g] + 1
           /\ attempt[g] \in -1 .. MaxRetries
           /\ Others(g)
<1>1. attempt[g] \in -1 .. MaxRetries
  BY DEF HandlerTypes
<1>2. attempt[g] + 1 \in -1 .. MaxRetries
  BY <1>1, CountsAreNumbers
<1>3. QED
  BY <1>1, <1>2 DEF HandlerTypes, Goto, Others, NextAttempt

\* The step of a goroutine, action by action: the types stay, what the
\* invariant says of it stays, and the others' entries are not touched.
LEMMA LocalStep ==
    ASSUME HandlerTypes, NEW g \in Goroutines, Own(g), CheckShutdown(g) \/ Handle(g)
    PROVE  HandlerTypes' /\ Own(g)' /\ Others(g)
<1>CheckShutdown. CASE CheckShutdown(g)
  <2>1. CASE shutdownFlag /\ Goto(g, "idle", "done") /\ Write(g, "shutting down")
    <3>1. /\ pc' \in [Goroutines -> Locations] /\ answer' \in [Goroutines -> Answers]
          /\ pc[g] = "idle" /\ pc'[g] = "done" /\ answer'[g] = "shutting down"
          /\ Others(g)
      BY <1>CheckShutdown, <2>1, MoveAndWrite
         DEF CheckShutdown, loopVars, Locations, Answers
    <3>q. QED
      BY <1>CheckShutdown, <3>1 DEF CheckShutdown, stats, loopVars, HandlerTypes, Own
  <2>2. CASE ~shutdownFlag /\ Goto(g, "idle", "enter") /\ UNCHANGED answer
    <3>1. /\ pc' \in [Goroutines -> Locations]
          /\ pc[g] = "idle" /\ pc'[g] = "enter" /\ Others(g)
      BY <1>CheckShutdown, <2>2, MoveOnly DEF CheckShutdown, loopVars, Locations
    <3>q. QED
      BY <1>CheckShutdown, <2>2, <3>1
         DEF CheckShutdown, stats, loopVars, HandlerTypes, Own
  <2>q. QED
    BY <1>CheckShutdown, <2>1, <2>2 DEF CheckShutdown
<1>Enter. CASE Enter(g)
  <2>1. pc' \in [Goroutines -> Locations] /\ pc[g] = "enter" /\ pc'[g] = "count" /\ Others(g)
    BY <1>Enter, MoveOnly DEF Enter, loopVars, Locations
  <2>q. QED
    BY <1>Enter, <2>1 DEF Enter, stats, loopVars, HandlerTypes, Own
<1>Count. CASE Count(g)
  <2>1. pc' \in [Goroutines -> Locations] /\ pc[g] = "count" /\ pc'[g] = "validate" /\ Others(g)
    BY <1>Count, MoveOnly DEF Count, loopVars, Locations
  <2>2. totalRequests' \in Nat
    BY <1>Count DEF Count, HandlerTypes
  <2>3. HandlerTypes'
    BY <1>Count, <2>1, <2>2 DEF Count, loopVars, HandlerTypes
  <2>4. Own(g)'
    BY <1>Count, <2>1 DEF Count, loopVars, HandlerTypes, Own
  <2>q. QED
    BY <2>1, <2>3, <2>4
<1>MissingURL. CASE MissingURL(g)
  <2>1. /\ pc' \in [Goroutines -> Locations] /\ answer' \in [Goroutines -> Answers]
        /\ pc[g] = "validate" /\ pc'[g] = "leave" /\ answer'[g] = "no url"
        /\ Others(g)
    BY <1>MissingURL, MoveAndWrite DEF MissingURL, loopVars, Locations, Answers
  <2>q. QED
    BY <1>MissingURL, <2>1 DEF MissingURL, stats, loopVars, HandlerTypes, Own
<1>Reject. CASE Reject(g)
  <2>1. /\ pc' \in [Goroutines -> Locations] /\ answer' \in [Goroutines -> Answers]
        /\ pc[g] = "validate" /\ pc'[g] = "countFailure" /\ answer'[g] = "error"
        /\ Others(g)
    BY <1>Reject, MoveAndWrite DEF Reject, loopVars, Locations, Answers
  <2>q. QED
    BY <1>Reject, <2>1 DEF Reject, stats, loopVars, HandlerTypes, Own
<1>Accept. CASE Accept(g)
  <2>1. /\ pc' \in [Goroutines -> Locations]
        /\ pc[g] = "validate" /\ pc'[g] = "try"
    BY <1>Accept DEF Accept, Goto, HandlerTypes, Locations
  <2>2. /\ attempt' \in [Goroutines -> -1 .. MaxRetries]
        /\ attempt'[g] = 0
    BY <1>Accept, CountsAreNumbers DEF Accept, HandlerTypes
  <2>3. Others(g)
    BY <1>Accept DEF Accept, Goto, HandlerTypes, Others
  <2>4. HandlerTypes'
    BY <1>Accept, <2>1, <2>2 DEF Accept, stats, HandlerTypes
  <2>5. recorded'[g] = 0 /\ answer'[g] \notin {"no url", "panic"}
    <3>1. recorded[g] = 0 /\ answer[g] \notin {"no url", "panic"}
      BY <2>1 DEF Own
    <3>2. recorded' = recorded /\ answer' = answer
      BY <1>Accept DEF Accept
    <3>q. QED
      BY <3>1, <3>2
  <2>6. attempt'[g] # -1 /\ pc'[g] = "try"
    BY <2>1, <2>2
  <2>7. Own(g)'
    BY <2>5, <2>6 DEF Own
  <2>q. QED
    BY <2>3, <2>4, <2>7
<1>TryAgain. CASE TryAgain(g)
  <2>1. pc' \in [Goroutines -> Locations] /\ pc[g] = "try" /\ pc'[g] = "backoff" /\ Others(g)
    BY <1>TryAgain, MoveOnly DEF TryAgain, loopVars, Locations
  <2>q. QED
    BY <1>TryAgain, <2>1 DEF TryAgain, stats, loopVars, HandlerTypes, Own
<1>GiveUp. CASE GiveUp(g)
  <2>1. /\ pc' \in [Goroutines -> Locations] /\ answer' \in [Goroutines -> Answers]
        /\ pc[g] = "try" /\ pc'[g] = "countFailure" /\ answer'[g] = "error"
        /\ Others(g)
    BY <1>GiveUp, MoveAndWrite DEF GiveUp, loopVars, Locations, Answers
  <2>q. QED
    BY <1>GiveUp, <2>1 DEF GiveUp, stats, loopVars, HandlerTypes, Own
<1>Retry. CASE Retry(g)
  <2>1. attempt[g] < MaxRetries
    BY <1>Retry DEF Retry, Goto, Own
  <2>2. /\ pc' \in [Goroutines -> Locations]
        /\ attempt' \in [Goroutines -> -1 .. MaxRetries]
        /\ pc[g] = "backoff" /\ pc'[g] = "try" /\ attempt'[g] = attempt[g] + 1
        /\ attempt[g] \in -1 .. MaxRetries
        /\ Others(g)
    BY <1>Retry, <2>1, MoveAndTry DEF Retry, Locations
  <2>3. attempt[g] # -1
    BY <1>Retry DEF Retry, Goto, Own
  <2>4. attempt'[g] # -1
    BY <2>2, <2>3, CountsAreNumbers
  <2>q. QED
    BY <1>Retry, <2>2, <2>3, <2>4 DEF Retry, stats, HandlerTypes, Own
<1>Forbidden. CASE Forbidden(g)
  <2>1. pc' \in [Goroutines -> Locations] /\ pc[g] = "try" /\ pc'[g] = "refresh" /\ Others(g)
    BY <1>Forbidden, MoveOnly DEF Forbidden, loopVars, Locations
  <2>q. QED
    BY <1>Forbidden, <2>1 DEF Forbidden, stats, loopVars, HandlerTypes, Own
<1>ForbiddenAgain. CASE ForbiddenAgain(g)
  <2>1. /\ pc' \in [Goroutines -> Locations] /\ answer' \in [Goroutines -> Answers]
        /\ pc[g] = "try" /\ pc'[g] = "countFailure" /\ answer'[g] = "error"
        /\ Others(g)
    BY <1>ForbiddenAgain, MoveAndWrite
       DEF ForbiddenAgain, loopVars, Locations, Answers
  <2>q. QED
    BY <1>ForbiddenAgain, <2>1 DEF ForbiddenAgain, stats, loopVars, HandlerTypes, Own
<1>Refreshed. CASE Refreshed(g)
  <2>1. attempt[g] < MaxRetries
    BY <1>Refreshed DEF Refreshed, Goto, Own
  <2>2. /\ pc' \in [Goroutines -> Locations]
        /\ attempt' \in [Goroutines -> -1 .. MaxRetries]
        /\ pc[g] = "refresh" /\ pc'[g] = "try" /\ attempt'[g] = attempt[g] + 1
        /\ attempt[g] \in -1 .. MaxRetries
        /\ Others(g)
    BY <1>Refreshed, <2>1, MoveAndTry DEF Refreshed, Locations
  <2>3. attempt[g] # -1
    BY <1>Refreshed DEF Refreshed, Goto, Own
  <2>4. attempt'[g] # -1
    BY <2>2, <2>3, CountsAreNumbers
  <2>q. QED
    BY <1>Refreshed, <2>2, <2>3, <2>4 DEF Refreshed, stats, HandlerTypes, Own
<1>NotRefreshed. CASE NotRefreshed(g)
  <2>1. /\ pc' \in [Goroutines -> Locations] /\ answer' \in [Goroutines -> Answers]
        /\ pc[g] = "refresh" /\ pc'[g] = "countFailure" /\ answer'[g] = "error"
        /\ Others(g)
    BY <1>NotRefreshed, MoveAndWrite DEF NotRefreshed, loopVars, Locations, Answers
  <2>q. QED
    BY <1>NotRefreshed, <2>1 DEF NotRefreshed, stats, loopVars, HandlerTypes, Own
<1>Respond. CASE Respond(g)
  <2>1. pc' \in [Goroutines -> Locations] /\ pc[g] = "try" /\ pc'[g] = "body" /\ Others(g)
    BY <1>Respond, MoveOnly DEF Respond, loopVars, Locations
  <2>q. QED
    BY <1>Respond, <2>1 DEF Respond, stats, loopVars, HandlerTypes, Own
<1>BodyFails. CASE BodyFails(g)
  <2>1. /\ pc' \in [Goroutines -> Locations] /\ answer' \in [Goroutines -> Answers]
        /\ pc[g] = "body" /\ pc'[g] = "countFailure" /\ answer'[g] = "error"
        /\ Others(g)
    BY <1>BodyFails, MoveAndWrite DEF BodyFails, loopVars, Locations, Answers
  <2>q. QED
    BY <1>BodyFails, <2>1 DEF BodyFails, stats, loopVars, HandlerTypes, Own
<1>Panic. CASE Panic(g)
  <2>1. PICK from \in {"validate", "backoff", "refresh"} : Goto(g, from, "leave")
    BY <1>Panic DEF Panic
  <2>2. /\ pc' \in [Goroutines -> Locations] /\ answer' \in [Goroutines -> Answers]
        /\ pc[g] = from /\ pc'[g] = "leave" /\ answer'[g] = "panic"
        /\ Others(g)
    BY <1>Panic, <2>1, MoveAndWrite DEF Panic, loopVars, Locations, Answers
  <2>3. recorded[g] = 0
    BY <2>2 DEF Own
  <2>4. Own(g)'
    BY <1>Panic, <2>2, <2>3 DEF Panic, loopVars, Own
  <2>5. HandlerTypes'
    BY <1>Panic, <2>2 DEF Panic, stats, loopVars, HandlerTypes
  <2>q. QED
    BY <2>2, <2>4, <2>5
<1>CountSuccess. CASE CountSuccess(g)
  <2>1. pc' \in [Goroutines -> Locations] /\ pc[g] = "body" /\ pc'[g] = "recordSuccess" /\ Others(g)
    BY <1>CountSuccess, MoveOnly DEF CountSuccess, loopVars, Locations
  <2>2. successRequests' \in Nat
    BY <1>CountSuccess DEF CountSuccess, HandlerTypes
  <2>3. HandlerTypes'
    BY <1>CountSuccess, <2>1, <2>2 DEF CountSuccess, loopVars, HandlerTypes
  <2>4. Own(g)'
    BY <1>CountSuccess, <2>1 DEF CountSuccess, loopVars, HandlerTypes, Own
  <2>q. QED
    BY <2>1, <2>3, <2>4
<1>Leave. CASE Leave(g)
  <2>1. pc' \in [Goroutines -> Locations] /\ pc[g] = "leave" /\ pc'[g] = "done" /\ Others(g)
    BY <1>Leave, MoveOnly DEF Leave, loopVars, Locations
  <2>q. QED
    BY <1>Leave, <2>1 DEF Leave, stats, loopVars, HandlerTypes, Own
<1>CountFailure. CASE CountFailure(g)
  <2>1. /\ pc' \in [Goroutines -> Locations] /\ pc[g] = "countFailure"
        /\ IF attempt[g] = -1 THEN pc'[g] = "leave" ELSE pc'[g] = "recordFailure"
        /\ Others(g)
    <3>1. CASE attempt[g] = -1 /\ Goto(g, "countFailure", "leave")
      BY <1>CountFailure, <3>1, MoveOnly DEF CountFailure, loopVars, Locations
    <3>2. CASE attempt[g] # -1 /\ Goto(g, "countFailure", "recordFailure")
      BY <1>CountFailure, <3>2, MoveOnly DEF CountFailure, loopVars, Locations
    <3>q. QED
      BY <1>CountFailure, <3>1, <3>2 DEF CountFailure
  <2>2. failedRequests' \in Nat
    BY <1>CountFailure DEF CountFailure, HandlerTypes
  <2>3. HandlerTypes'
    BY <1>CountFailure, <2>1, <2>2 DEF CountFailure, loopVars, HandlerTypes
  <2>4. Own(g)'
    BY <1>CountFailure, <2>1 DEF CountFailure, loopVars, HandlerTypes, Own
  <2>q. QED
    BY <2>1, <2>3, <2>4
<1>RecordFailure. CASE RecordFailure(g)
  <2>1. /\ pc' \in [Goroutines -> Locations]
        /\ pc[g] = "recordFailure" /\ pc'[g] = "leave"
    BY <1>RecordFailure DEF RecordFailure, Goto, HandlerTypes, Locations
  <2>2. recorded[g] = 0 /\ attempt[g] # -1
    BY <2>1 DEF Own
  <2>3. /\ recorded' \in [Goroutines -> Nat]
        /\ recorded'[g] = 1
    BY <1>RecordFailure, <2>2 DEF RecordFailure, HandlerTypes
  <2>5. Others(g)
    BY <1>RecordFailure DEF RecordFailure, Goto, loopVars, HandlerTypes, Others
  <2>q. QED
    BY <1>RecordFailure, <2>1, <2>2, <2>3, <2>5
       DEF RecordFailure, stats, loopVars, HandlerTypes, Own
<1>RecordSuccess. CASE RecordSuccess(g)
  <2>1. /\ pc' \in [Goroutines -> Locations]
        /\ pc[g] = "recordSuccess" /\ pc'[g] = "leave"
    BY <1>RecordSuccess DEF RecordSuccess, Goto, HandlerTypes, Locations
  <2>2. recorded[g] = 0 /\ attempt[g] # -1
    BY <2>1 DEF Own
  <2>3. /\ recorded' \in [Goroutines -> Nat]
        /\ recorded'[g] = 1
    BY <1>RecordSuccess, <2>2 DEF RecordSuccess, HandlerTypes
  <2>4. /\ answer' \in [Goroutines -> Answers]
        /\ answer'[g] = "ok"
    BY <1>RecordSuccess DEF RecordSuccess, Write, HandlerTypes, Answers
  <2>5. Others(g)
    BY <1>RecordSuccess
       DEF RecordSuccess, Goto, loopVars, HandlerTypes, Others, Write
  <2>q. QED
    BY <1>RecordSuccess, <2>1, <2>2, <2>3, <2>4, <2>5
       DEF RecordSuccess, stats, loopVars, HandlerTypes, Own
<1>q. QED
  BY <1>CheckShutdown, <1>Enter, <1>Count, <1>MissingURL, <1>Reject,
     <1>Accept, <1>TryAgain, <1>GiveUp, <1>Retry, <1>Forbidden,
     <1>ForbiddenAgain, <1>Refreshed, <1>NotRefreshed, <1>Respond,
     <1>BodyFails, <1>Panic, <1>CountSuccess, <1>Leave, <1>CountFailure,
     <1>RecordFailure, <1>RecordSuccess
  DEF Handle

-----------------------------------------------------------------------------
\* g's part in the two counts.
Under(g) == pc[g] \notin {"idle", "enter", "done"}
Open(g) ==
    \/ pc[g] \in {"validate", "try", "backoff", "refresh", "body", "countFailure"}
    \/ answer[g] \in {"no url", "panic"}

\* A step that counts g as active makes it so, and the same with its end.
ActiveMoves(g) ==
    \/ activeRequests' = activeRequests /\ (Under(g)' <=> Under(g))
    \/ activeRequests' = activeRequests + 1 /\ ~Under(g) /\ Under(g)'
    \/ activeRequests' = activeRequests - 1 /\ Under(g) /\ ~Under(g)'

\* A step that adds to the total opens g, one that adds to a part closes it.
StatsMove(g) ==
    \/ UNCHANGED stats /\ (Open(g)' <=> Open(g))
    \/ /\ totalRequests' = totalRequests + 1
       /\ UNCHANGED <<successRequests, failedRequests>>
       /\ ~Open(g) /\ Open(g)'
    \/ /\ successRequests' = successRequests + 1
       /\ UNCHANGED <<totalRequests, failedRequests>>
       /\ Open(g) /\ ~Open(g)'
    \/ /\ failedRequests' = failedRequests + 1
       /\ UNCHANGED <<totalRequests, successRequests>>
       /\ Open(g) /\ ~Open(g)'

LEMMA CountsMove ==
    ASSUME HandlerTypes, NEW g \in Goroutines, Own(g), CheckShutdown(g) \/ Handle(g)
    PROVE  ActiveMoves(g) /\ StatsMove(g)
<1>1. pc \in [Goroutines -> Locations] /\ answer \in [Goroutines -> Answers]
  BY DEF HandlerTypes
<1>2. answer[g] \in {"no url", "panic"} => pc[g] \in {"leave", "done"}
  BY DEF Own
<1>CheckShutdown. CASE CheckShutdown(g)
  BY <1>CheckShutdown, <1>1, <1>2
     DEF CheckShutdown, Goto, Write, ActiveMoves, StatsMove, Under, Open, stats
<1>Enter. CASE Enter(g)
  BY <1>Enter, <1>1, <1>2 DEF Enter, Goto, ActiveMoves, StatsMove, Under, Open, stats
<1>Count. CASE Count(g)
  BY <1>Count, <1>1, <1>2 DEF Count, Goto, ActiveMoves, StatsMove, Under, Open, stats
<1>MissingURL. CASE MissingURL(g)
  BY <1>MissingURL, <1>1, <1>2
     DEF MissingURL, Goto, Write, ActiveMoves, StatsMove, Under, Open, stats
<1>Reject. CASE Reject(g)
  BY <1>Reject, <1>1, <1>2
     DEF Reject, Goto, Write, ActiveMoves, StatsMove, Under, Open, stats
<1>Accept. CASE Accept(g)
  BY <1>Accept, <1>1, <1>2
     DEF Accept, Goto, ActiveMoves, StatsMove, Under, Open, stats
<1>TryAgain. CASE TryAgain(g)
  BY <1>TryAgain, <1>1, <1>2
     DEF TryAgain, Goto, ActiveMoves, StatsMove, Under, Open, stats
<1>GiveUp. CASE GiveUp(g)
  BY <1>GiveUp, <1>1, <1>2
     DEF GiveUp, Goto, Write, ActiveMoves, StatsMove, Under, Open, stats
<1>Retry. CASE Retry(g)
  BY <1>Retry, <1>1, <1>2 DEF Retry, Goto, ActiveMoves, StatsMove, Under, Open, stats
<1>Forbidden. CASE Forbidden(g)
  BY <1>Forbidden, <1>1, <1>2
     DEF Forbidden, Goto, ActiveMoves, StatsMove, Under, Open, stats
<1>ForbiddenAgain. CASE ForbiddenAgain(g)
  BY <1>ForbiddenAgain, <1>1, <1>2
     DEF ForbiddenAgain, Goto, Write, ActiveMoves, StatsMove, Under, Open, stats
<1>Refreshed. CASE Refreshed(g)
  BY <1>Refreshed, <1>1, <1>2
     DEF Refreshed, Goto, ActiveMoves, StatsMove, Under, Open, stats
<1>NotRefreshed. CASE NotRefreshed(g)
  BY <1>NotRefreshed, <1>1, <1>2
     DEF NotRefreshed, Goto, Write, ActiveMoves, StatsMove, Under, Open, stats
<1>Respond. CASE Respond(g)
  BY <1>Respond, <1>1, <1>2
     DEF Respond, Goto, ActiveMoves, StatsMove, Under, Open, stats
<1>BodyFails. CASE BodyFails(g)
  BY <1>BodyFails, <1>1, <1>2
     DEF BodyFails, Goto, Write, ActiveMoves, StatsMove, Under, Open, stats
<1>Panic. CASE Panic(g)
  BY <1>Panic, <1>1, <1>2
     DEF Panic, Goto, Write, ActiveMoves, StatsMove, Under, Open, stats
<1>CountFailure. CASE CountFailure(g)
  BY <1>CountFailure, <1>1, <1>2
     DEF CountFailure, Goto, ActiveMoves, StatsMove, Under, Open, stats
<1>RecordFailure. CASE RecordFailure(g)
  BY <1>RecordFailure, <1>1, <1>2
     DEF RecordFailure, Goto, ActiveMoves, StatsMove, Under, Open, stats
<1>CountSuccess. CASE CountSuccess(g)
  BY <1>CountSuccess, <1>1, <1>2
     DEF CountSuccess, Goto, ActiveMoves, StatsMove, Under, Open, stats
<1>RecordSuccess. CASE RecordSuccess(g)
  BY <1>RecordSuccess, <1>1, <1>2
     DEF RecordSuccess, Goto, Write, ActiveMoves, StatsMove, Under, Open, stats
<1>Leave. CASE Leave(g)
  BY <1>Leave, <1>1, <1>2 DEF Leave, Goto, ActiveMoves, StatsMove, Under, Open, stats
<1>q. QED
  BY <1>CheckShutdown, <1>Enter, <1>Count, <1>MissingURL, <1>Reject,
     <1>Accept, <1>TryAgain, <1>GiveUp, <1>Retry, <1>Forbidden,
     <1>ForbiddenAgain, <1>Refreshed, <1>NotRefreshed, <1>Respond,
     <1>BodyFails, <1>Panic, <1>CountFailure, <1>RecordFailure, <1>CountSuccess,
     <1>RecordSuccess, <1>Leave
  DEF Handle

-----------------------------------------------------------------------------
\* The two counts follow: each step moves one goroutine into or out of a set.
LEMMA ActiveStep ==
    ASSUME TypeOK, ActiveIsExact, NEW g \in Goroutines, ActiveMoves(g), Others(g)
    PROVE  ActiveIsExact'
<1>1. /\ Active \in SUBSET Goroutines /\ Active' \in SUBSET Goroutines
      /\ g \in Active <=> Under(g)
      /\ g \in Active' <=> Under(g)'
      /\ \A h \in Goroutines : h # g => (h \in Active' <=> h \in Active)
  BY DEF Active, Under, Others
<1>2. Cardinality(Active) \in Nat /\ activeRequests = Cardinality(Active)
  BY <1>1, GoroutinesFinite DEF ActiveIsExact
<1>3. CASE activeRequests' = activeRequests /\ (Under(g)' <=> Under(g))
  <2>1. \A h \in Goroutines : h \in Active' <=> h \in Active
    BY <1>1, <1>3
  <2>2. Cardinality(Active') = Cardinality(Active)
    BY <1>1, <2>1, SameMembers
  <2>q. QED
    BY <1>2, <1>3, <2>2 DEF ActiveIsExact
<1>4. CASE activeRequests' = activeRequests + 1 /\ ~Under(g) /\ Under(g)'
  <2>1. Cardinality(Active') = Cardinality(Active) + 1
    BY <1>1, <1>4, OneMore
  <2>q. QED
    BY <1>2, <1>4, <2>1 DEF ActiveIsExact
<1>5. CASE activeRequests' = activeRequests - 1 /\ Under(g) /\ ~Under(g)'
  <2>1. Cardinality(Active') = Cardinality(Active) - 1
    BY <1>1, <1>5, OneLess
  <2>q. QED
    BY <1>2, <1>5, <2>1 DEF ActiveIsExact
<1>q. QED
  BY <1>3, <1>4, <1>5 DEF ActiveMoves

LEMMA StatsStep ==
    ASSUME TypeOK, StatsAddUp, NEW g \in Goroutines, StatsMove(g), Others(g)
    PROVE  StatsAddUp'
<1>1. /\ Unsettled \in SUBSET Goroutines /\ Unsettled' \in SUBSET Goroutines
      /\ g \in Unsettled <=> Open(g)
      /\ g \in Unsettled' <=> Open(g)'
      /\ \A h \in Goroutines : h # g => (h \in Unsettled' <=> h \in Unsettled)
  BY DEF Unsettled, Open, Others
<1>2. PICK n : n = Cardinality(Unsettled)
  OBVIOUS
<1>3. PICK m : m = Cardinality(Unsettled')
  OBVIOUS
<1>4. /\ n \in Nat
      /\ totalRequests \in Nat /\ successRequests \in Nat /\ failedRequests \in Nat
      /\ totalRequests = successRequests + failedRequests + n
  BY <1>1, <1>2, GoroutinesFinite DEF TypeOK, StatsAddUp
<1>5. CASE UNCHANGED stats /\ (Open(g)' <=> Open(g))
  <2>1. \A h \in Goroutines : h \in Unsettled' <=> h \in Unsettled
    BY <1>1, <1>5
  <2>2. m = n
    BY <1>1, <1>2, <1>3, <2>1, SameMembers
  <2>q. QED
    BY <1>3, <1>4, <1>5, <2>2 DEF StatsAddUp, stats
<1>6. CASE /\ totalRequests' = totalRequests + 1
           /\ UNCHANGED <<successRequests, failedRequests>>
           /\ ~Open(g) /\ Open(g)'
  <2>1. m = n + 1
    BY <1>1, <1>2, <1>3, <1>6, OneMore
  <2>q. QED
    BY <1>3, <1>4, <1>6, <2>1 DEF StatsAddUp
<1>7. CASE Open(g) /\ ~Open(g)'
  <2>1. m = n - 1
    BY <1>1, <1>2, <1>3, <1>7, OneLess
  <2>2. CASE /\ successRequests' = successRequests + 1
             /\ UNCHANGED <<totalRequests, failedRequests>>
    BY <1>3, <1>4, <2>1, <2>2 DEF StatsAddUp
  <2>3. CASE /\ failedRequests' = failedRequests + 1
             /\ UNCHANGED <<totalRequests, successRequests>>
    BY <1>3, <1>4, <2>1, <2>3 DEF StatsAddUp
  <2>q. QED
    BY <1>5, <1>6, <1>7, <2>2, <2>3 DEF StatsMove
<1>q. QED
  BY <1>5, <1>6, <1>7 DEF StatsMove

-----------------------------------------------------------------------------
LEMMA InitHolds == ASSUME Init PROVE IInv
<1>1. TypeOK
  <2>1. activeRequests \in 0 .. Cardinality(Goroutines)
    BY CountsAreNumbers DEF Init
  <2>2. attempt \in [Goroutines -> -1 .. MaxRetries]
    <3>1. -1 \in -1 .. MaxRetries
      BY CountsAreNumbers
    <3>q. QED
      BY <3>1, Zenon DEF Init
  <2>3. pc \in [Goroutines -> Locations] /\ answer \in [Goroutines -> Answers]
    BY DEF Init, Locations, Answers
  <2>q. QED
    BY <2>1, <2>2, <2>3 DEF Init, TypeOK
<1>2. Active = {} /\ Unsettled = {}
  BY DEF Init, Active, Unsettled
<1>3. Cardinality(Active) = 0 /\ Cardinality(Unsettled) = 0
  BY <1>2, FS_EmptySet
<1>4. ActiveIsExact /\ StatsAddUp
  BY <1>3 DEF Init, ActiveIsExact, StatsAddUp
<1>5. RecordedOnce /\ LoopEntered
  BY DEF Init, RecordedOnce, LoopEntered
<1>q. QED
  BY <1>1, <1>4, <1>5 DEF IInv

\* A step of the main goroutine leaves the requests alone, as a stutter does.
LEMMA MainStep ==
    ASSUME IInv, Signal \/ Shutdown \/ UNCHANGED vars
    PROVE  IInv'
<1>1. UNCHANGED <<activeRequests, stats, pc, loopVars, recorded, answer>>
  BY DEF Signal, Shutdown, Drained, DrainTimeout, Exit, vars
<1>2. /\ shutdownFlag' \in BOOLEAN
      /\ main' \in {"serving", "draining", "drained", "timed out", "exited"}
  BY DEF IInv, TypeOK, Signal, Shutdown, Drained, DrainTimeout, Exit, vars
<1>3. TypeOK'
  BY <1>1, <1>2 DEF IInv, TypeOK, stats, loopVars
<1>4. Cardinality(Active') = Cardinality(Active) /\ Cardinality(Unsettled') = Cardinality(Unsettled)
  BY <1>1, Zenon DEF Active, Unsettled
<1>5. ActiveIsExact' /\ StatsAddUp'
  BY <1>1, <1>4 DEF IInv, ActiveIsExact, StatsAddUp, stats
<1>6. RecordedOnce' /\ LoopEntered'
  BY <1>1 DEF IInv, RecordedOnce, LoopEntered, loopVars
<1>q. QED
  BY <1>3, <1>5, <1>6 DEF IInv

LEMMA RequestStep ==
    ASSUME IInv, NEW g \in Goroutines, CheckShutdown(g) \/ Handle(g)
    PROVE  IInv'
<1>1. HandlerTypes /\ (\A h \in Goroutines : Own(h))
  BY OwnOfAll DEF IInv, TypeOK, HandlerTypes
<1>2. HandlerTypes' /\ Own(g)' /\ Others(g)
  BY <1>1, LocalStep
<1>3. ActiveMoves(g) /\ StatsMove(g)
  BY <1>1, CountsMove
<1>4. ActiveIsExact' /\ StatsAddUp'
  BY <1>2, <1>3, ActiveStep, StatsStep DEF IInv
<1>5. \A h \in Goroutines : Own(h)'
  <2>1. ASSUME NEW h \in Goroutines, h # g
        PROVE  Own(h)'
    <3>1. Own(h)
      BY <1>1
    <3>2. /\ pc'[h] = pc[h] /\ attempt'[h] = attempt[h]
          /\ recorded'[h] = recorded[h] /\ answer'[h] = answer[h]
      BY <1>2, <2>1 DEF Others
    <3>q. QED
      BY <3>1, <3>2 DEF Own
  <2>q. QED
    BY <1>2, <2>1, Zenon
<1>6. RecordedOnce' /\ LoopEntered'
  BY <1>5, OwnOfAll
<1>7. UNCHANGED <<shutdownFlag, main>>
  BY DEF CheckShutdown, Handle, Enter, Count, MissingURL, Reject, Accept, TryAgain,
         GiveUp, Retry, Forbidden, ForbiddenAgain, Refreshed, NotRefreshed, Respond,
         BodyFails, Panic, CountFailure, RecordFailure, CountSuccess, RecordSuccess,
         Leave
<1>8. activeRequests' \in 0 .. Cardinality(Goroutines)
  <2>1. Active' \in SUBSET Goroutines
    BY DEF Active
  <2>2. Cardinality(Active') \in Nat /\ Cardinality(Active') <= Cardinality(Goroutines)
    BY <2>1, GoroutinesFinite
  <2>q. QED
    BY <1>4, <2>2, CountsAreNumbers DEF ActiveIsExact
<1>9. TypeOK'
  BY <1>2, <1>7, <1>8 DEF HandlerTypes, IInv, TypeOK
<1>q. QED
  BY <1>4, <1>6, <1>9 DEF IInv

\* Types, exact counters and one result per request, in every reachable state.
THEOREM HandlerInvariant == Spec => []IInv
<1>1. Init => IInv
  BY InitHolds
<1>2. IInv /\ [Next]_vars => IInv'
  BY MainStep, RequestStep DEF Next
<1>q. QED
  BY <1>1, <1>2, PTL DEF Spec

\* The variables keep their types, whatever the number of requests and tries.
THEOREM HandlerTypeCorrect == Spec => []TypeOK
<1>1. IInv => TypeOK
  BY DEF IInv
<1>q. QED
  BY <1>1, HandlerInvariant, PTL

\* activeRequests is the number of requests between its two changes.
THEOREM ActiveCorrect == Spec => []ActiveIsExact
<1>1. IInv => ActiveIsExact
  BY DEF IInv
<1>q. QED
  BY <1>1, HandlerInvariant, PTL

\* The total is the successes, the failures and the unsettled requests, those
\* under way, without a URL or ended by a panic.
THEOREM StatsCorrect == Spec => []StatsAddUp
<1>1. IInv => StatsAddUp
  BY DEF IInv
<1>q. QED
  BY <1>1, HandlerInvariant, PTL

\* Every request that was tried is recorded once when it leaves, unless a panic
\* ended it: then never.
THEOREM RecordedCorrect == Spec => []RecordedOnce
<1>1. IInv => RecordedOnce
  BY DEF IInv
<1>q. QED
  BY <1>1, HandlerInvariant, PTL

\* A shutdown that did not run into its time limit leaves no counted request.
THEOREM DrainCorrect == Spec => DrainMissesOnlyNewcomers
<1>1. ASSUME IInv, [Next]_vars, main = "draining", main' = "drained"
      PROVE  \A g \in Goroutines : pc[g] \in {"idle", "enter", "done"}
  <2>1. activeRequests = 0
    BY <1>1
       DEF Next, Signal, Shutdown, Drained, DrainTimeout, Exit, CheckShutdown, Handle, Enter,
         Count, MissingURL, Reject, Accept, TryAgain, GiveUp, Retry, Forbidden,
         ForbiddenAgain, Refreshed, NotRefreshed, Respond, BodyFails, Panic, CountFailure,
         RecordFailure, CountSuccess, RecordSuccess, Leave, vars
  <2>2. Active \in SUBSET Goroutines /\ Cardinality(Active) = 0
    BY <1>1, <2>1 DEF IInv, ActiveIsExact, Active
  <2>3. Active = {}
    BY <2>2, GoroutinesFinite, FS_EmptySet
  <2>q. QED
    BY <2>3 DEF Active
<1>2. IInv /\ [Next]_vars =>
        [main = "draining" /\ main' = "drained" =>
           \A g \in Goroutines : pc[g] \in {"idle", "enter", "done"}]_vars
  BY <1>1
<1>q. QED
  BY <1>2, HandlerInvariant, PTL DEF Spec, DrainMissesOnlyNewcomers
=============================================================================

------------------------- MODULE ProxySession_proof -------------------------
(***************************************************************************)
(* Proofs about the cookie sessions, for any number of goroutines,         *)
(* addresses and session objects.                                          *)
(***************************************************************************)
EXTENDS ProxySession, FiniteSetTheorems, TLAPS

\* g won the CompareAndSwap of object o and has not reset its flag yet.
Claims(g, o) == target[g] = o /\ pc[g] \in {"slot", "push", "fetch", "pop", "unflag"}

\* g is between the two operations on the semaphore.
Holds(g) == pc[g] \in {"fetch", "pop"}

-----------------------------------------------------------------------------
\* RefreshExclusive without sets, before a step and after it.
LEMMA ClaimantsByClaims ==
    \A o \in Sessions, g \in Goroutines :
        /\ g \in Claimants(o) <=> Claims(g, o)
        /\ g \in Claimants(o)' <=> Claims(g, o)'
BY DEF Claimants, Claims

LEMMA OnlyGoroutinesClaim ==
    \A o \in Sessions : /\ \A g \in Claimants(o) : g \in Goroutines
                        /\ \A g \in Claimants(o)' : g \in Goroutines
BY DEF Claimants

LEMMA ExclusiveByClaims ==
    ASSUME RefreshExclusive, NEW o \in Sessions
    PROVE  /\ refreshing[o] <=> \E g \in Goroutines : Claims(g, o)
           /\ \A g, h \in Goroutines : Claims(g, o) /\ Claims(h, o) => g = h
<1>1. /\ refreshing[o] <=> Claimants(o) # {}
      /\ \A g, h \in Claimants(o) : g = h
  BY DEF RefreshExclusive
<1>2. /\ \A g \in Claimants(o) : g \in Goroutines
      /\ \A g \in Goroutines : g \in Claimants(o) <=> Claims(g, o)
  BY ClaimantsByClaims, OnlyGoroutinesClaim
<1>3. QED
  BY <1>1, <1>2, Zenon

LEMMA ClaimsAreExclusive ==
    ASSUME \A o \in Sessions :
             /\ refreshing'[o] <=> \E g \in Goroutines : Claims(g, o)'
             /\ \A g, h \in Goroutines : Claims(g, o)' /\ Claims(h, o)' => g = h
    PROVE  RefreshExclusive'
BY ClaimantsByClaims, OnlyGoroutinesClaim, Zenon DEF RefreshExclusive

\* A step that moves no claimant and touches no flag.
LEMMA SameClaims ==
    ASSUME RefreshExclusive, UNCHANGED refreshing,
           \A g \in Goroutines, o \in Sessions : Claims(g, o)' <=> Claims(g, o)
    PROVE  RefreshExclusive'
<1>1. ASSUME NEW o \in Sessions
      PROVE  /\ refreshing'[o] <=> \E g \in Goroutines : Claims(g, o)'
             /\ \A g, h \in Goroutines : Claims(g, o)' /\ Claims(h, o)' => g = h
  BY <1>1, ExclusiveByClaims
<1>2. QED
  BY <1>1, ClaimsAreExclusive

\* A step that takes no slot and returns none.
LEMMA SameSlots ==
    ASSUME SlotsBalanced, UNCHANGED slots,
           \A g \in Goroutines : Holds(g)' <=> Holds(g)
    PROVE  SlotsBalanced'
<1>1. Refreshers' = Refreshers
  BY DEF Refreshers, Holds
<1>2. QED
  BY <1>1, Zenon DEF SlotsBalanced

-----------------------------------------------------------------------------
\* Types, action by action.  Only two depend on more than types: the slot that
\* is returned is in use, and the adjusted limit is positive.
LEMMA SlotsAreNumbers == MaxRefresh \in Nat
BY SessionAssumption DEF SessionAssumption

LEMMA ReturnType ==
    ASSUME TypeOK, NEW g \in Goroutines, NEW from, NEW err \in Outcomes,
           Return(g, from, err)
    PROVE  /\ pc' \in [Goroutines -> Locations]
           /\ refreshed' \in [Goroutines -> Outcomes]
BY DEF TypeOK, Return, Goto, Locations

LEMMA StoreType ==
    ASSUME TypeOK, NEW g \in Goroutines, NEW o \in Sessions, StoreSession(g, o)
    PROVE  /\ sessionManager' \in [Addresses -> Sessions \cup {Nil}]
           /\ cookies' \in [Sessions -> Cookies]
           /\ inactive' \in [Sessions -> BOOLEAN]
           /\ refreshing' = refreshing
BY DEF TypeOK, StoreSession, Cookies

LEMMA RefreshType ==
    ASSUME TypeOK, Addressed, NEW g \in Goroutines, Refresh(g), ~Pop(g)
    PROVE  TypeOK'
<1> USE DEF localVars, objectVars, semVars
<1>1. CASE Lookup(g)
  <2>1. sessionManager[ipv6[g]] \in Sessions \cup {Nil}
    BY <1>1 DEF TypeOK, Addressed, Lookup, Goto
  <2>2. QED
    BY <1>1, <2>1 DEF TypeOK, Lookup, Goto, Locations
<1>2. ASSUME NEW o \in Sessions, Create(g, o)
      PROVE  TypeOK'
  BY <1>2, StoreType DEF TypeOK, Create, Goto, Locations
<1>3. CASE Clean(g)
  BY <1>3 DEF TypeOK, Clean, Goto, Locations, Cookies
<1>4. CASE StillFresh(g)
  BY <1>4, ReturnType DEF TypeOK, StillFresh, Outcomes
<1>5. CASE Stale(g) \/ LoseClaim(g) \/ PollSlots(g)
  BY <1>5 DEF TypeOK, Stale, LoseClaim, PollSlots, Goto, Locations
<1>6. CASE Claim(g)
  BY <1>6 DEF TypeOK, Claim, Goto, Locations
<1>7. CASE Waited(g)
  BY <1>7, ReturnType DEF TypeOK, Waited, Outcomes
<1>8. CASE Push(g)
  <2>1. slots' \in 0 .. MaxRefresh
    <3>1. slots \in 0 .. MaxRefresh
      BY DEF TypeOK
    <3>2. slots < MaxRefresh /\ slots' = slots + 1
      BY <1>8 DEF Push
    <3>3. QED
      BY <3>1, <3>2, SlotsAreNumbers
  <2>2. QED
    BY <1>8, <2>1 DEF TypeOK, Push, Goto, Locations
<1>9. ASSUME NEW e \in {"fresh", "due"}, RefreshSucceeds(g, e)
      PROVE  TypeOK'
  BY <1>9 DEF TypeOK, RefreshSucceeds, Goto, Locations, Outcomes, Cookies
<1>10. CASE RefreshFails(g)
  BY <1>10 DEF TypeOK, RefreshFails, Goto, Locations, Outcomes
<1>11. CASE Unflag(g)
  BY <1>11, ReturnType DEF TypeOK, Unflag
<1>12. QED
  BY <1>1, <1>2, <1>3, <1>4, <1>5, <1>6, <1>7, <1>8, <1>9, <1>10, <1>11 DEF Refresh

LEMMA HandleType ==
    ASSUME TypeOK, Addressed, NEW g \in Goroutines, Handle(g)
    PROVE  TypeOK'
<1> USE DEF localVars, objectVars, semVars
<1>1. CASE Attach(g)
  <2>1. sessionManager[ipv6[g]] \in Sessions \cup {Nil}
    BY <1>1 DEF TypeOK, Addressed, Attach, Goto
  <2>2. QED
    BY <1>1, <2>1 DEF TypeOK, Attach, Goto, Locations
<1>2. ASSUME NEW o \in Sessions, AttachNew(g, o)
      PROVE  TypeOK'
  BY <1>2, StoreType DEF TypeOK, AttachNew, Goto, Locations
<1>3. CASE Touch(g)
  BY <1>3 DEF TypeOK, Touch, Goto, Locations
<1>4. CASE Forbidden(g)
  BY <1>4 DEF TypeOK, Forbidden, Goto, Locations
<1>5. CASE Panic(g) \/ Answer(g)
  BY <1>5 DEF TypeOK, Panic, Answer, Goto, Locations
<1>6. QED
  BY <1>1, <1>2, <1>3, <1>4, <1>5 DEF Handle

LEMMA OptimalType == Optimal \in Nat \ {0}
<1>1. PICK S : S = {a \in Addresses : sessionManager[a] # Nil}
  OBVIOUS
<1>2. Cardinality(S) \in Nat
  BY <1>1, SessionAssumption, FS_Subset, FS_CardinalityType DEF SessionAssumption
<1>3. PICK n : n = Cardinality(S) \div SessionsPerSlot
  OBVIOUS
<1>4. n \in Nat
  BY <1>2, <1>3, SessionAssumption DEF SessionAssumption
<1>5. Clamp(n) \in Nat \ {0}
  BY <1>4, SessionAssumption DEF Clamp, SessionAssumption
<1>6. QED
  BY <1>1, <1>3, <1>5, Zenon DEF Optimal

\* Steps that neither take nor return a slot keep the type of the rest.
LEMMA TypeStep ==
    ASSUME TypeOK, Addressed, [Next]_vars,
           ASSUME NEW g \in Goroutines, Pop(g) PROVE slots > 0
    PROVE  TypeOK'
<1> USE DEF localVars, objectVars, semVars
<1>1. ASSUME NEW g \in Goroutines, NEW a \in Addresses, Arrive(g, a)
      PROVE  TypeOK'
  BY <1>1 DEF TypeOK, Arrive, Goto, Locations
<1>2. ASSUME NEW g \in Goroutines, Refresh(g)
      PROVE  TypeOK'
  <2>1. CASE Pop(g)
    <3>1. slots' \in 0 .. MaxRefresh
      <4>1. slots \in 0 .. MaxRefresh
        BY DEF TypeOK
      <4>2. slots > 0 /\ slots' = slots - 1
        BY <2>1 DEF Pop
      <4>3. QED
        BY <4>1, <4>2, SlotsAreNumbers
    <3>2. QED
      BY <2>1, <3>1 DEF TypeOK, Pop, Goto, Locations
  <2>2. QED
    BY <1>2, <2>1, RefreshType
<1>3. ASSUME NEW g \in Goroutines, Handle(g)
      PROVE  TypeOK'
  BY <1>3, HandleType
<1>4. CASE Scan
  BY <1>4 DEF TypeOK, Scan
<1>5. ASSUME NEW a \in Addresses, Delete(a)
      PROVE  TypeOK'
  BY <1>5 DEF TypeOK, Delete
<1>6. CASE Adjust
  BY <1>6, OptimalType DEF TypeOK, Adjust
<1>7. ASSUME NEW o \in Sessions, GoIdle(o) \/ AgeCookies(o)
      PROVE  TypeOK'
  BY <1>7 DEF TypeOK, GoIdle, AgeCookies, Cookies
<1>8. CASE UNCHANGED vars
  BY <1>8 DEF TypeOK, vars
<1>9. QED
  BY <1>1, <1>2, <1>3, <1>4, <1>5, <1>6, <1>7, <1>8 DEF Next, Environment

-----------------------------------------------------------------------------
\* A goroutine keeps its address once it has one.
LEMMA AddressedStep ==
    ASSUME TypeOK, Addressed, [Next]_vars
    PROVE  Addressed'
<1> USE DEF Addressed, TypeOK, Goto, localVars
<1>1. ASSUME NEW g \in Goroutines, NEW a \in Addresses, Arrive(g, a)
      PROVE  Addressed'
  BY <1>1 DEF Arrive
<1>2. ASSUME NEW g \in Goroutines, Refresh(g)
      PROVE  ipv6' = ipv6 /\ \A h \in Goroutines : pc[h] = "arrive" => pc'[h] = "arrive"
  BY <1>2 DEF Refresh, Lookup, Create, Clean, StillFresh, Stale, Claim, LoseClaim, Waited,
              PollSlots, Push, RefreshSucceeds, RefreshFails, Pop, Unflag, Return
<1>3. ASSUME NEW g \in Goroutines, Handle(g)
      PROVE  ipv6' = ipv6 /\ \A h \in Goroutines : pc[h] = "arrive" => pc'[h] = "arrive"
  BY <1>3 DEF Handle, Attach, AttachNew, Touch, Forbidden, Panic, Answer
<1>4. CASE UNCHANGED <<pc, ipv6>>
  BY <1>4
<1>5. ASSUME ipv6' = ipv6,
             \A h \in Goroutines : pc[h] = "arrive" => pc'[h] = "arrive"
      PROVE  Addressed'
  BY <1>5
<1>6. QED
  BY <1>1, <1>2, <1>3, <1>4, <1>5
  DEF Next, Scan, Delete, Adjust, Environment, GoIdle, AgeCookies, vars

-----------------------------------------------------------------------------
\* The flags.  Claim raises the flag of an object nobody claims, and Unflag
\* lowers that of the only claimant; no other step moves a claimant.
LEMMA ClaimKeepsExclusive ==
    ASSUME TypeOK, RefreshExclusive, NEW g \in Goroutines, Claim(g)
    PROVE  RefreshExclusive'
<1>1. /\ pc[g] = "cas" /\ ~refreshing[target[g]]
      /\ refreshing' = [refreshing EXCEPT ![target[g]] = TRUE]
      /\ pc' = [pc EXCEPT ![g] = "slot"]
      /\ target' = target
  BY DEF Claim, Goto, localVars
<1>2. /\ pc \in [Goroutines -> Locations]
      /\ refreshing \in [Sessions -> BOOLEAN]
  BY DEF TypeOK
<1>3. ASSUME NEW o \in Sessions
      PROVE  /\ refreshing'[o] <=> o = target[g] \/ refreshing[o]
             /\ \A h \in Goroutines :
                  Claims(h, o)' <=> Claims(h, o) \/ (h = g /\ o = target[g])
             /\ ~Claims(g, o)
  BY <1>1, <1>2 DEF Claims
<1>4. ASSUME NEW o \in Sessions
      PROVE  /\ refreshing'[o] <=> \E h \in Goroutines : Claims(h, o)'
             /\ \A h, i \in Goroutines : Claims(h, o)' /\ Claims(i, o)' => h = i
  BY <1>1, <1>3, <1>4, ExclusiveByClaims
<1>5. QED
  BY <1>4, ClaimsAreExclusive

LEMMA UnflagKeepsExclusive ==
    ASSUME TypeOK, RefreshExclusive, NEW g \in Goroutines, Unflag(g)
    PROVE  RefreshExclusive'
<1>1. /\ pc[g] = "unflag"
      /\ refreshing' = [refreshing EXCEPT ![target[g]] = FALSE]
      /\ target' = target
  BY DEF Unflag, Return, Goto
<1>2. PICK to \in {"attach", "send", "giveUp"} : pc' = [pc EXCEPT ![g] = to]
  BY DEF Unflag, Return, Goto
<1>3. /\ pc \in [Goroutines -> Locations]
      /\ refreshing \in [Sessions -> BOOLEAN]
  BY DEF TypeOK
<1>4. ASSUME NEW o \in Sessions
      PROVE  /\ refreshing'[o] <=> o # target[g] /\ refreshing[o]
             /\ \A h \in Goroutines : Claims(h, o)' <=> Claims(h, o) /\ h # g
             /\ Claims(g, o) <=> o = target[g]
  BY <1>1, <1>2, <1>3 DEF Claims
<1>5. ASSUME NEW o \in Sessions
      PROVE  /\ refreshing'[o] <=> \E h \in Goroutines : Claims(h, o)'
             /\ \A h, i \in Goroutines : Claims(h, o)' /\ Claims(i, o)' => h = i
  BY <1>4, <1>5, ExclusiveByClaims
<1>6. QED
  BY <1>5, ClaimsAreExclusive

Same ==
    /\ UNCHANGED refreshing
    /\ \A h \in Goroutines, o \in Sessions : Claims(h, o)' <=> Claims(h, o)

LEMMA OthersClaimNothing ==
    ASSUME TypeOK, [Next]_vars
    PROVE  Same \/ \E g \in Goroutines : Claim(g) \/ Unflag(g)
<1> USE DEF Same, Claims, TypeOK, Goto, objectVars, semVars, localVars
<1>1. ASSUME NEW g \in Goroutines, NEW a \in Addresses, Arrive(g, a)
      PROVE  Same
  BY <1>1 DEF Arrive
<1>2. ASSUME NEW g \in Goroutines, Refresh(g), ~Claim(g), ~Unflag(g)
      PROVE  Same
  <2>1. CASE Lookup(g)
    BY <2>1 DEF Lookup
  <2>2. ASSUME NEW o \in Sessions, Create(g, o)
        PROVE  Same
    BY <2>2 DEF Create, StoreSession
  <2>3. CASE Clean(g) \/ Stale(g) \/ LoseClaim(g)
    BY <2>3 DEF Clean, Stale, LoseClaim
  <2>4. CASE PollSlots(g) \/ Push(g) \/ Pop(g)
    BY <2>4 DEF PollSlots, Push, Pop
  <2>5. CASE StillFresh(g) \/ Waited(g)
    BY <2>5 DEF StillFresh, Waited, Return
  <2>6. ASSUME NEW e \in {"fresh", "due"}, RefreshSucceeds(g, e)
        PROVE  Same
    BY <2>6 DEF RefreshSucceeds
  <2>7. CASE RefreshFails(g)
    BY <2>7 DEF RefreshFails
  <2>8. QED
    BY <1>2, <2>1, <2>2, <2>3, <2>4, <2>5, <2>6, <2>7 DEF Refresh
<1>3. ASSUME NEW g \in Goroutines, Handle(g)
      PROVE  Same
  <2>1. CASE Attach(g)
    BY <2>1 DEF Attach
  <2>2. ASSUME NEW o \in Sessions, AttachNew(g, o)
        PROVE  Same
    BY <2>2 DEF AttachNew, StoreSession
  <2>3. CASE Touch(g) \/ Forbidden(g) \/ Panic(g) \/ Answer(g)
    BY <2>3 DEF Touch, Forbidden, Panic, Answer
  <2>4. QED
    BY <1>3, <2>1, <2>2, <2>3 DEF Handle
<1>4. CASE Scan \/ Adjust \/ (\E a \in Addresses : Delete(a)) \/ Environment
  BY <1>4 DEF Scan, Adjust, Delete, Environment, GoIdle, AgeCookies
<1>5. CASE UNCHANGED vars
  BY <1>5 DEF vars
<1> HIDE DEF Same, Claims, TypeOK, Goto, objectVars, semVars, localVars
<1>6. QED
  BY <1>1, <1>2, <1>3, <1>4, <1>5 DEF Next

LEMMA ExclusiveStep ==
    ASSUME TypeOK, RefreshExclusive, [Next]_vars
    PROVE  RefreshExclusive'
<1>1. CASE Same
  BY <1>1, SameClaims DEF Same
<1>2. QED
  BY <1>1, OthersClaimNothing, ClaimKeepsExclusive, UnflagKeepsExclusive

-----------------------------------------------------------------------------
\* The slots.  Push takes one and enters the refresh, Pop returns one and
\* leaves it; no other step does either.
LEMMA RefreshersFinite == IsFiniteSet(Refreshers) /\ Cardinality(Refreshers) \in Nat
BY SessionAssumption, FS_Subset, FS_CardinalityType DEF SessionAssumption, Refreshers

LEMMA PushKeepsSlots ==
    ASSUME TypeOK, SlotsBalanced, NEW g \in Goroutines, Push(g)
    PROVE  SlotsBalanced'
<1>1. g \notin Refreshers /\ Refreshers' = Refreshers \cup {g}
  BY DEF TypeOK, Push, Goto, Refreshers
<1>2. Cardinality(Refreshers') = Cardinality(Refreshers) + 1
  BY <1>1, RefreshersFinite, FS_AddElement
<1>3. QED
  BY <1>2 DEF SlotsBalanced, Push

LEMMA PopKeepsSlots ==
    ASSUME TypeOK, SlotsBalanced, NEW g \in Goroutines, Pop(g)
    PROVE  SlotsBalanced' /\ slots > 0
<1>1. g \in Refreshers /\ Refreshers' = Refreshers \ {g}
  BY DEF TypeOK, Pop, Goto, Refreshers
<1>2. Cardinality(Refreshers') = Cardinality(Refreshers) - 1
  BY <1>1, RefreshersFinite, FS_RemoveElement
<1>3. Cardinality(Refreshers) # 0
  BY <1>1, RefreshersFinite, FS_EmptySet
<1>4. QED
  BY <1>2, <1>3, RefreshersFinite DEF SlotsBalanced, Pop

SameHolders == /\ UNCHANGED slots
               /\ \A h \in Goroutines : Holds(h)' <=> Holds(h)

LEMMA OthersHoldNothing ==
    ASSUME TypeOK, [Next]_vars
    PROVE  SameHolders \/ \E g \in Goroutines : Push(g) \/ Pop(g)
<1> USE DEF SameHolders, Holds, TypeOK, Goto, objectVars, semVars, localVars
<1>1. ASSUME NEW g \in Goroutines, NEW a \in Addresses, Arrive(g, a)
      PROVE  SameHolders
  BY <1>1 DEF Arrive
<1>2. ASSUME NEW g \in Goroutines, Refresh(g), ~Push(g), ~Pop(g)
      PROVE  SameHolders
  <2>1. CASE Lookup(g)
    BY <2>1 DEF Lookup
  <2>2. ASSUME NEW o \in Sessions, Create(g, o)
        PROVE  SameHolders
    BY <2>2 DEF Create
  <2>3. CASE Clean(g) \/ Stale(g) \/ Claim(g) \/ LoseClaim(g) \/ PollSlots(g)
    BY <2>3 DEF Clean, Stale, Claim, LoseClaim, PollSlots
  <2>4. CASE StillFresh(g) \/ Waited(g) \/ Unflag(g)
    BY <2>4 DEF StillFresh, Waited, Unflag, Return
  <2>5. ASSUME NEW e \in {"fresh", "due"}, RefreshSucceeds(g, e)
        PROVE  SameHolders
    BY <2>5 DEF RefreshSucceeds
  <2>6. CASE RefreshFails(g)
    BY <2>6 DEF RefreshFails
  <2>7. QED
    BY <1>2, <2>1, <2>2, <2>3, <2>4, <2>5, <2>6 DEF Refresh
<1>3. ASSUME NEW g \in Goroutines, Handle(g)
      PROVE  SameHolders
  BY <1>3 DEF Handle, Attach, AttachNew, Touch, Forbidden, Panic, Answer
<1>4. CASE Scan \/ Adjust \/ (\E a \in Addresses : Delete(a)) \/ Environment
  BY <1>4 DEF Scan, Adjust, Delete, Environment, GoIdle, AgeCookies
<1>5. CASE UNCHANGED vars
  BY <1>5 DEF vars
<1> HIDE DEF SameHolders, Holds, TypeOK, Goto, objectVars, semVars, localVars
<1>6. QED
  BY <1>1, <1>2, <1>3, <1>4, <1>5 DEF Next

LEMMA SlotsStep ==
    ASSUME TypeOK, SlotsBalanced, [Next]_vars
    PROVE  SlotsBalanced'
<1>1. CASE SameHolders
  BY <1>1, SameSlots DEF SameHolders
<1>2. QED
  BY <1>1, OthersHoldNothing, PushKeepsSlots, PopKeepsSlots

-----------------------------------------------------------------------------
\* The inductive invariant of the session machinery.
THEOREM SessionInvariant == Spec => []IInv
<1>1. Init => IInv
  <2> SUFFICES ASSUME Init PROVE IInv
    OBVIOUS
  <2>1. TypeOK
    <3>1. 0 \in 0 .. MaxRefresh
      BY SlotsAreNumbers
    <3>2. MinRefresh \in Nat \ {0}
      BY SessionAssumption DEF SessionAssumption
    <3>3. QED
      BY <3>1, <3>2 DEF Init, TypeOK, Locations, Outcomes, Cookies
  <2>2. Addressed
    BY DEF Init, Addressed
  <2>3. RefreshExclusive
    BY DEF Init, RefreshExclusive, Claimants
  <2>4. Refreshers = {}
    BY DEF Init, Refreshers
  <2>5. SlotsBalanced
    BY <2>4, FS_EmptySet DEF Init, SlotsBalanced
  <2>6. QED
    BY <2>1, <2>2, <2>3, <2>5 DEF IInv
<1>2. IInv /\ [Next]_vars => IInv'
  <2> SUFFICES ASSUME IInv, [Next]_vars PROVE IInv'
    OBVIOUS
  <2>1. TypeOK /\ Addressed /\ RefreshExclusive /\ SlotsBalanced
    BY DEF IInv
  <2>2. ASSUME NEW g \in Goroutines, Pop(g) PROVE slots > 0
    BY <2>1, <2>2, PopKeepsSlots
  <2>3. TypeOK'
    BY <2>1, <2>2, TypeStep
  <2>4. Addressed' /\ RefreshExclusive' /\ SlotsBalanced'
    BY <2>1, AddressedStep, ExclusiveStep, SlotsStep
  <2>5. QED
    BY <2>3, <2>4 DEF IInv
<1>3. QED
  BY <1>1, <1>2, PTL DEF Spec

\* The session machinery keeps its types: the adjusted limit stays positive and
\* no more slots are in use than there are, whatever refreshes overlap.
THEOREM SessionTypeCorrect == Spec => []TypeOK
<1>1. IInv => TypeOK
  BY DEF IInv
<1>2. QED
  BY <1>1, SessionInvariant, PTL

\* refreshSession: one goroutine at a time refreshes a session object, and its
\* flag is up exactly while one does.
THEOREM RefreshIsExclusive == Spec => []RefreshExclusive
<1>1. IInv => RefreshExclusive
  BY DEF IInv
<1>2. QED
  BY <1>1, SessionInvariant, PTL

\* refreshSession: the slots in use are those of the goroutines inside a
\* refresh, on every way out of it.
THEOREM SlotsAreBalanced == Spec => []SlotsBalanced
<1>1. IInv => SlotsBalanced
  BY DEF IInv
<1>2. QED
  BY <1>1, SessionInvariant, PTL
=============================================================================

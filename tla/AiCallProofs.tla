---------------------------- MODULE AiCallProofs ----------------------------
(***************************************************************************)
(* Admission of requests to AI providers, for every number of requests,     *)
(* every limit and every pair of budgets: a request on its way is covered   *)
(* by its lease, and therefore the leases, which are counted, bound the     *)
(* requests, which are not.                                                 *)
(***************************************************************************)
EXTENDS AiCallLeases, FiniteSetTheorems, TLAPS

\* What an admission may rely on while it holds the lock.
LockSound ==
    /\ \A c \in In("locked") \cup In("counted") : holder = c
    /\ \A c \in In("counted") : Admitted(c)

\* The database clock was read after the timer was started, so that a lease ends at least
\* Grace after the budget of its request; an aborted request is over before.
TimeSound ==
    \A c \in Calls :
        LET ends == call[c].start + Budget(c) + Grace
        IN  /\ call[c].pc \in {"waiting", "locked", "counted"} => call[c].start <= now
            /\ call[c].pc = "counted" => call[c].start <= read[c] /\ read[c] <= now
            /\ call[c].pc = "granted" /\ now < ends => lease[c] >= ends
            /\ call[c].pc = "dispatching" =>
                  now <= call[c].start + Budget(c) + Drain /\ lease[c] >= ends

\* The leases that count.
LeasesBounded == Cardinality(Live \ Probes) <= Limit /\ Cardinality(Live \cap Probes) <= 1

Inv == TypeOK /\ LockSound /\ TimeSound /\ LeasesBounded

\* A budget is a number.
LEMMA BudgetType == ASSUME AiCallAssumption, NEW c \in Calls PROVE Budget(c) \in Nat
  BY DEF AiCallAssumption, Budget

\* Sets of requests are finite, and a part of one is not larger.
LEMMA Parts ==
    ASSUME AiCallAssumption, NEW T \in SUBSET Calls, NEW U \in SUBSET T
    PROVE  /\ IsFiniteSet(T) /\ IsFiniteSet(U)
           /\ Cardinality(U) <= Cardinality(T)
           /\ Cardinality(U) \in Nat /\ Cardinality(T) \in Nat
<1>1. IsFiniteSet(T)
  BY FS_Subset DEF AiCallAssumption
<1> QED
  BY <1>1, FS_Subset, FS_CardinalityType

\* One request more makes a set larger by one at most.
LEMMA OneMore ==
    ASSUME NEW T, IsFiniteSet(T), NEW c
    PROVE  /\ Cardinality(T \cup {c}) <= Cardinality(T) + 1
           /\ IsFiniteSet(T \cup {c}) /\ Cardinality(T) \in Nat
<1>1. Cardinality(T) \in Nat
  BY FS_CardinalityType
<1>2. Cardinality(T \cup {c}) = IF c \in T THEN Cardinality(T) ELSE Cardinality(T) + 1
  BY FS_AddElement
<1>3. IsFiniteSet(T \cup {c})
  BY FS_AddElement
<1> QED
  BY <1>1, <1>2, <1>3

\* An admission does not become wrong while leases are only given back or expire.
LEMMA FewerLeases ==
    ASSUME AiCallAssumption, NEW c \in Calls, Live' \subseteq Live, Admitted(c),
           Limit \in Nat
    PROVE  Admitted(c)'
<1>1. Occupied(c) \in SUBSET Calls /\ Occupied(c)' \in SUBSET Occupied(c)
  BY DEF Occupied, Live
<1>2. Cardinality(Occupied(c)') <= Cardinality(Occupied(c))
      /\ Cardinality(Occupied(c)) \in Nat /\ Cardinality(Occupied(c)') \in Nat
  BY <1>1, Parts
<1>3. Cardinality(Occupied(c))' = Cardinality(Occupied(c)')
  OBVIOUS
<1> QED
  BY <1>2, <1>3 DEF Admitted

\* Nor do the bounds.
LEMMA FewerBounded ==
    ASSUME AiCallAssumption, Live' \subseteq Live, LeasesBounded
    PROVE  LeasesBounded'
<1>1. /\ Live \ Probes \in SUBSET Calls /\ Live' \ Probes \in SUBSET (Live \ Probes)
      /\ Live \cap Probes \in SUBSET Calls /\ Live' \cap Probes \in SUBSET (Live \cap Probes)
  BY DEF Live
<1>2. /\ Cardinality(Live' \ Probes) <= Cardinality(Live \ Probes)
      /\ Cardinality(Live' \ Probes) \in Nat /\ Cardinality(Live \ Probes) \in Nat
  BY <1>1, Parts
<1>3. /\ Cardinality(Live' \cap Probes) <= Cardinality(Live \cap Probes)
      /\ Cardinality(Live' \cap Probes) \in Nat /\ Cardinality(Live \cap Probes) \in Nat
  BY <1>1, Parts
<1>4. Limit \in Nat
  BY DEF AiCallAssumption
<1> QED
  BY <1>2, <1>3, <1>4 DEF LeasesBounded

\* An admission under the lock adds one lease, for which there was room.
LEMMA OneMoreBounded ==
    ASSUME AiCallAssumption, NEW c \in Calls, Live' \subseteq Live \cup {c}, LeasesBounded,
           Admitted(c)
    PROVE  LeasesBounded'
<1> USE DEF AiCallAssumption
<1>1. Live \in SUBSET Calls /\ IsFiniteSet(Live) /\ IsFiniteSet(Live \ Probes)
      /\ IsFiniteSet(Live \cap Probes)
  BY FS_Subset DEF Live
<1>2. CASE c \in Probes
  <2>1. Occupied(c) = Live \cap Probes /\ Cardinality(Occupied(c)) + 1 <= 1
    BY <1>2 DEF Occupied, Admitted
  <2>2. /\ Cardinality((Live \cap Probes) \cup {c}) <= Cardinality(Live \cap Probes) + 1
        /\ IsFiniteSet((Live \cap Probes) \cup {c})
        /\ Cardinality(Live \cap Probes) \in Nat
    BY <1>1, OneMore
  <2>3. Live' \cap Probes \in SUBSET ((Live \cap Probes) \cup {c})
        /\ Live' \ Probes \in SUBSET (Live \ Probes)
    BY <1>2
  <2>4. /\ Cardinality(Live' \cap Probes) <= Cardinality((Live \cap Probes) \cup {c})
        /\ Cardinality(Live' \cap Probes) \in Nat
    BY <2>2, <2>3, FS_Subset, FS_CardinalityType
  <2>5. /\ Cardinality(Live' \ Probes) <= Cardinality(Live \ Probes)
        /\ Cardinality(Live' \ Probes) \in Nat /\ Cardinality(Live \ Probes) \in Nat
    BY <1>1, <2>3, FS_Subset, FS_CardinalityType
  <2>6. Cardinality((Live \cap Probes) \cup {c}) \in Nat
    BY <2>2, FS_CardinalityType
  <2>7. Cardinality(Live' \cap Probes) <= 1
    BY <2>1, <2>2, <2>4, <2>6
  <2>8. Cardinality(Live' \ Probes) <= Limit
    BY <2>5 DEF LeasesBounded
  <2> QED
    BY <2>7, <2>8 DEF LeasesBounded
<1>3. CASE c \notin Probes
  <2>1. Occupied(c) = Live /\ Cardinality(Live) + 1 <= Limit
    BY <1>1, <1>3 DEF Occupied, Admitted
  <2>2. /\ Cardinality(Live \cup {c}) <= Cardinality(Live) + 1
        /\ IsFiniteSet(Live \cup {c})
        /\ Cardinality(Live) \in Nat
    BY <1>1, OneMore
  <2>3. Live' \ Probes \in SUBSET (Live \cup {c})
        /\ Live' \cap Probes \in SUBSET (Live \cap Probes)
    BY <1>3
  <2>4. /\ Cardinality(Live' \ Probes) <= Cardinality(Live \cup {c})
        /\ Cardinality(Live' \ Probes) \in Nat /\ Cardinality(Live \cup {c}) \in Nat
    BY <2>2, <2>3, FS_Subset, FS_CardinalityType
  <2>5. /\ Cardinality(Live' \cap Probes) <= Cardinality(Live \cap Probes)
        /\ Cardinality(Live' \cap Probes) \in Nat /\ Cardinality(Live \cap Probes) \in Nat
    BY <1>1, <2>3, FS_Subset, FS_CardinalityType
  <2>6. Cardinality(Live' \ Probes) <= Limit
    BY <2>1, <2>2, <2>4
  <2>7. Cardinality(Live' \cap Probes) <= 1
    BY <2>5 DEF LeasesBounded
  <2> QED
    BY <2>6, <2>7 DEF LeasesBounded
<1> QED
  BY <1>2, <1>3

(***************************************************************************)
(* The invariant                                                            *)
(***************************************************************************)
LEMMA InitInv == ASSUME AiCallAssumption PROVE Init => Inv
<1> SUFFICES ASSUME Init PROVE Inv
  OBVIOUS
<1>1. Live = {}
  BY DEF Init, Live
<1>2. LeasesBounded
  <2>1. Live \ Probes = {} /\ Live \cap Probes = {}
    BY <1>1
  <2>2. Cardinality({}) = 0
    BY FS_EmptySet
  <2> QED
    BY <2>1, <2>2 DEF AiCallAssumption, LeasesBounded
<1>3. TypeOK
  BY DEF Init, TypeOK, PCs
<1>4. LockSound /\ TimeSound
  BY DEF Init, LockSound, TimeSound, In
<1> QED
  BY <1>2, <1>3, <1>4 DEF Inv

\* One case an action.  Only a commit adds a lease, and it holds the lock.
LEMMA StepInv == ASSUME AiCallAssumption PROVE Inv /\ [Next]_vars => Inv'
<1> SUFFICES ASSUME Inv, [Next]_vars PROVE Inv'
  OBVIOUS
<1>a. /\ LongBudget \in Nat /\ ShortBudget \in Nat /\ Grace \in Nat /\ Drain \in Nat
      /\ Limit \in Nat /\ Drain < Grace /\ \A c \in Calls : Budget(c) \in Nat
      /\ None \notin Calls
  BY BudgetType DEF AiCallAssumption
<1>b. TypeOK /\ LockSound /\ TimeSound /\ LeasesBounded
  BY DEF Inv
<1>c. ASSUME NEW c \in Calls PROVE c \in Calls /\ Budget(c)' = Budget(c)
  BY DEF Budget
<1> USE <1>a, <1>b
\* A step of one request that starts no timer, leaves the clock and adds no lease.
<1>s. ASSUME NEW c \in Calls, NEW pc \in PCs \ {"locked", "counted", "dispatching", "granted", "waiting"},
             Goto(c, pc), now' = now,
             read' = read \/ read' = [read EXCEPT ![c] = 0],
             lease' = lease \/ lease' = [lease EXCEPT ![c] = 0],
             holder' = holder \/ Unlock(c)
      PROVE  Inv'
  <2>1. /\ call' \in [Calls -> [pc : PCs, start : Nat]]
        /\ \A d \in Calls : d # c => call'[d] = call[d]
        /\ call'[c].pc = pc
    BY <1>s DEF Goto, TypeOK
  <2>2. TypeOK'
    BY <1>s, <2>1 DEF TypeOK, Unlock
  <2>3. Live' \subseteq Live
    BY <1>s DEF Live, TypeOK
  <2>4. LockSound'
    <3>1. ASSUME NEW d \in In("locked")' \cup In("counted")' PROVE holder' = d
      <4>1. d \in Calls /\ d # c /\ d \in In("locked") \cup In("counted")
        BY <1>s, <2>1, <3>1 DEF In
      <4>2. holder = d
        BY <4>1 DEF LockSound
      <4> QED
        BY <1>s, <4>1, <4>2 DEF Unlock
    <3>2. ASSUME NEW d \in In("counted")' PROVE Admitted(d)'
      <4>1. d \in Calls /\ d \in In("counted")
        BY <1>s, <2>1, <3>2 DEF In
      <4> QED
        BY <2>3, <4>1, FewerLeases DEF LockSound
    <3> QED
      BY <3>1, <3>2 DEF LockSound
  <2>5. TimeSound'
    BY <1>s, <1>c, <2>1 DEF TimeSound, TypeOK
  <2>6. LeasesBounded'
    BY <2>3, FewerBounded
  <2> QED
    BY <2>2, <2>4, <2>5, <2>6 DEF Inv
<1>1. ASSUME NEW c \in Calls, Begin(c) PROVE Inv'
  <2>1. /\ call' \in [Calls -> [pc : PCs, start : Nat]]
        /\ \A d \in Calls : d # c => call'[d] = call[d]
        /\ call'[c] = [pc |-> "waiting", start |-> now]
    BY <1>1 DEF Begin, TypeOK, PCs
  <2>2. TypeOK'
    BY <1>1, <2>1 DEF Begin, TypeOK
  <2>3. Live' = Live
    BY <1>1 DEF Begin, Live
  <2>4. In("locked")' = In("locked") /\ In("counted")' = In("counted")
    BY <1>1, <2>1 DEF Begin, In
  <2>5. LockSound'
    BY <1>1, <2>3, <2>4, FewerLeases DEF Begin, LockSound, In
  <2>6. TimeSound'
    BY <1>1, <1>c, <2>1 DEF Begin, TimeSound, TypeOK
  <2> QED
    BY <2>2, <2>3, <2>5, <2>6, FewerBounded DEF Inv
<1>2. ASSUME NEW c \in Calls, Lock(c) PROVE Inv'
  <2>1. /\ call' \in [Calls -> [pc : PCs, start : Nat]]
        /\ \A d \in Calls : d # c => call'[d] = call[d]
        /\ call'[c] = [pc |-> "locked", start |-> call[c].start]
    BY <1>2 DEF Lock, Goto, TypeOK, PCs
  <2>2. TypeOK'
    BY <1>2, <2>1 DEF Lock, TypeOK
  <2>3. Live' = Live
    BY <1>2 DEF Lock, Live
  <2>4. In("locked") = {} /\ In("counted") = {}
    BY <1>2 DEF Lock, LockFree, LockSound, In
  <2>5. In("locked")' \subseteq {c} /\ In("counted")' = {}
    BY <2>1, <2>4 DEF In
  <2>6. LockSound'
    BY <1>2, <2>5 DEF Lock, LockSound
  <2>7. TimeSound'
    BY <1>2, <1>c, <2>1 DEF Lock, TimeSound, TypeOK
  <2> QED
    BY <2>2, <2>3, <2>6, <2>7, FewerBounded DEF Inv
<1>3. ASSUME NEW c \in Calls, Count(c) PROVE Inv'
  <2>1. /\ call' \in [Calls -> [pc : PCs, start : Nat]]
        /\ \A d \in Calls : d # c => call'[d] = call[d]
        /\ call'[c] = [pc |-> "counted", start |-> call[c].start]
    BY <1>3 DEF Count, Goto, TypeOK, PCs
  <2>2. TypeOK'
    BY <1>3, <2>1 DEF Count, TypeOK
  <2>3. Live' = Live /\ holder' = holder
    BY <1>3 DEF Count, Live
  <2>4. holder = c
    BY <1>3 DEF Count, LockSound, In
  <2>5. ASSUME NEW d \in In("locked")' \cup In("counted")' PROVE d = c
    BY <2>1, <2>4, <2>5 DEF LockSound, In
  <2>6. Admitted(c)'
    BY <1>3, <2>3, FewerLeases DEF Count
  <2>7. LockSound'
    BY <2>3, <2>4, <2>5, <2>6 DEF LockSound
  <2>8. TimeSound'
    BY <1>3, <1>c, <2>1 DEF Count, TimeSound, TypeOK
  <2> QED
    BY <2>2, <2>3, <2>7, <2>8, FewerBounded DEF Inv
<1>4. ASSUME NEW c \in Calls, Commit(c) PROVE Inv'
  <2>1. /\ call' \in [Calls -> [pc : PCs, start : Nat]]
        /\ \A d \in Calls : d # c => call'[d] = call[d]
        /\ call'[c].pc = "done" \/ call'[c] = [pc |-> "granted", start |-> call[c].start]
    BY <1>4 DEF Commit, Goto, TypeOK, PCs
  <2>2. /\ lease' \in [Calls -> Nat] /\ lease'[c] = ExpiresAt(c) /\ now' = now
        /\ \A d \in Calls : d # c => lease'[d] = (IF lease[d] <= read[c] THEN 0 ELSE lease[d])
        /\ read' \in [Calls -> Nat] /\ \A d \in Calls : d # c => read'[d] = read[d]
    BY <1>4 DEF Commit, ExpiresAt, TypeOK
  <2>3. TypeOK'
    BY <1>4, <2>1, <2>2 DEF Commit, Unlock, TypeOK
  <2>4. holder = c /\ Admitted(c) /\ read[c] <= now /\ call[c].start <= read[c]
    BY <1>4 DEF Commit, LockSound, TimeSound, In
  <2>5. Live' \subseteq Live \cup {c}
    BY <2>2 DEF Live, TypeOK
  <2>6. In("locked")' = {} /\ In("counted")' = {}
    BY <2>1, <2>4 DEF LockSound, In
  <2>7. LockSound'
    BY <2>6 DEF LockSound
  <2>8. TimeSound'
    <3> SUFFICES ASSUME NEW d \in Calls
                 PROVE  LET ends == call'[d].start + Budget(d) + Grace
                        IN  /\ call'[d].pc \in {"waiting", "locked", "counted"} => call'[d].start <= now'
                            /\ call'[d].pc = "counted" => call'[d].start <= read'[d] /\ read'[d] <= now'
                            /\ call'[d].pc = "granted" /\ now' < ends => lease'[d] >= ends
                            /\ call'[d].pc = "dispatching" =>
                                  now' <= call'[d].start + Budget(d) + Drain /\ lease'[d] >= ends
      BY <1>c DEF TimeSound
    <3>1. CASE d = c
      BY <2>1, <2>2, <2>4, <3>1 DEF ExpiresAt, TypeOK
    <3>2. CASE d # c
      BY <2>1, <2>2, <2>4, <3>2 DEF TimeSound, TypeOK
    <3> QED
      BY <3>1, <3>2
  <2>9. LeasesBounded'
    BY <2>4, <2>5, OneMoreBounded
  <2> QED
    BY <2>3, <2>7, <2>8, <2>9 DEF Inv
<1>5. ASSUME NEW c \in Calls, Refuse(c) PROVE Inv'
  BY <1>5, <1>s DEF Refuse, PCs
<1>6. ASSUME NEW c \in Calls, Dispatch(c) PROVE Inv'
  <2>1. CASE TimedOut(c)
    BY <1>6, <2>1, <1>s DEF Dispatch, PCs
  <2>2. CASE ~TimedOut(c)
    <3>1. /\ call' \in [Calls -> [pc : PCs, start : Nat]]
          /\ \A d \in Calls : d # c => call'[d] = call[d]
          /\ call'[c] = [pc |-> "dispatching", start |-> call[c].start]
      BY <1>6, <2>2 DEF Dispatch, Goto, TypeOK, PCs
    <3>2. TypeOK'
      BY <1>6, <3>1 DEF Dispatch, TypeOK
    <3>3. Live' = Live
      BY <1>6 DEF Dispatch, Live
    <3>4. In("locked")' = In("locked") /\ In("counted")' = In("counted")
      BY <1>6, <3>1 DEF Dispatch, In
    <3>5. LockSound'
      BY <1>6, <3>3, <3>4, FewerLeases DEF Dispatch, LockSound, In
    <3>6. now < call[c].start + Budget(c)
      BY <2>2 DEF TimedOut, TypeOK
    <3>7. TimeSound'
      BY <1>6, <1>c, <3>1, <3>6 DEF Dispatch, TimeSound, TypeOK
    <3> QED
      BY <3>2, <3>3, <3>5, <3>7, FewerBounded DEF Inv
  <2> QED
    BY <2>1, <2>2
<1>7. ASSUME NEW c \in Calls, Settle(c) PROVE Inv'
  BY <1>7, <1>s DEF Settle, PCs
<1>8. ASSUME NEW c \in Calls, Release(c) PROVE Inv'
  BY <1>8, <1>s DEF Release, PCs
<1>9. ASSUME NEW c \in Calls, Crash(c) PROVE Inv'
  BY <1>9, <1>s DEF Crash, PCs
<1>10. ASSUME Tick PROVE Inv'
  <2>1. /\ UNCHANGED <<call, read, lease, holder>> /\ now' = now + 1 /\ TypeOK'
        /\ \A c \in Calls : call[c].pc = "dispatching" => now < call[c].start + Budget(c) + Drain
    BY <1>10 DEF Tick, Overdue, TypeOK
  <2>2. Live' \subseteq Live
    BY <2>1 DEF Live, TypeOK
  <2>3. In("locked")' = In("locked") /\ In("counted")' = In("counted")
    BY <2>1 DEF In
  <2>4. LockSound'
    BY <2>1, <2>2, <2>3, FewerLeases DEF LockSound, In
  <2>5. TimeSound'
    BY <1>c, <2>1 DEF TimeSound, TypeOK
  <2> QED
    BY <2>1, <2>2, <2>4, <2>5, FewerBounded DEF Inv
<1>11. CASE UNCHANGED vars
  <2>1. Live' = Live /\ In("locked")' = In("locked") /\ In("counted")' = In("counted")
    BY <1>11 DEF vars, Live, In
  <2>2. LockSound'
    BY <1>11, <2>1, FewerLeases DEF vars, LockSound, In
  <2>3. TypeOK' /\ TimeSound'
    BY <1>11, <1>c DEF vars, TypeOK, TimeSound
  <2> QED
    BY <2>1, <2>2, <2>3, FewerBounded DEF Inv
<1> QED
  BY <1>1, <1>2, <1>3, <1>4, <1>5, <1>6, <1>7, <1>8, <1>9, <1>10, <1>11 DEF Next

\* A request that is on its way holds a lease that counts, from its admission to its end, and
\* so the plan's limit, which is checked against leases, bounds the requests themselves.
THEOREM RequestsBounded ==
    ASSUME AiCallAssumption PROVE Spec => [](TypeOK /\ LeaseCoversCall /\ CallsBounded)
<1>1. Init => Inv
  BY InitInv
<1>2. Inv /\ [Next]_vars => Inv'
  BY StepInv
<1>3. Inv => TypeOK /\ LeaseCoversCall /\ CallsBounded
  <2> SUFFICES ASSUME Inv PROVE TypeOK /\ LeaseCoversCall /\ CallsBounded
    OBVIOUS
  <2>1. /\ TypeOK /\ TimeSound /\ LeasesBounded /\ Drain < Grace /\ Drain \in Nat /\ Grace \in Nat
        /\ Limit \in Nat /\ \A c \in Calls : Budget(c) \in Nat
    BY BudgetType DEF Inv, AiCallAssumption
  <2>2. LeaseCoversCall
    BY <2>1 DEF LeaseCoversCall, In, TimeSound, TypeOK
  <2>3. In("dispatching") \subseteq Live
    BY <2>2 DEF LeaseCoversCall, Live, In
  <2>4. /\ Live \ Probes \in SUBSET Calls /\ In("dispatching") \ Probes \in SUBSET (Live \ Probes)
        /\ Live \cap Probes \in SUBSET Calls
        /\ In("dispatching") \cap Probes \in SUBSET (Live \cap Probes)
    BY <2>3 DEF Live
  <2>5. /\ Cardinality(In("dispatching") \ Probes) <= Cardinality(Live \ Probes)
        /\ Cardinality(In("dispatching") \ Probes) \in Nat /\ Cardinality(Live \ Probes) \in Nat
    BY <2>4, Parts
  <2>6. /\ Cardinality(In("dispatching") \cap Probes) <= Cardinality(Live \cap Probes)
        /\ Cardinality(In("dispatching") \cap Probes) \in Nat
        /\ Cardinality(Live \cap Probes) \in Nat
    BY <2>4, Parts
  <2>7. CallsBounded
    BY <2>1, <2>5, <2>6 DEF LeasesBounded, CallsBounded
  <2> QED
    BY <2>1, <2>2, <2>7
<1> QED
  BY <1>1, <1>2, <1>3, PTL DEF Spec
=============================================================================

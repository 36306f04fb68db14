--------------------------- MODULE WorkerPoolProofs ---------------------------
(***************************************************************************)
(* Machine-checked theorems about WorkerPool, for any number of rows, any  *)
(* concurrency and any number of faults: the slots are respected, and a    *)
(* clean stop leaves no row claimed but those whose call broke off.        *)
(***************************************************************************)
EXTENDS WorkerPool, FiniteSetTheorems, TLAPS

(* Nothing runs here twice, what runs is what the id set says, and the     *)
(* slots are not overdrawn.                                                *)
Slots ==
    /\ inFlight \in [Keys -> 0..1]
    /\ inFlightIds = Running
    /\ InFlightSize <= Concurrency

(* An answer holds rows of the kind that was asked for, so that the age    *)
(* tells its rows apart.                                                   *)
Batches ==
    /\ loop = "got events" => batch \subseteq Events
    /\ loop = "got attempts" => batch \subseteq Attempts

(* Rows of one kind have different ages.                                   *)
Ages ==
    /\ \A k \in Events : age[k] \in 1..NumEvents
    /\ \A k \in Attempts : age[k] \in 1..NumAttempts
    /\ \A j, k \in Events : age[j] = age[k] => j = k
    /\ \A j, k \in Attempts : age[j] = age[k] => j = k

(* A claimed row has its call, or its call broke off.                      *)
Custody == \A k \in Keys : row[k] = "taken" => inFlight[k] = 1 \/ k \in broken

(* stop() waits for the loop first.                                        *)
Stopping ==
    /\ shuttingDown <=> stop # "no"
    /\ loop = "exited" => shuttingDown
    /\ stop \in {"drain", "drained", "timeout"} => loop = "exited"
    /\ stop = "drained" => Running = {}

PoolInv == TypeOK /\ Slots /\ Batches /\ Ages /\ Custody /\ Stopping

----------------------------------------------------------------------------
(* Lemmas about the operators.                                             *)

LEMMA KeysAreFinite ==
    /\ IsFiniteSet(Events) /\ IsFiniteSet(Attempts) /\ IsFiniteSet(Keys)
    /\ Keys = Events \cup Attempts /\ Events \cap Attempts = {}
    /\ \A k \in Events : k[2] \in 1..NumEvents
    /\ \A k \in Attempts : k[2] \in 1..NumAttempts
    /\ \A j, k \in Events : j[2] = k[2] => j = k
    /\ \A j, k \in Attempts : j[2] = k[2] => j = k
<1> USE SizesAssumption
<1> DEFINE f == [i \in 1..NumEvents |-> <<"evt", i>>]
           g == [i \in 1..NumAttempts |-> <<"att", i>>]
<1>1. IsFiniteSet(1..NumEvents) /\ IsFiniteSet(1..NumAttempts)
  BY FS_Interval
<1>2. f \in Surjection(1..NumEvents, Events)
  BY DEF Surjection, Events
<1>3. g \in Surjection(1..NumAttempts, Attempts)
  BY DEF Surjection, Attempts
<1>4. IsFiniteSet(Events)
  BY <1>1, <1>2, FS_Surjection
<1>5. IsFiniteSet(Attempts)
  BY <1>1, <1>3, FS_Surjection
<1>6. IsFiniteSet(Keys)
  BY <1>4, <1>5, FS_Union DEF Keys
<1>7. /\ Keys = Events \cup Attempts /\ Events \cap Attempts = {}
      /\ \A k \in Events : k[2] \in 1..NumEvents
      /\ \A k \in Attempts : k[2] \in 1..NumAttempts
      /\ \A j, k \in Events : j[2] = k[2] => j = k
      /\ \A j, k \in Attempts : j[2] = k[2] => j = k
  BY DEF Keys, Events, Attempts
<1>8. QED
  BY <1>4, <1>5, <1>6, <1>7

(* ORDER BY age LIMIT n returns at most n rows: the number of older rows   *)
(* tells the returned ones apart and is below n.                           *)
LEMMA LimitIsKept ==
    ASSUME NEW K, IsFiniteSet(K), NEW n \in Nat,
           \A k \in K : age[k] \in Nat, \A j, k \in K : age[j] = age[k] => j = k
    PROVE  Cardinality(Oldest(K, n)) \in 0..n
<1> DEFINE Older(k) == {j \in K : age[j] < age[k]}
           O == Oldest(K, n)
           rank == [k \in O |-> Cardinality(Older(k))]
<1>1. O \subseteq K /\ \A k \in O : Cardinality(Older(k)) < n
  BY DEF Oldest
<1>2. \A k \in K : IsFiniteSet(Older(k)) /\ Cardinality(Older(k)) \in Nat
  <2>1. ASSUME NEW k \in K PROVE IsFiniteSet(Older(k))
    BY FS_Subset, Older(k) \in SUBSET K
  <2>2. QED
    BY <2>1, FS_CardinalityType
<1>3. ASSUME NEW j \in K, NEW k \in K, age[j] < age[k]
      PROVE  Cardinality(Older(j)) < Cardinality(Older(k))
  <2>1. Older(j) \subseteq Older(k) /\ j \in Older(k) /\ j \notin Older(j)
    <3>1. age[j] \in Nat /\ age[k] \in Nat /\ \A i \in K : age[i] \in Nat
      OBVIOUS
    <3>2. QED
      BY <1>3, <3>1
  <2>2. /\ Cardinality(Older(j)) <= Cardinality(Older(k))
        /\ Cardinality(Older(j)) # Cardinality(Older(k))
    <3> HIDE DEF Older
    <3>1. Older(j) \in SUBSET Older(k) /\ Older(j) # Older(k)
      BY <2>1
    <3>2. QED
      BY <1>2, <3>1, FS_Subset
  <2>3. Cardinality(Older(j)) \in Nat /\ Cardinality(Older(k)) \in Nat
    BY <1>2
  <2>4. QED
    <3> HIDE DEF Older
    <3>1. QED
      BY <2>2, <2>3
<1> HIDE DEF Older
<1>4. rank \in Injection(O, 0..(n - 1))
  <2>1. rank \in [O -> 0..(n - 1)]
    BY <1>1, <1>2
  <2>2. ASSUME NEW j \in O, NEW k \in O, rank[j] = rank[k] PROVE j = k
    <3>1. j \in K /\ k \in K /\ Cardinality(Older(j)) = Cardinality(Older(k))
      BY <1>1, <2>2
    <3>2. ~(age[j] < age[k]) /\ ~(age[k] < age[j])
      BY <1>2, <1>3, <3>1
    <3>3. age[j] \in Nat /\ age[k] \in Nat
      BY <3>1
    <3>4. age[j] = age[k]
      BY <3>2, <3>3
    <3>5. QED
      BY <3>1, <3>4
  <2>3. QED
    BY <2>1, <2>2 DEF Injection, IsInjective
<1>5. IsFiniteSet(0..(n - 1)) /\ Cardinality(0..(n - 1)) = n
  BY FS_Interval
<1>6. IsFiniteSet(O) /\ Cardinality(O) <= n
  BY <1>4, <1>5, FS_Injection
<1>7. Cardinality(O) \in Nat
  BY <1>6, FS_CardinalityType
<1>8. QED
  BY <1>6, <1>7

LEMMA NoSlotIsASlotCount == Concurrency \in Nat /\ 0 \in 0..Concurrency
BY ConcurrencyAssumption

(* What runs is a finite set of keys.                                      *)
LEMMA RunningIsFinite == IsFiniteSet(Running) /\ InFlightSize \in Nat /\ Running \subseteq Keys
<1>1. Running \in SUBSET Keys
  BY DEF Running
<1>2. QED
  BY <1>1, KeysAreFinite, FS_Subset, FS_CardinalityType DEF InFlightSize

LEMMA FreeIsBounded == Slots => Free \in 0..Concurrency
BY RunningIsFinite, ConcurrencyAssumption DEF Free, Slots

(* A pass launches rows that do not run here yet, and no more than fit.    *)
LEMMA LaunchFits ==
    ASSUME PoolInv, batch \subseteq Events \/ batch \subseteq Attempts
    PROVE  /\ Launchable(Free) \subseteq batch
           /\ Launchable(Free) \cap Running = {}
           /\ IsFiniteSet(Launchable(Free))
           /\ Cardinality(Launchable(Free)) \in 0..Free
<1> DEFINE K == batch \ inFlightIds
<1>1. K \in SUBSET Keys
  BY DEF PoolInv, TypeOK
<1>2. IsFiniteSet(K) /\ \A k \in K : age[k] \in Nat
  <2>1. IsFiniteSet(K)
    BY <1>1, KeysAreFinite, FS_Subset
  <2>2. QED
    BY <1>1, <2>1 DEF PoolInv, TypeOK
<1>3. \A j, k \in K : age[j] = age[k] => j = k
  BY DEF PoolInv, Ages
<1>4. Free \in Nat
  BY FreeIsBounded DEF PoolInv
<1>5. Cardinality(Oldest(K, Free)) \in 0..Free
  BY <1>2, <1>3, <1>4, LimitIsKept
<1>6. Launchable(Free) = Oldest(K, Free) /\ Oldest(K, Free) \in SUBSET K
  BY DEF Launchable, Oldest
<1>7. Launchable(Free) \cap Running = {}
  BY <1>6 DEF PoolInv, Slots
<1>8. IsFiniteSet(Launchable(Free))
  <2>1. Launchable(Free) \in SUBSET K
    BY <1>6
  <2> HIDE DEF K
  <2>2. QED
    BY <1>2, <2>1, FS_Subset
<1>9. QED
  BY <1>5, <1>6, <1>7, <1>8

(* Launching fills free slots, one call per row.                           *)
LEMMA LaunchRespectsSlots ==
    ASSUME PoolInv, NEW K, K \subseteq Keys, K \cap Running = {}, IsFiniteSet(K),
           Cardinality(K) \in 0..Free, Launch(K)
    PROVE  Slots' /\ InFlightSize' = InFlightSize + Cardinality(K)
<1>1. inFlight \in [Keys -> 0..1] /\ inFlightIds = Running
  BY DEF PoolInv, Slots
<1>2. \A k \in K : inFlight[k] = 0
  BY <1>1 DEF Running
<1>3. inFlight' \in [Keys -> 0..1]
  BY <1>1, <1>2 DEF Launch
<1>4. Running' = Running \cup K
  BY <1>1, <1>2 DEF Launch, Running
<1>5. Cardinality(Running \cup K) = Cardinality(Running) + Cardinality(K)
  <2>1. Cardinality(Running \cap K) = 0
    BY FS_EmptySet, K \cap Running = Running \cap K
  <2>2. Cardinality(Running) \in Nat /\ Cardinality(K) \in Nat
    BY RunningIsFinite, FS_CardinalityType
  <2>3. Cardinality(Running \cup K)
          = Cardinality(Running) + Cardinality(K) - Cardinality(Running \cap K)
    BY RunningIsFinite, FS_Union
  <2>4. QED
    BY <2>1, <2>2, <2>3
<1>6. InFlightSize' = InFlightSize + Cardinality(K)
  BY <1>4, <1>5 DEF InFlightSize
<1>7. InFlightSize' <= Concurrency
  BY <1>6, RunningIsFinite, ConcurrencyAssumption DEF PoolInv, Slots, Free
<1>8. inFlightIds' = Running'
  BY <1>1, <1>4 DEF Launch
<1>9. QED
  BY <1>3, <1>6, <1>7, <1>8 DEF Slots

(* A call that ends gives its slot back.                                   *)
LEMMA EndRespectsSlots ==
    ASSUME PoolInv, NEW k \in Keys, inFlight[k] > 0, End(k)
    PROVE  /\ Slots' /\ Running' = Running \ {k}
           /\ inFlight[k] = 1 /\ inFlight' = [inFlight EXCEPT ![k] = 0]
<1>1. inFlight \in [Keys -> 0..1] /\ inFlightIds = Running
  BY DEF PoolInv, Slots
<1>2. inFlight[k] = 1
  BY <1>1
<1>3. inFlight' = [inFlight EXCEPT ![k] = 0]
  BY <1>1, <1>2 DEF End
<1>4. Running' = Running \ {k}
  BY <1>1, <1>3 DEF Running
<1>5. Running' \in SUBSET Running
  BY <1>4
<1>6. IsFiniteSet(Running') /\ Cardinality(Running') <= Cardinality(Running)
  BY <1>5, RunningIsFinite, FS_Subset
<1>7. Cardinality(Running') \in Nat
  BY <1>6, FS_CardinalityType
<1>8. InFlightSize' <= Concurrency
  BY <1>6, <1>7, RunningIsFinite, ConcurrencyAssumption DEF PoolInv, Slots, InFlightSize
<1>9. inFlight' \in [Keys -> 0..1] /\ inFlightIds' = Running'
  BY <1>1, <1>3, <1>4 DEF End
<1>10. QED
  BY <1>2, <1>3, <1>4, <1>8, <1>9 DEF Slots

----------------------------------------------------------------------------
(* The inductive invariant.                                                *)

LEMMA InitPool == Init => PoolInv
<1> SUFFICES ASSUME Init PROVE PoolInv
  OBVIOUS
<1>1. Running = {}
  BY DEF Init, Running
<1>2. InFlightSize = 0
  BY <1>1, FS_EmptySet DEF InFlightSize
<1>3. TypeOK
  <2>1. age \in [Keys -> Nat]
    BY KeysAreFinite DEF Init
  <2>2. QED
    BY <2>1, NoSlotIsASlotCount DEF Init, TypeOK, Loops, Stops
<1>4. Slots
  BY <1>1, <1>2, ConcurrencyAssumption DEF Init, Slots
<1>5. Batches /\ Custody /\ Stopping
  BY <1>1 DEF Init, Batches, Custody, Stopping
<1>6. Ages
  BY KeysAreFinite DEF Init, Ages
<1>7. QED
  BY <1>3, <1>4, <1>5, <1>6 DEF PoolInv

(* The steps outside the loop's launches and the calls' ends leave the     *)
(* slots alone.                                                            *)
LEMMA SameSlots == ASSUME Slots, UNCHANGED pool PROVE Slots' /\ Running' = Running
<1>1. inFlight' = inFlight /\ inFlightIds' = inFlightIds
  BY DEF pool
<1>2. Running' = Running
  BY <1>1 DEF Running
<1>3. InFlightSize' = InFlightSize
  BY <1>2 DEF InFlightSize
<1>4. QED
  BY <1>1, <1>2, <1>3 DEF Slots

(* A new row is younger than those of its kind, which keep their order.    *)
LEMMA YoungestKeepsAges ==
    ASSUME PoolInv, NEW k \in Keys, age' = Youngest(k)
    PROVE  age' \in [Keys -> Nat] /\ Ages'
<1>1. /\ age \in [Keys -> Nat] /\ Ages
      /\ Keys = Events \cup Attempts /\ Events \cap Attempts = {}
      /\ NumEvents \in Nat /\ NumAttempts \in Nat
  BY KeysAreFinite, SizesAssumption DEF PoolInv, TypeOK
<1>2. CASE k \in Events
  <2>1. age' = [j \in Keys |-> IF j = k THEN NumEvents
                               ELSE IF j \in Events /\ age[j] > age[k] THEN age[j] - 1
                               ELSE age[j]]
    BY <1>2 DEF Youngest
  <2>2. /\ \A j \in Events \ {k} :
              /\ age[j] # age[k]
              /\ age'[j] = IF age[j] > age[k] THEN age[j] - 1 ELSE age[j]
        /\ age'[k] = NumEvents
        /\ \A j \in Attempts : age'[j] = age[j]
    BY <1>1, <1>2, <2>1 DEF Ages
  <2>3. \A j \in Events \ {k} : age'[j] \in 1..(NumEvents - 1)
    BY <1>1, <1>2, <2>2 DEF Ages
  <2>4. \A i, j \in Events : age'[i] = age'[j] => i = j
    BY <1>1, <1>2, <2>2, <2>3 DEF Ages
  <2>5. Ages'
    BY <1>1, <1>2, <2>2, <2>3, <2>4 DEF Ages
  <2>6. QED
    BY <1>1, <2>1, <2>5 DEF Ages
<1>3. CASE k \in Attempts
  <2>1. age' = [j \in Keys |-> IF j = k THEN NumAttempts
                               ELSE IF j \in Attempts /\ age[j] > age[k] THEN age[j] - 1
                               ELSE age[j]]
    BY <1>1, <1>3 DEF Youngest
  <2>2. /\ \A j \in Attempts \ {k} :
              /\ age[j] # age[k]
              /\ age'[j] = IF age[j] > age[k] THEN age[j] - 1 ELSE age[j]
        /\ age'[k] = NumAttempts
        /\ \A j \in Events : age'[j] = age[j]
    BY <1>1, <1>3, <2>1 DEF Ages
  <2>3. \A j \in Attempts \ {k} : age'[j] \in 1..(NumAttempts - 1)
    BY <1>1, <1>3, <2>2 DEF Ages
  <2>4. \A i, j \in Attempts : age'[i] = age'[j] => i = j
    BY <1>1, <1>3, <2>2, <2>3 DEF Ages
  <2>5. Ages'
    BY <1>1, <1>3, <2>2, <2>3, <2>4 DEF Ages
  <2>6. QED
    BY <1>1, <2>1, <2>5 DEF Ages
<1>4. QED
  BY <1>1, <1>2, <1>3

(* Rows that arrive, or that other workers take.                           *)
LEMMA RestPreserves ==
    ASSUME PoolInv, NEW k \in Keys, Arrive(k) \/ TakenElsewhere(k)
    PROVE  PoolInv'
<1> USE DEF PoolInv
<1>1. UNCHANGED <<pool, poll, shuttingDown, stop, faults>>
  BY DEF Arrive, TakenElsewhere
<1>2. Slots' /\ Running' = Running
  BY <1>1, SameSlots
<1>3. Custody'
  BY <1>1 DEF TypeOK, Custody, Arrive, TakenElsewhere, pool
<1>4. age' \in [Keys -> Nat] /\ Ages'
  <2>1. CASE Arrive(k)
    BY <2>1, YoungestKeepsAges DEF Arrive
  <2>2. CASE TakenElsewhere(k)
    BY <2>2 DEF TakenElsewhere, TypeOK, Ages
  <2>3. QED
    BY <2>1, <2>2
<1>5. TypeOK'
  BY <1>1, <1>4 DEF TypeOK, Arrive, TakenElsewhere, pool, poll
<1>6. Batches' /\ Stopping'
  BY <1>1, <1>2 DEF Batches, Stopping, poll
<1>7. QED
  BY <1>2, <1>3, <1>4, <1>5, <1>6

(* The loop's steps that launch nothing.                                   *)
LEMMA LoopPreserves ==
    ASSUME PoolInv,
           \/ Start \/ FillSlots \/ LeaveLoop \/ Wake \/ PollFails
           \/ ListClaimable \/ ListDueAttempts
    PROVE  PoolInv'
<1> USE DEF PoolInv
<1>1. UNCHANGED <<rows, pool, shuttingDown, stop>>
  BY DEF Start, FillSlots, LeaveLoop, Wake, PollFails, ListClaimable, ListDueAttempts, Answer
<1>2. Slots' /\ Running' = Running
  BY <1>1, SameSlots
<1>3. Custody' /\ Ages'
  BY <1>1 DEF Custody, Ages, rows, pool
<1>4. Free \in 0..Concurrency
  BY FreeIsBounded
<1>5. TypeOK'
  <2>1. /\ loop' \in Loops /\ slots' \in 0..Concurrency /\ batch' \subseteq Keys
        /\ faults' \in Nat
    <3>1. CASE Start \/ LeaveLoop \/ Wake
      BY <3>1 DEF TypeOK, Loops, Start, LeaveLoop, Wake
    <3>2. CASE FillSlots
      BY <1>4, <3>2, NoSlotIsASlotCount DEF TypeOK, Loops, FillSlots, AskFor
    <3>3. CASE PollFails
      <4>1. loop' = "sleep" /\ slots' = 0 /\ batch' = batch /\ faults' = faults + 1
        BY <3>3 DEF PollFails, Fault
      <4>2. QED
        <5>1. faults' \in Nat
          BY <4>1 DEF TypeOK
        <5>2. slots' \in 0..Concurrency
          BY <4>1, NoSlotIsASlotCount
        <5>3. loop' \in Loops /\ batch' \subseteq Keys
          BY <4>1 DEF TypeOK, Loops
        <5>4. QED
          BY <5>1, <5>2, <5>3
    <3>4. CASE ListClaimable \/ ListDueAttempts
      BY <3>4 DEF TypeOK, Loops, ListClaimable, ListDueAttempts, Answer, Oldest, Ready, Keys
    <3>5. QED
      BY <3>1, <3>2, <3>3, <3>4
  <2>2. QED
    BY <1>1, <2>1 DEF TypeOK, rows, pool
<1>6. Batches'
  BY DEF Batches, Start, FillSlots, AskFor, LeaveLoop, Wake, PollFails, ListClaimable,
         ListDueAttempts, Answer, Oldest, Ready
<1>7. Stopping'
  <2>1. loop # "exited" /\ (loop' = "exited" => shuttingDown)
    BY DEF Start, FillSlots, AskFor, LeaveLoop, Wake, PollFails, ListClaimable,
           ListDueAttempts, Answer
  <2>2. QED
    BY <1>1, <1>2, <2>1 DEF Stopping
<1>8. QED
  BY <1>2, <1>3, <1>5, <1>6, <1>7

(* The launches.                                                           *)
LEMMA LaunchPreserves == ASSUME PoolInv, LaunchEvents \/ LaunchAttempts PROVE PoolInv'
<1> DEFINE K == Launchable(Free)
<1>1. /\ loop \in {"got events", "got attempts"} /\ Launch(K)
      /\ batch \subseteq Events \/ batch \subseteq Attempts
      /\ UNCHANGED <<rows, shuttingDown, stop, faults>>
  BY DEF PoolInv, Batches, LaunchEvents, LaunchAttempts
<1>2. K \subseteq batch /\ K \cap Running = {} /\ IsFiniteSet(K) /\ Cardinality(K) \in 0..Free
  BY <1>1, LaunchFits
<1>3. K \subseteq Keys
  BY <1>2 DEF PoolInv, TypeOK
<1>4. Free \in 0..Concurrency
  BY FreeIsBounded DEF PoolInv
<1> HIDE DEF K
<1>5. Slots'
  BY <1>1, <1>2, <1>3, LaunchRespectsSlots
<1>6. loop' \in {"ask attempts", "sleep"} /\ batch' = {} /\ slots' \in 0..Concurrency
  <2>1. CASE LaunchEvents
    <3>1. Free - Cardinality(K) \in 0..Concurrency
      BY <1>2, <1>4, NoSlotIsASlotCount
    <3>2. QED
      BY <2>1, <3>1 DEF LaunchEvents, K
  <2>2. CASE LaunchAttempts
    BY <2>2, NoSlotIsASlotCount DEF LaunchAttempts
  <2>3. QED
    BY <2>1, <2>2
<1>7. TypeOK'
  <2>1. inFlight' \in [Keys -> Nat] /\ inFlightIds' \subseteq Keys
    BY <1>5 DEF Slots, Running
  <2>2. hung' = hung
    BY <1>1 DEF Launch
  <2>3. QED
    BY <1>1, <1>6, <2>1, <2>2 DEF PoolInv, TypeOK, Loops, rows
<1>8. Custody'
  <2> SUFFICES ASSUME NEW k \in Keys, row[k] = "taken", k \notin broken
               PROVE  inFlight'[k] = 1
    BY <1>1 DEF Custody, rows
  <2>1. inFlight[k] = 1
    BY DEF PoolInv, Custody
  <2>2. k \notin K
    BY <1>2, <2>1 DEF Running
  <2>3. inFlight'[k] = inFlight[k] + 0
    BY <1>1, <2>2 DEF Launch
  <2>4. QED
    BY <2>1, <2>3
<1>9. Batches' /\ Ages' /\ Stopping'
  BY <1>1, <1>6 DEF PoolInv, Batches, Ages, Stopping, rows
<1>10. QED
  BY <1>5, <1>7, <1>8, <1>9 DEF PoolInv

(* The calls: each step but a claim and a hang ends one.                   *)
LEMMA CallPreserves ==
    ASSUME PoolInv, NEW k \in Keys, Call(k) \/ CallFails(k) \/ CallBreaks(k) \/ Hang(k)
    PROVE  PoolInv'
<1> USE DEF PoolInv
<1>1. CASE Hang(k)
  <2>1. UNCHANGED <<rows, inFlight, inFlightIds, poll, shuttingDown, stop>>
    BY <1>1 DEF Hang
  <2>2. Running' = Running
    BY <2>1 DEF Running
  <2>3. Slots'
    BY <2>1, <2>2 DEF Slots, InFlightSize
  <2>4. TypeOK'
    BY <1>1 DEF TypeOK, Hang, Fault, rows, poll
  <2>5. Batches' /\ Ages' /\ Custody' /\ Stopping'
    BY <2>1, <2>2 DEF Batches, Ages, Custody, Stopping, rows, poll
  <2>6. QED
    BY <2>3, <2>4, <2>5
<1>2. CASE ClaimEvent(k)
  <2>1. UNCHANGED <<age, broken, pool, poll, shuttingDown, stop, faults>>
    BY <1>2 DEF ClaimEvent
  <2>2. Slots' /\ Running' = Running
    BY <2>1, SameSlots
  <2>3. TypeOK'
    BY <1>2 DEF TypeOK, ClaimEvent, pool, poll
  <2>4. inFlight[k] = 1 /\ inFlight' = inFlight
    BY <1>2, <2>1 DEF Slots, ClaimEvent, CanGoOn, pool
  <2>5. Custody'
    BY <1>2, <2>4 DEF Custody, ClaimEvent, TypeOK
  <2>6. Batches' /\ Ages' /\ Stopping'
    BY <2>1, <2>2 DEF Batches, Ages, Stopping, poll
  <2>7. QED
    BY <2>2, <2>3, <2>5, <2>6
<1>3. CASE SkipEvent(k) \/ EventEnds(k) \/ CallFails(k) \/ CallBreaks(k) \/ AttemptEnds(k)
  <2>1. /\ inFlight[k] > 0 /\ End(k)
        /\ UNCHANGED <<age, poll, shuttingDown, stop>>
        /\ row' \in [Keys -> {"gone", "ready", "taken"}]
        /\ \A j \in Keys \ {k} : row'[j] = row[j]
        /\ broken \subseteq broken' /\ broken' \subseteq Keys
        /\ faults' \in Nat
    BY <1>3 DEF TypeOK, SkipEvent, EventEnds, CallFails, CallBreaks, AttemptEnds, Holds,
                CanGoOn, Fault, rows
  <2>2. row'[k] = "taken" => k \in broken'
    BY <1>3 DEF TypeOK, SkipEvent, EventEnds, CallFails, CallBreaks, AttemptEnds, Holds,
                CanGoOn, rows
  <2>3. /\ Slots' /\ Running' = Running \ {k}
        /\ inFlight[k] = 1 /\ inFlight' = [inFlight EXCEPT ![k] = 0]
    BY <2>1, EndRespectsSlots
  <2>4. TypeOK'
    <3>1. inFlight' \in [Keys -> Nat] /\ inFlightIds' \subseteq Keys
      BY <2>3 DEF Slots, Running
    <3>2. hung' = hung
      BY <2>1 DEF End
    <3>3. QED
      BY <2>1, <3>1, <3>2 DEF TypeOK, poll
  <2>5. Custody'
    BY <2>1, <2>2, <2>3 DEF Custody, Slots
  <2>6. Batches' /\ Ages' /\ Stopping'
    BY <2>1, <2>3 DEF Batches, Ages, Stopping, poll
  <2>7. QED
    BY <2>3, <2>4, <2>5, <2>6
<1>4. QED
  BY <1>1, <1>2, <1>3 DEF Call

(* stop().                                                                 *)
LEMMA StopPreserves ==
    ASSUME PoolInv, Stop \/ AwaitLoop \/ Drained \/ TimeOut
    PROVE  PoolInv'
<1> USE DEF PoolInv
<1>1. UNCHANGED <<rows, pool, slots, batch, faults>>
  BY DEF Stop, AwaitLoop, Drained, TimeOut, poll
<1>2. Slots' /\ Running' = Running
  BY <1>1, SameSlots
<1>3. TypeOK'
  BY <1>1 DEF TypeOK, Loops, Stops, Stop, AwaitLoop, Drained, TimeOut, rows, pool, poll
<1>4. Batches' /\ Ages' /\ Custody'
  BY <1>1 DEF Batches, Ages, Custody, Stop, AwaitLoop, Drained, TimeOut, rows, pool, poll
<1>5. Stopping'
  BY <1>1, <1>2 DEF Stopping, Stop, AwaitLoop, LoopIsDone, Drained, TimeOut, poll
<1>6. QED
  BY <1>2, <1>3, <1>4, <1>5

LEMMA StepPreserves == PoolInv /\ [Next]_vars => PoolInv'
<1> SUFFICES ASSUME PoolInv, [Next]_vars PROVE PoolInv'
  OBVIOUS
<1>1. CASE Alive /\ (Loop \/ PollFails)
  BY <1>1, LoopPreserves, LaunchPreserves DEF Loop
<1>2. ASSUME NEW k \in Keys,
             \/ Arrive(k) \/ TakenElsewhere(k) \/ Call(k)
             \/ CallFails(k) \/ CallBreaks(k) \/ Hang(k)
      PROVE  PoolInv'
  BY <1>2, RestPreserves, CallPreserves
<1>3. CASE Stop \/ AwaitLoop \/ Drained \/ TimeOut
  BY <1>3, StopPreserves
<1>4. CASE UNCHANGED vars
  <2>1. UNCHANGED <<rows, pool, poll, shuttingDown, stop, faults>>
    BY <1>4 DEF vars
  <2>2. Slots' /\ Running' = Running
    BY <2>1, SameSlots DEF PoolInv
  <2>3. TypeOK' /\ Batches' /\ Ages' /\ Custody' /\ Stopping'
    BY <2>1, <2>2 DEF PoolInv, TypeOK, Batches, Ages, Custody, Stopping, rows, pool, poll
  <2>4. QED
    BY <2>2, <2>3 DEF PoolInv
<1>5. QED
  BY <1>1, <1>2, <1>3, <1>4 DEF Next

(* However polls, calls and stop() interleave: what runs here is what the  *)
(* id set says, every claimed row has its call unless that call broke off  *)
(* after its claim, and stop() counts on the loop's end.                   *)
THEOREM PoolInvariant == Spec => []PoolInv
<1>1. QED
  BY InitPool, StepPreserves, PTL DEF Spec

----------------------------------------------------------------------------
(* What the runs check.                                                    *)

(* The worker's variables keep their types: the free slots never go below  *)
(* zero or above the configured concurrency.                               *)
THEOREM TypeCorrect == Spec => []TypeOK
<1>1. PoolInv => TypeOK
  BY DEF PoolInv
<1>2. QED
  BY <1>1, PoolInvariant, PTL

(* However polls, launches and ends interleave: at most Concurrency calls  *)
(* run, and never two for one row.                                         *)
THEOREM ConcurrencyHolds == Spec => []SlotsRespected
<1>1. PoolInv => SlotsRespected
  BY DEF PoolInv, Slots, SlotsRespected
<1>2. QED
  BY <1>1, PoolInvariant, PTL

(* When a drain is reported clean nothing runs, the loop has ended and the *)
(* only rows left claimed are those whose call broke off after its claim.  *)
THEOREM DrainIsClean == Spec => []CleanStop
<1>1. PoolInv => CleanStop
  BY DEF PoolInv, Custody, Stopping, CleanStop, Running
<1>2. QED
  BY <1>1, PoolInvariant, PTL

=============================================================================

-------------------------- MODULE CacheAsideProofs --------------------------
(***************************************************************************)
(* Theorems about CacheAside, for any number of callers, versions and      *)
(* disruptions.                                                            *)
(*                                                                         *)
(* A filler that is not overdue holds the lock, so there is at most one;   *)
(* what it read is at least as new as what was cached last, because what   *)
(* was cached last came from an earlier filler and the row only advances.  *)
(***************************************************************************)
EXTENDS CacheAside, TLAPS

\* What TypeOK says of the numbers, without intervals.
LEMMA VersionFacts ==
    /\ \A v : v \in Versions <=> v \in Nat /\ v <= MaxVersion
    /\ MaxFaults \in Nat
    /\ MaxVersion \in Nat
    /\ 0 \in Versions
    /\ NoEntry \notin Versions
BY CacheAssumption DEF CacheAssumption, Versions, NoEntry

\* A disruption is counted and remembered.
LEMMA FaultFacts ==
    ASSUME faults \in Seq(FaultKinds), Len(faults) <= MaxFaults, NEW kind, Fault(kind)
    PROVE  /\ faults' \in Seq(FaultKinds)
           /\ Len(faults') <= MaxFaults
           /\ Occurred' = Occurred \cup {kind}
<1>1. MaxFaults \in Nat
    BY VersionFacts
<1>2. /\ kind \in FaultKinds
      /\ Len(faults) < MaxFaults
      /\ faults' = Append(faults, kind)
    BY DEF Fault
<1>3. /\ faults' \in Seq(FaultKinds)
      /\ Len(faults') = Len(faults) + 1
      /\ Len(faults) \in Nat
    BY <1>2
<1>4. /\ DOMAIN faults = 1..Len(faults)
      /\ DOMAIN faults' = 1..(Len(faults) + 1)
      /\ \A i \in DOMAIN faults : faults'[i] = faults[i]
      /\ faults'[Len(faults) + 1] = kind
    BY <1>2
<1>5. Occurred' = Occurred \cup {kind}
    <2>1. \A x \in Occurred : x \in Occurred'
        BY <1>3, <1>4 DEF Occurred
    <2>2. kind \in Occurred'
        BY <1>3, <1>4 DEF Occurred
    <2>3. \A x \in Occurred' : x \in Occurred \/ x = kind
        <3> SUFFICES ASSUME NEW i \in DOMAIN faults' PROVE faults'[i] \in Occurred \/ faults'[i] = kind
            BY DEF Occurred
        <3>1. i = Len(faults) + 1 \/ i \in DOMAIN faults
            BY <1>3, <1>4
        <3> QED
            BY <1>4, <3>1 DEF Occurred
    <2> QED
        BY <2>1, <2>2, <2>3
<1> QED
    BY <1>1, <1>2, <1>3, <1>5

-----------------------------------------------------------------------------
\* A filler about to write has read a version of the row.
FillerHasRead == \A c \in Callers : pc[c] = "populate" => value[c] \in Versions /\ value[c] <= row

\* The types, which need FillerHasRead to be inductive.
Typed == TypeOK /\ FillerHasRead

\* The initial state is typed.
LEMMA InitTyped == Init => Typed
BY CacheAssumption
DEF Init, Typed, TypeOK, FillerHasRead, Versions, NoEntry, Pending, CacheAssumption

\* Every action keeps the types.
LEMMA NextTypeOK == Typed /\ [Next]_vars => TypeOK'
<1> SUFFICES ASSUME Typed, [Next]_vars
             PROVE  TypeOK'
    OBVIOUS
<1> USE VersionFacts, FaultFacts DEF Typed, TypeOK
<1>1. CASE UpdateRow
    BY <1>1 DEF UpdateRow
<1>2. CASE ExpireEntry
    BY <1>2 DEF ExpireEntry
<1>3. CASE ExpireLock
    BY <1>3 DEF ExpireLock
<1>4. ASSUME NEW c \in Callers, Call(c)
      PROVE  TypeOK'
    BY <1>4 DEF Call, Goto
<1>5. ASSUME NEW c \in Callers, Crash(c)
      PROVE  TypeOK'
    BY <1>5 DEF Crash, Return, Goto
<1>6. ASSUME NEW c \in Callers, Step(c)
      PROVE  TypeOK'
    <2>1. CASE Get(c)
        BY <2>1 DEF Get, Return, Goto
    <2>2. CASE Lock(c)
        BY <2>2 DEF Lock, Goto
    <2>3. CASE GiveUp(c)
        BY <2>3 DEF GiveUp, Goto
    <2>4. CASE Filled(c)
        BY <2>4 DEF Filled, Return, Goto
    <2>5. CASE RedisFails(c)
        BY <2>5 DEF RedisFails, Goto
    <2>6. CASE Direct(c)
        BY <2>6 DEF Direct, Return, Goto
    <2>7. CASE Select(c)
        BY <2>7 DEF Select, Goto
    <2>8. CASE SelectFails(c)
        BY <2>8 DEF SelectFails, Goto
    <2>9. CASE Populate(c)
        <3>1. value[c] \in Versions
            BY <2>9 DEF Populate, FillerHasRead
        <3> QED
            BY <2>9, <3>1 DEF Populate, Goto
    <2>10. CASE Release(c)
        BY <2>10 DEF Release, Outcome, Return, Goto
    <2> QED
        BY <1>6, <2>1, <2>2, <2>3, <2>4, <2>5, <2>6, <2>7, <2>8, <2>9, <2>10 DEF Step
<1>7. CASE UNCHANGED vars
    BY <1>7 DEF vars
<1> QED
    BY <1>1, <1>2, <1>3, <1>4, <1>5, <1>6, <1>7 DEF Next

\* Who is about to write has just read the row, or was about to write before.
LEMMA ReadsOrKeeps ==
    ASSUME Typed, [Next]_vars, NEW d \in Callers, pc'[d] = "populate"
    PROVE  \/ pc[d] = "populate" /\ value'[d] = value[d]
           \/ value'[d] = row /\ row' = row
<1> USE DEF Typed, TypeOK
<1>1. CASE UpdateRow \/ ExpireEntry \/ ExpireLock \/ UNCHANGED vars
    BY <1>1 DEF UpdateRow, ExpireEntry, ExpireLock, vars
<1>2. ASSUME NEW c \in Callers, Call(c) \/ Crash(c)
      PROVE  pc[d] = "populate" /\ value'[d] = value[d]
    BY <1>2 DEF Call, Crash, Goto, Return
<1>3. ASSUME NEW c \in Callers, Select(c)
      PROVE  \/ pc[d] = "populate" /\ value'[d] = value[d]
             \/ value'[d] = row /\ row' = row
    <2>1. CASE c = d
        BY <1>3, <2>1 DEF Select
    <2>2. CASE c # d
        BY <1>3, <2>2 DEF Select, Goto
    <2> QED
        BY <2>1, <2>2
<1>4. ASSUME NEW c \in Callers, Step(c), ~Select(c)
      PROVE  pc[d] = "populate" /\ value'[d] = value[d]
    BY <1>4 DEF Step, Get, Lock, GiveUp, Filled, RedisFails, Direct, SelectFails,
       Populate, Release, Goto, Return
<1> QED
    BY <1>1, <1>2, <1>3, <1>4 DEF Next

\* Who is about to write has read, and the row only advances.
LEMMA NextFillerHasRead == Typed /\ [Next]_vars => FillerHasRead'
<1> SUFFICES ASSUME Typed, [Next]_vars,
                    NEW d \in Callers, pc'[d] = "populate"
             PROVE  value'[d] \in Versions /\ value'[d] <= row'
    BY DEF FillerHasRead
<1>1. row \in Nat /\ row <= row'
    BY VersionFacts DEF Typed, TypeOK, Next, vars, UpdateRow, ExpireEntry, ExpireLock, Call,
       Crash, Step, Get, Lock, GiveUp, Filled, RedisFails, Direct, Select, SelectFails,
       Populate, Release
<1>2. CASE pc[d] = "populate" /\ value'[d] = value[d]
    <2>1. value[d] \in Versions /\ value[d] <= row
        BY <1>2 DEF Typed, FillerHasRead
    <2>2. value[d] \in Nat /\ row' \in Nat
        BY <2>1, VersionFacts, NextTypeOK DEF TypeOK
    <2> QED
        BY <1>1, <1>2, <2>1, <2>2
<1>3. CASE value'[d] = row /\ row' = row
    BY <1>1, <1>3 DEF Typed, TypeOK
<1> QED
    BY <1>2, <1>3, ReadsOrKeeps

\* The types are inductive.
LEMMA NextTyped == Typed /\ [Next]_vars => Typed'
BY NextTypeOK, NextFillerHasRead DEF Typed

\* The variables keep their types.
THEOREM TypeCorrect == Spec => []TypeOK
<1>1. Typed => TypeOK
    BY DEF Typed
<1> QED
    BY <1>1, InitTyped, NextTyped, PTL DEF Spec

-----------------------------------------------------------------------------
\* At most one filler that is not overdue, and it is the holder of the lock:
\* every action keeps this.
LEMMA NextFillerHoldsLock == Typed /\ FillerHoldsLock /\ [Next]_vars => FillerHoldsLock'
<1> SUFFICES ASSUME Typed, FillerHoldsLock, [Next]_vars,
                    NEW d \in Callers, Filling(d)', d \notin overdue'
             PROVE  lock' = d
    BY DEF FillerHoldsLock
<1> USE CacheAssumption DEF Typed, TypeOK, FillerHoldsLock, Filling, CacheAssumption
<1>1. CASE UpdateRow \/ ExpireEntry \/ UNCHANGED vars
    BY <1>1 DEF UpdateRow, ExpireEntry, vars
<1>2. CASE ExpireLock
    BY <1>2 DEF ExpireLock
<1>3. ASSUME NEW c \in Callers, Call(c) \/ Crash(c)
      PROVE  lock' = d
    BY <1>3 DEF Call, Crash, Goto, Return
<1>4. ASSUME NEW c \in Callers, Step(c)
      PROVE  lock' = d
    <2>1. CASE Lock(c)
        BY <2>1 DEF Lock, Goto
    <2>2. CASE RedisFails(c)
        BY <2>2 DEF RedisFails, Goto
    <2>3. CASE Release(c)
        BY <2>3 DEF Release, Return, Goto
    <2>4. CASE Get(c) \/ GiveUp(c) \/ Filled(c) \/ Direct(c)
        BY <2>4 DEF Get, GiveUp, Filled, Direct, Return, Goto
    <2>5. CASE Select(c) \/ SelectFails(c) \/ Populate(c)
        BY <2>5 DEF Select, SelectFails, Populate, Goto
    <2> QED
        BY <1>4, <2>1, <2>2, <2>3, <2>4, <2>5 DEF Step
<1> QED
    BY <1>1, <1>2, <1>3, <1>4 DEF Next

\* Stampede protection, for any number of callers and any disruptions:
\* whoever fills the cache holds the lock, unless its own lock ran out.
THEOREM FillersHoldTheLock == Spec => []FillerHoldsLock
<1>1. Init => FillerHoldsLock
    BY DEF Init, FillerHoldsLock, Filling
<1> QED
    BY <1>1, InitTyped, NextTyped, NextFillerHoldsLock, PTL DEF Spec

-----------------------------------------------------------------------------
\* While no lock has run out, what was cached last is no newer than the row
\* or than what a filler is about to write.
Fresh ==
    /\ latest <= row
    /\ overdue = {} => \A c \in Callers : pc[c] = "populate" => latest <= value[c]

\* The inductive invariant.
Inv == Typed /\ FillerHoldsLock /\ Fresh

\* A populate writes no older version than the one that was cached last.
LEMMA PopulateAdvances ==
    ASSUME Inv, overdue = {}, NEW c \in Callers, Populate(c)
    PROVE  latest' \in Nat /\ latest <= latest' /\ latest' <= row
<1>1. value[c] \in Versions /\ value[c] <= row /\ latest <= value[c]
    BY DEF Inv, Typed, FillerHasRead, Fresh, Populate
<1>2. latest \in Versions /\ latest <= row
    BY DEF Inv, Typed, TypeOK, Fresh
<1>3. latest' \in {latest, value[c]}
    BY DEF Populate
<1> QED
    BY <1>1, <1>2, <1>3, VersionFacts

\* Only Populate caches a version.
LEMMA OthersKeepLatest ==
    ASSUME [Next]_vars, \A c \in Callers : ~Populate(c)
    PROVE  latest' = latest
BY DEF Next, vars, UpdateRow, ExpireEntry, ExpireLock, Call, Crash, Step, Get, Lock,
   GiveUp, Filled, RedisFails, Direct, Select, SelectFails, Release

\* Every action keeps Fresh.
LEMMA NextFresh == Inv /\ [Next]_vars => Fresh'
<1> SUFFICES ASSUME Inv, [Next]_vars
             PROVE  Fresh'
    OBVIOUS
<1>1. /\ Typed /\ Typed'
      /\ FillerHoldsLock
    BY NextTyped DEF Inv
<1>2. /\ row \in Nat /\ row' \in Nat /\ latest \in Nat
      /\ latest <= row
      /\ row <= row'
    BY <1>1, VersionFacts DEF Inv, Fresh, Typed, TypeOK, Next, vars, UpdateRow, ExpireEntry,
       ExpireLock, Call, Crash, Step, Get, Lock, GiveUp, Filled, RedisFails, Direct,
       Select, SelectFails, Populate, Release
<1>3. ASSUME NEW c \in Callers, Populate(c)
      PROVE  Fresh'
    <2>1. latest' <= row'
        <3>1. value[c] \in Nat /\ value[c] <= row
            BY <1>1, <1>3, VersionFacts DEF Typed, FillerHasRead, Populate
        <3>2. latest' = latest \/ latest' = value[c]
            BY <1>3 DEF Populate
        <3>3. row' = row
            BY <1>3 DEF Populate
        <3> QED
            BY <1>2, <3>1, <3>2, <3>3
    <2>2. ASSUME overdue' = {}, NEW d \in Callers, pc'[d] = "populate"
          PROVE  latest' <= value'[d]
        <3>1. overdue = {}
            BY <1>3, <2>2 DEF Populate
        <3>2. lock = c
            BY <1>1, <1>3, <3>1 DEF FillerHoldsLock, Filling, Populate
        <3>3. d # c /\ pc[d] = "populate"
            BY <1>1, <1>3, <2>2 DEF Populate, Goto, Typed, TypeOK
        <3>4. lock = d
            BY <1>1, <3>1, <3>3 DEF FillerHoldsLock, Filling
        <3> QED
            BY <3>2, <3>3, <3>4
    <2> QED
        BY <2>1, <2>2 DEF Fresh
<1>4. ASSUME \A c \in Callers : ~Populate(c)
      PROVE  Fresh'
    <2>1. latest' = latest
        BY <1>4, OthersKeepLatest
    <2>2. latest' <= row'
        BY <1>2, <2>1
    <2>3. ASSUME overdue' = {}, NEW d \in Callers, pc'[d] = "populate"
          PROVE  latest <= value'[d]
        <3>1. overdue = {}
            BY <2>3 DEF Next, vars, UpdateRow, ExpireEntry, ExpireLock, Call, Crash, Step,
               Get, Lock, GiveUp, Filled, RedisFails, Direct, Select, SelectFails,
               Populate, Release
        <3>2. \/ pc[d] = "populate" /\ value'[d] = value[d]
              \/ value'[d] = row
            BY <1>1, <2>3, ReadsOrKeeps
        <3>3. ASSUME pc[d] = "populate", value'[d] = value[d]
              PROVE  latest <= value'[d]
            BY <3>1, <3>3 DEF Inv, Fresh
        <3> QED
            BY <1>2, <3>2, <3>3
    <2> QED
        BY <2>1, <2>2, <2>3 DEF Fresh
<1> QED
    BY <1>3, <1>4

\* "Can't risk racing the legitimate filler": while no lock has run out, the
\* cache never goes back to an older version, however often its entries
\* expire and whoever gives up waiting.
THEOREM CacheAdvances == Spec => CacheNeverGoesBack
<1>1. Init => Inv
    <2>1. ASSUME Init
          PROVE  FillerHoldsLock /\ Fresh
        <3>1. latest = 0 /\ row \in Nat
            BY <2>1, VersionFacts DEF Init
        <3>2. \A c \in Callers : pc[c] = "idle"
            BY <2>1 DEF Init
        <3> QED
            BY <3>1, <3>2 DEF FillerHoldsLock, Filling, Fresh
    <2> QED
        BY <2>1, InitTyped DEF Inv
<1>2. Inv /\ [Next]_vars => Inv'
    BY NextTyped, NextFillerHoldsLock, NextFresh DEF Inv
<1>3. Inv /\ [Next]_vars => [overdue' = {} => latest' >= latest]_vars
    <2> SUFFICES ASSUME Inv, [Next]_vars, overdue' = {}
                 PROVE  latest' >= latest
        OBVIOUS
    <2>1. overdue = {}
        BY DEF Next, vars, UpdateRow, ExpireEntry, ExpireLock, Call, Crash, Step,
           Get, Lock, GiveUp, Filled, RedisFails, Direct, Select, SelectFails,
           Populate, Release
    <2>2. latest \in Nat
        BY VersionFacts DEF Inv, Typed, TypeOK
    <2>3. CASE \E c \in Callers : Populate(c)
        BY <2>1, <2>2, <2>3, PopulateAdvances
    <2>4. CASE \A c \in Callers : ~Populate(c)
        BY <2>2, <2>4, OthersKeepLatest
    <2> QED
        BY <2>3, <2>4
<1> QED
    BY <1>1, <1>2, <1>3, PTL DEF Spec, CacheNeverGoesBack

-----------------------------------------------------------------------------
\* A disruption once injected has occurred for good.
LEMMA OccurredGrows == Typed /\ [Next]_vars => Occurred \subseteq Occurred'
<1> SUFFICES ASSUME Typed, [Next]_vars
             PROVE  Occurred \subseteq Occurred'
    OBVIOUS
<1>1. faults' = faults \/ \E kind \in FaultKinds : Fault(kind)
    <2>1. \A kind : Fault(kind) => kind \in FaultKinds
        BY DEF Fault
    <2> QED
        BY <2>1 DEF Next, vars, UpdateRow, ExpireEntry, ExpireLock, Call, Crash, Step, Get,
           Lock, GiveUp, Filled, RedisFails, Direct, Select, SelectFails, Populate, Release
<1>2. ASSUME NEW kind \in FaultKinds, Fault(kind)
      PROVE  Occurred \subseteq Occurred'
    BY <1>2, FaultFacts DEF Typed, TypeOK
<1>3. faults' = faults => Occurred' = Occurred
    BY DEF Occurred
<1> QED
    BY <1>1, <1>2, <1>3

\* The lock goes with the call that took it ("finally"), also when the SELECT
\* raises, as long as Redis and the process live.
THEOREM LockGoesWithItsCall == Spec => []LockNotLeaked
<1>1. Init => LockNotLeaked
    BY DEF Init, LockNotLeaked
<1>2. Typed /\ LockNotLeaked /\ [Next]_vars => LockNotLeaked'
    <2> SUFFICES ASSUME Typed, LockNotLeaked, [Next]_vars,
                        Occurred' \cap {"redis", "crash"} = {}, lock' # NoCaller
                 PROVE  Filling(lock)'
        BY DEF LockNotLeaked
    <2>1. Occurred \cap {"redis", "crash"} = {}
        BY OccurredGrows
    <2>2. lock # NoCaller => Filling(lock)
        BY <2>1 DEF LockNotLeaked
    <2>3. ~Fault("redis") /\ ~Fault("crash")
        BY FaultFacts DEF Typed, TypeOK
    <2> USE <2>2, <2>3 DEF Typed, TypeOK, Filling
    <2>4. CASE UpdateRow \/ ExpireEntry \/ ExpireLock \/ UNCHANGED vars
        BY <2>4 DEF UpdateRow, ExpireEntry, ExpireLock, vars
    <2>5. ASSUME NEW c \in Callers, Call(c)
          PROVE  Filling(lock)'
        BY <2>5 DEF Call, Goto
    <2>6. ASSUME NEW c \in Callers
          PROVE  ~Crash(c) /\ ~RedisFails(c)
        BY DEF Crash, RedisFails
    <2>7. ASSUME NEW c \in Callers, Step(c)
          PROVE  Filling(lock)'
        <3>1. CASE Lock(c)
            BY <3>1 DEF Lock, Goto
        <3>2. CASE Release(c)
            BY <3>2 DEF Release, Return, Goto
        <3>3. CASE Get(c) \/ GiveUp(c) \/ Filled(c) \/ Direct(c)
            BY <3>3 DEF Get, GiveUp, Filled, Direct, Return, Goto
        <3>4. CASE Select(c) \/ SelectFails(c) \/ Populate(c)
            BY <3>4 DEF Select, SelectFails, Populate, Goto
        <3> QED
            BY <2>6, <2>7, <3>1, <3>2, <3>3, <3>4 DEF Step
    <2> QED
        BY <2>4, <2>5, <2>6, <2>7 DEF Next
<1> QED
    BY <1>1, <1>2, InitTyped, NextTyped, PTL DEF Spec

-----------------------------------------------------------------------------
(***************************************************************************)
(* A call that has begun ends, however many faults, callers and updates    *)
(* there are: every step of it goes on to a later await.                   *)
(***************************************************************************)
Place == [idle |-> 0, get |-> 1, lock |-> 2, wait |-> 3, direct |-> 4, select |-> 5,
          populate |-> 6, release |-> 7, done |-> 8]

\* A step of a call, and its crash, take it further, and no other call.
LEMMA StepGoesOn ==
    ASSUME TypeOK, NEW c \in Callers, Step(c) \/ Crash(c)
    PROVE  /\ Place[pc'[c]] \in Nat /\ Place[pc'[c]] > Place[pc[c]]
           /\ \A d \in Callers \ {c} : pc'[d] = pc[d]
<1> USE DEF TypeOK, Goto, Return, Place
<1>1. CASE Get(c) \/ Lock(c) \/ GiveUp(c) \/ Filled(c)
    BY <1>1 DEF Get, Lock, GiveUp, Filled
<1>2. CASE RedisFails(c)
    BY <1>2 DEF RedisFails
<1>3. CASE Direct(c) \/ Select(c) \/ SelectFails(c)
    BY <1>3 DEF Direct, Select, SelectFails
<1>4. CASE Populate(c) \/ Release(c)
    BY <1>4 DEF Populate, Release
<1>5. CASE Crash(c)
    BY <1>5 DEF Crash
<1> QED
    BY <1>1, <1>2, <1>3, <1>4, <1>5 DEF Step

\* Hence no step of the system takes a call back.
LEMMA NextGoesOn ==
    ASSUME TypeOK, NEW c \in Callers, [Next]_vars
    PROVE  Place[pc'[c]] \in Nat /\ Place[pc'[c]] >= Place[pc[c]]
<1>1. Place[pc[c]] \in Nat /\ Place[pc[c]] >= Place[pc[c]]
    BY DEF TypeOK, Place
<1>2. CASE UpdateRow \/ ExpireEntry \/ ExpireLock \/ UNCHANGED vars
    BY <1>1, <1>2 DEF UpdateRow, ExpireEntry, ExpireLock, vars
<1>3. ASSUME NEW d \in Callers, Call(d)
      PROVE  Place[pc'[c]] \in Nat /\ Place[pc'[c]] >= Place[pc[c]]
    BY <1>3 DEF TypeOK, Call, Goto, Place
<1>4. ASSUME NEW d \in Callers, Step(d) \/ Crash(d)
      PROVE  Place[pc'[c]] \in Nat /\ Place[pc'[c]] >= Place[pc[c]]
    <2>1. CASE c = d
        BY <1>1, <1>4, <2>1, StepGoesOn
    <2>2. CASE c # d
        <3>1. pc'[c] = pc[c]
            BY <1>4, <2>2, StepGoesOn
        <3> QED
            BY <1>1, <3>1
    <2> QED
        BY <2>1, <2>2
<1> QED
    BY <1>2, <1>3, <1>4 DEF Next

\* A call that can go on, and is scheduled, gets past every await.
Past(c, n) == Place[pc[c]] >= n
Ends(c) == (pc[c] # "idle") ~> (pc[c] = "done")

GetsPast(c, n, next) == Spec /\ Scheduled(c) /\ []CanGoOn(c) => (Past(c, n) ~> Past(c, next))

LEMMA CallGoesOn ==
    ASSUME NEW c \in Callers, NEW n \in 1..7, NEW next, next = n + 1
    PROVE  GetsPast(c, n, next)
<1>1. ASSUME TypeOK, Past(c, n), [Next]_vars PROVE Past(c, n)'
    <2>1. Place[pc'[c]] \in Nat /\ Place[pc'[c]] >= Place[pc[c]] /\ Place[pc[c]] >= n
        BY <1>1, NextGoesOn DEF Past
    <2>2. Place[pc[c]] \in Nat
        BY <1>1 DEF TypeOK, Place
    <2> QED
        BY <2>1, <2>2 DEF Past
<1>2. ASSUME TypeOK, Past(c, n), <<Step(c)>>_vars PROVE Past(c, next)'
    <2>1. Place[pc'[c]] \in Nat /\ Place[pc'[c]] > Place[pc[c]] /\ Place[pc[c]] >= n
        BY <1>2, StepGoesOn DEF Past
    <2>2. Place[pc[c]] \in Nat
        BY <1>2 DEF TypeOK, Place
    <2> QED
        BY <2>1, <2>2 DEF Past
<1>3. TypeOK /\ Past(c, n) /\ ~Past(c, next) => UnderWay(c)
    BY DEF TypeOK, Past, Place, UnderWay
<1> QED
    BY <1>1, <1>2, <1>3, TypeCorrect, PTL DEF Spec, Scheduled, CanGoOn, GetsPast

LEMMA CallEnds ==
    ASSUME NEW c \in Callers
    PROVE  Spec /\ Scheduled(c) /\ []CanGoOn(c) => Ends(c)
<1>1. TypeOK => (pc[c] # "idle" => Past(c, 1)) /\ (Past(c, 8) => pc[c] = "done")
    BY DEF TypeOK, Past, Place
<1>2. /\ GetsPast(c, 1, 2) /\ GetsPast(c, 2, 3) /\ GetsPast(c, 3, 4) /\ GetsPast(c, 4, 5)
      /\ GetsPast(c, 5, 6) /\ GetsPast(c, 6, 7) /\ GetsPast(c, 7, 8)
    BY CallGoesOn
<1> QED
    BY <1>1, <1>2, TypeCorrect, PTL DEF Ends, GetsPast

\* Every call that has begun returns or raises, for any number of callers,
\* faults and updates (cache_aside.py:121-124), under the fairness of FairSpec.
\* The hypothesis says that an await of a call under way can always go on one
\* way or the other; it is about ENABLED, and TLC's to check.
THEOREM EveryCallReturns == FairSpec /\ []CallsCanGoOn => EveryCallEnds
<1> DEFINE Always == []CallsCanGoOn
<1>1. ASSUME NEW c \in Callers
      PROVE  Spec /\ Scheduled(c) /\ Always => Ends(c)
    <2>1. CallsCanGoOn => CanGoOn(c)
        BY DEF CallsCanGoOn
    <2> QED
        BY <2>1, CallEnds, PTL
<1>2. FairSpec => Spec /\ \A c \in Callers : Scheduled(c)
    BY PTL DEF FairSpec, Fairness
<1> HIDE DEF Always
<1>3. FairSpec /\ Always => \A c \in Callers : Ends(c)
    BY <1>1, <1>2
<1> QED
    BY <1>3 DEF EveryCallEnds, Ends, Always

=============================================================================

----------------------------- MODULE CacheAside -----------------------------
(***************************************************************************)
(* The item cache: src/src/click_rec/cache/cache_aside.py, one item.       *)
(*                                                                         *)
(* get_item_cached reads the cache; on a miss it takes a lock in Redis and *)
(* fills the cache from Postgres, or, when the lock is taken, polls the    *)
(* cache until the filler has populated it or the wait is over.  Callers   *)
(* interleave at every command they send to Redis or Postgres.  The lock   *)
(* has a TTL, and so has the cached entry.                                 *)
(*                                                                         *)
(* The item's row is known by its version: 0 when there is no such item    *)
(* (the cache then holds the null sentinel).                               *)
(***************************************************************************)
EXTENDS Integers, Sequences, FiniteSets

CONSTANTS
    Callers,        \* calls of get_item_cached
    NoCaller,       \* holder of a lock nobody holds
    FaultKinds,     \* which disruptions the environment may inject
    MaxFaults,      \* bound: number of injected disruptions
    MaxVersion      \* bound: number of updates of the row

NoEntry == -1       \* the cache key does not exist
Pending == -2       \* the call has not been answered
Failed  == -3       \* the call ended with an exception

ASSUME CacheAssumption ==
    /\ NoCaller \notin Callers
    /\ FaultKinds \subseteq {"redis", "db", "crash", "slow_fill", "slow_wait", "expiry"}
    /\ MaxFaults \in Nat
    /\ MaxVersion \in Nat

VARIABLES
    row,            \* version of the row in Postgres
    cached,         \* version the cache holds, or NoEntry
    lock,           \* holder of lock:item:{id}
    pc,             \* pc[c]: the await caller c is at
    value,          \* value[c]: what its SELECT returned
    answer,         \* answer[c]: what the call returned
    overdue,        \* history: callers whose lock ran out while they filled
    latest,         \* history: the version that was cached last
    selects,        \* history: callers that went to Postgres
    faults          \* the disruptions injected so far

vars == <<row, cached, lock, pc, value, answer, overdue, latest, selects, faults>>

Versions == 0..MaxVersion

Fault(kind) ==
    /\ kind \in FaultKinds
    /\ Len(faults) < MaxFaults
    /\ faults' = Append(faults, kind)

Occurred == {faults[i] : i \in DOMAIN faults}

Init ==
    /\ row \in Versions
    /\ cached = NoEntry
    /\ lock = NoCaller
    /\ pc = [c \in Callers |-> "idle"]
    /\ value = [c \in Callers |-> NoEntry]
    /\ answer = [c \in Callers |-> Pending]
    /\ overdue = {}
    /\ latest = 0
    /\ selects = {}
    /\ faults = <<>>

Goto(c, state) == pc' = [pc EXCEPT ![c] = state]

Return(c, result) ==
    /\ answer' = [answer EXCEPT ![c] = result]
    /\ Goto(c, "done")

-----------------------------------------------------------------------------
(***************************************************************************)
(* The environment                                                         *)
(***************************************************************************)
\* The row is inserted by the seed script (version 1), or changed in the
\* database by hand: nothing invalidates the cache.
UpdateRow ==
    /\ row < MaxVersion
    /\ row' = row + 1
    /\ UNCHANGED <<cached, lock, pc, value, answer, overdue, latest, selects, faults>>

\* cache_item_ttl_seconds or cache_negative_ttl_seconds have passed.
ExpireEntry ==
    /\ cached # NoEntry
    /\ Fault("expiry")
    /\ cached' = NoEntry
    /\ UNCHANGED <<row, lock, pc, value, answer, overdue, latest, selects>>

Filling(c) == pc[c] \in {"select", "populate", "release"}

\* (mutant) The lock is set without a TTL.
LockStays ==
    /\ lock # NoCaller
    /\ Filling(lock) /\ Fault("slow_fill")
    /\ lock' = NoCaller
    /\ overdue' = overdue \cup {lock}
    /\ UNCHANGED <<row, cached, pc, value, answer, latest, selects>>

\* cache_lock_ttl_ms have passed: the holder is slow, or it left the lock.
ExpireLock ==
    /\ lock # NoCaller
    /\ lock' = NoCaller
    /\ \/ /\ Filling(lock)
          /\ Fault("slow_fill")
          /\ overdue' = overdue \cup {lock}
       \/ /\ ~Filling(lock)
          /\ UNCHANGED <<overdue, faults>>
    /\ UNCHANGED <<row, cached, pc, value, answer, latest, selects>>

\* The process of a caller ends, with whatever it holds.
Crash(c) ==
    /\ pc[c] \notin {"idle", "done"}
    /\ Fault("crash")
    /\ Return(c, Failed)
    /\ UNCHANGED <<row, cached, lock, value, overdue, latest, selects>>

(***************************************************************************)
(* get_item_cached                                                         *)
(***************************************************************************)
Call(c) ==
    /\ pc[c] = "idle"
    /\ Goto(c, "get")
    /\ UNCHANGED <<row, cached, lock, value, answer, overdue, latest, selects, faults>>

\* 1. A plain GET: a value or the null sentinel is the answer.
Get(c) ==
    /\ pc[c] = "get"
    /\ \/ cached # NoEntry /\ Return(c, cached)
       \/ cached = NoEntry /\ Goto(c, "lock") /\ UNCHANGED answer
    /\ UNCHANGED <<row, cached, lock, value, overdue, latest, selects, faults>>

\* 2. SET lock NX PX.
Lock(c) ==
    /\ pc[c] = "lock"
    /\ \/ /\ lock = NoCaller
          /\ lock' = c
          /\ Goto(c, "select")
       \/ /\ lock # NoCaller
          /\ Goto(c, "wait")
          /\ UNCHANGED lock
    /\ UNCHANGED <<row, cached, value, answer, overdue, latest, selects, faults>>

\* (mutant) The caller that gives up waiting fills the cache itself.
GiveUpAndFill(c) ==
    /\ pc[c] = "wait"
    /\ "slow_wait" \in FaultKinds
    /\ cached = NoEntry
    /\ Goto(c, "select")
    /\ UNCHANGED <<row, cached, lock, value, answer, overdue, latest, selects, faults>>

\* (mutant) The wait only ends while somebody holds the lock.
GiveUpWhileLocked(c) ==
    /\ pc[c] = "wait"
    /\ "slow_wait" \in FaultKinds
    /\ cached = NoEntry
    /\ lock # NoCaller
    /\ Goto(c, "direct")
    /\ UNCHANGED <<row, cached, lock, value, answer, overdue, latest, selects, faults>>

\* _wait_for_filler polls for cache_lock_wait_max_ms, whatever the lock does.
GiveUp(c) ==
    /\ pc[c] = "wait"
    /\ "slow_wait" \in FaultKinds
    /\ cached = NoEntry
    /\ Goto(c, "direct")
    /\ UNCHANGED <<row, cached, lock, value, answer, overdue, latest, selects, faults>>

\* A poll of _wait_for_filler finds the entry.
Filled(c) ==
    /\ pc[c] = "wait"
    /\ cached # NoEntry
    /\ Return(c, cached)
    /\ UNCHANGED <<row, cached, lock, value, overdue, latest, selects, faults>>

\* Redis fails a GET, the lock or a poll: read Postgres directly.  The lock
\* may have been taken all the same (the reply was lost).
RedisFails(c) ==
    /\ pc[c] \in {"get", "lock", "wait"}
    /\ Fault("redis")
    /\ \/ UNCHANGED lock
       \/ pc[c] = "lock" /\ lock = NoCaller /\ lock' = c
    /\ Goto(c, "direct")
    /\ UNCHANGED <<row, cached, value, answer, overdue, latest, selects>>

\* Fall through to Postgres, without writing to the cache.
Direct(c) ==
    /\ pc[c] = "direct"
    /\ selects' = selects \cup {c}
    /\ \/ Return(c, row) /\ UNCHANGED faults
       \/ Fault("db") /\ Return(c, Failed)
    /\ UNCHANGED <<row, cached, lock, value, overdue, latest>>

\* 3. The holder of the lock reads Postgres.
Select(c) ==
    /\ pc[c] = "select"
    /\ selects' = selects \cup {c}
    /\ value' = [value EXCEPT ![c] = row]
    /\ Goto(c, "populate")
    /\ UNCHANGED <<row, cached, lock, answer, overdue, latest, faults>>

\* (mutant) A SELECT that raises leaves without releasing the lock.
SelectFailsLocked(c) ==
    /\ pc[c] = "select"
    /\ Fault("db")
    /\ selects' = selects \cup {c}
    /\ Return(c, Failed)
    /\ UNCHANGED <<row, cached, lock, value, overdue, latest>>

\* The SELECT raises: the lock is released on the way out (finally).
SelectFails(c) ==
    /\ pc[c] = "select"
    /\ Fault("db")
    /\ selects' = selects \cup {c}
    /\ Goto(c, "release")
    /\ UNCHANGED <<row, cached, lock, value, answer, overdue, latest>>

\* _populate_cache; an error of Redis leaves the cache cold.
Populate(c) ==
    /\ pc[c] = "populate"
    /\ \/ /\ cached' = value[c]
          /\ latest' = value[c]
          /\ UNCHANGED faults
       \/ Fault("redis") /\ UNCHANGED <<cached, latest>>
    /\ Goto(c, "release")
    /\ UNCHANGED <<row, lock, value, answer, overdue, selects>>

\* (mutant) The exception of the SELECT is swallowed.
OutcomeUnchecked(c) == value[c]

\* The row the SELECT returned, or its exception.
Outcome(c) == IF value[c] = NoEntry THEN Failed ELSE value[c]

\* (mutant) A blind DEL.
ReleaseBlindly(c) ==
    /\ pc[c] = "release"
    /\ lock' = NoCaller
    /\ Return(c, Outcome(c))
    /\ UNCHANGED <<row, cached, value, overdue, latest, selects, faults>>

\* _release_lock: compare and delete, in one script.  An error of Redis is
\* swallowed, and the lock is left to its TTL.
Release(c) ==
    /\ pc[c] = "release"
    /\ \/ lock' = (IF lock = c THEN NoCaller ELSE lock) /\ UNCHANGED faults
       \/ Fault("redis") /\ UNCHANGED lock
    /\ Return(c, Outcome(c))
    /\ UNCHANGED <<row, cached, value, overdue, latest, selects>>

-----------------------------------------------------------------------------
Step(c) ==
    \/ Get(c)
    \/ Lock(c)
    \/ GiveUp(c)
    \/ Filled(c)
    \/ RedisFails(c)
    \/ Direct(c)
    \/ Select(c)
    \/ SelectFails(c)
    \/ Populate(c)
    \/ Release(c)

Next ==
    \/ UpdateRow
    \/ ExpireEntry
    \/ ExpireLock
    \/ \E c \in Callers : Call(c) \/ Step(c) \/ Crash(c)

Spec == Init /\ [][Next]_vars

\* Every await of a call under way can go on, one way or the other.
UnderWay(c) == pc[c] \notin {"idle", "done"}
CanGoOn(c) == UnderWay(c) => ENABLED <<Step(c)>>_vars
CallsCanGoOn == \A c \in Callers : CanGoOn(c)

\* A call under way goes on: Redis and Postgres answer or raise.  That is an
\* assumption, for the code sets no time-out of a command (redis_client.py:32,
\* db/base.py:26-32).  And a lock whose holder is gone runs out.
Scheduled(c) == WF_vars(Step(c))

Fairness ==
    /\ \A c \in Callers : Scheduled(c)
    /\ WF_vars(ExpireLock)

FairSpec == Spec /\ Fairness

-----------------------------------------------------------------------------
(***************************************************************************)
(* Properties                                                              *)
(***************************************************************************)
\* The types of the variables.
TypeOK ==
    /\ row \in Versions
    /\ cached \in Versions \cup {NoEntry}
    /\ lock \in Callers \cup {NoCaller}
    /\ pc \in [Callers -> {"idle", "get", "lock", "wait", "direct", "select",
                           "populate", "release", "done"}]
    /\ value \in [Callers -> Versions \cup {NoEntry}]
    /\ answer \in [Callers -> Versions \cup {Pending, Failed}]
    /\ overdue \subseteq Callers
    /\ latest \in Versions
    /\ selects \subseteq Callers
    /\ faults \in Seq(FaultKinds)
    /\ Len(faults) <= MaxFaults

\* Stampede protection: whoever fills the cache holds the lock, unless its
\* own lock ran out.  In particular a caller that took too long does not
\* release the lock of the next one, "leaking the stampede protection to a
\* third caller" (cache_aside.py:58-62).
FillerHoldsLock ==
    \A c \in Callers : Filling(c) /\ c \notin overdue => lock = c

\* A fallback "can't risk racing the legitimate filler"
\* (tests/test_cache_aside_unit.py, test_lock_timeout_falls_through_to_db):
\* while no lock runs out, a version once cached is never replaced by an
\* older one, over any number of expiries and fills.
CacheNeverGoesBack == [][overdue' = {} => latest' >= latest]_vars

\* The lock goes with the call that took it, also when the SELECT raises
\* (the finally of get_item_cached), as long as Redis and the process live.
LockNotLeaked ==
    Occurred \cap {"redis", "crash"} = {} /\ lock # NoCaller => Filling(lock)

\* A call that has begun returns or raises, also behind a filler that died or
\* left the cache cold: "traffic isn't wedged waiting on a crashed filler"
\* (cache_aside.py:121-124).
EveryCallEnds == \A c \in Callers : (pc[c] # "idle") ~> (pc[c] = "done")

\* No lock outlives its holder for good: the key can be filled again.
LockFreed == []<>(lock = NoCaller)

\* "Under N concurrent callers for a cold key, exactly one executes the
\* Postgres SELECT" (cache_aside.py:141-142).
OneSelect == Cardinality(selects) <= 1
=============================================================================

----------------------------- MODULE GresCache -----------------------------
(***************************************************************************)
(* The server's snapshot cache (crates/server/src/cache.rs).               *)
(*                                                                         *)
(* Every connection thread, the UDP loop and the background refresh loop   *)
(* share one GresCache.  A caller that finds no fresh entry either becomes *)
(* the refresher (in_flight) and calls the collector, or waits on the      *)
(* condition variable for the refresher's outcome.                         *)
(*                                                                         *)
(* Grain of atomicity.  in_flight, generation and last_error change only   *)
(* while refresh_state is locked, and between lock() and wait()/drop() the *)
(* code reads the unlocked state (the entry and the clock) once, in        *)
(* get_fresh; so one pass through the loop is one action.  The collector   *)
(* call, the store of the entry and finish_refresh are separate actions,   *)
(* as the lock is free between them.                                       *)
(*                                                                         *)
(* A snapshot is represented by the instant it was collected at; the       *)
(* metrics counters, which no decision reads, are left out.                *)
(*                                                                         *)
(* An operator whose comment begins with "Deviation" is a variant of the   *)
(* one after it that no specification uses: a slip of the kind the         *)
(* properties have to catch.                                               *)
(***************************************************************************)
EXTENDS Integers, FiniteSets

CONSTANTS Queriers,     \* threads that call get_latest_or_refresh (TCP, UDP)
          Refreshers,   \* threads that call get_or_refresh (background loop)
          TTL,          \* cache_ttl_ms, validated positive by validate_config
          Codes,        \* the error codes collect_gres_snapshot can return
          Internal,     \* ErrorCode::Internal
          NoEntry,      \* entry = None
          NoCode,       \* last_error = None
          GenMod,       \* generation wraps modulo GenMod (2^64 in the code)
          MaxClock,     \* bound: the clock stops here
          MaxFailures   \* bound: the collector fails at most this often

Threads == Queriers \cup Refreshers

ASSUME ConstantsAssumption ==
    /\ Queriers \cap Refreshers = {}
    /\ TTL \in Nat \ {0}
    /\ GenMod \in Nat \ {0}
    /\ MaxClock \in Nat
    /\ MaxFailures \in Nat
    /\ NoEntry \notin Nat
    /\ NoCode \notin Codes \cup {Internal}

VARIABLES clock,        \* Instant::now()
          entry,        \* GresCache.entry: collected_at of the stored snapshot
          inFlight,     \* RefreshState.in_flight
          generation,   \* RefreshState.generation
          lastError,    \* RefreshState.last_error
          pc,           \* where each thread is inside the call
          observed,     \* observed_generation of each thread
          result,       \* the refresher's own collection, or its error
          reply,        \* what the last call of each thread returned
          since,        \* history: when the thread's get_or_refresh began
          failed,       \* history: codes refreshes failed with since then
          failures      \* number of collector failures so far (for the bound)

vars == <<clock, entry, inFlight, generation, lastError, pc, observed,
          result, reply, since, failed, failures>>

shared == <<entry, inFlight, generation, lastError>>

Instants == 0..MaxClock
Replies == [kind : {"none"}] \cup [kind : {"ok"}, at : Instants]
             \cup [kind : {"err"}, code : Codes \cup {Internal}]
NoReply == [kind |-> "none"]
Ok(at) == [kind |-> "ok", at |-> at]
Err(c) == [kind |-> "err", code |-> c]

Refreshing == {"collecting", "collected", "stored", "failed"}

TypeOK ==
    /\ clock \in Instants
    /\ entry \in Instants \cup {NoEntry}
    /\ inFlight \in BOOLEAN
    /\ generation \in 0..(GenMod - 1)
    /\ lastError \in Codes \cup {NoCode}
    /\ pc \in [Threads -> {"idle", "enter", "miss", "waiting", "woken"}
                            \cup Refreshing]
    /\ observed \in [Threads -> 0..(GenMod - 1)]
    /\ result \in [Threads -> Replies]
    /\ reply \in [Threads -> Replies]
    /\ since \in [Threads -> Instants]
    /\ failed \in [Threads -> SUBSET Codes]
    /\ failures \in 0..MaxFailures

Init ==
    /\ clock = 0
    /\ entry = NoEntry
    /\ inFlight = FALSE
    /\ generation = 0
    /\ lastError = NoCode
    /\ pc = [t \in Threads |-> "idle"]
    /\ observed = [t \in Threads |-> 0]
    /\ result = [t \in Threads |-> NoReply]
    /\ reply = [t \in Threads |-> NoReply]
    /\ since = [t \in Threads |-> 0]
    /\ failed = [t \in Threads |-> {}]
    /\ failures = 0

-----------------------------------------------------------------------------
(* Deviation: a snapshot is still served at the instant it expires. *)
IsExpiredLate(at, now) == now - at > TTL

(* CacheEntry::is_expired and GresCache::get_fresh. *)
IsExpired(at, now) == now - at >= TTL
Fresh == entry # NoEntry /\ ~IsExpired(entry, clock)

(* Leave the call with reply r. *)
Return(t, r) ==
    /\ pc' = [pc EXCEPT ![t] = "idle"]
    /\ reply' = [reply EXCEPT ![t] = r]
    /\ observed' = [observed EXCEPT ![t] = 0]
    /\ result' = [result EXCEPT ![t] = NoReply]

(* Enter get_or_refresh: the history starts here. *)
Began(t) ==
    /\ since' = [since EXCEPT ![t] = clock]
    /\ failed' = [failed EXCEPT ![t] = {}]

(* get_latest_or_refresh: any stored entry, however old, is a hit. *)
QueryLatest(t) ==
    /\ t \in Queriers /\ pc[t] = "idle"
    /\ entry # NoEntry
    /\ Return(t, Ok(entry))
    /\ Began(t)
    /\ UNCHANGED <<clock, shared, failures>>

QueryEmpty(t) ==
    /\ t \in Queriers /\ pc[t] = "idle"
    /\ entry = NoEntry
    /\ pc' = [pc EXCEPT ![t] = "enter"]
    /\ reply' = [reply EXCEPT ![t] = NoReply]
    /\ Began(t)
    /\ UNCHANGED <<clock, shared, observed, result, failures>>

(* The first get_fresh of get_or_refresh, before the lock is taken. *)
Entering(t) == pc[t] = (IF t \in Queriers THEN "enter" ELSE "idle")

FastHit(t) ==
    /\ Entering(t) /\ Fresh
    /\ Return(t, Ok(entry))
    /\ Began(t)
    /\ UNCHANGED <<clock, shared, failures>>

FastMiss(t) ==
    /\ Entering(t) /\ ~Fresh
    /\ pc' = [pc EXCEPT ![t] = "miss"]
    /\ reply' = [reply EXCEPT ![t] = NoReply]
    /\ Began(t)
    /\ UNCHANGED <<clock, shared, observed, result, failures>>

(* One pass of the loop with refresh_state locked: a thread that comes     *)
(* from the fast path reads the generation, one that was woken kept the    *)
(* generation it read when it came.                                        *)
AtLoop(t) == pc[t] \in {"miss", "woken"}
Observed(t) == IF pc[t] = "miss" THEN generation ELSE observed[t]

(* Deviation: an error left by an earlier refresh counts too. *)
RefreshFailedBefore(t) == generation # Observed(t) \/ lastError # NoCode

(* The generation moved: the refresh this thread joined is over. *)
RefreshEnded(t) == generation # Observed(t)

(* Deviation: in_flight is not looked at. *)
MayRefreshInFlight(t) == generation = Observed(t)

(* Deviation: the generation is not looked at. *)
MayRefreshAgain(t) == ~inFlight

(* Nobody is collecting, nor did since this thread came. *)
MayRefresh(t) == generation = Observed(t) /\ ~inFlight

LoopHit(t) ==
    /\ AtLoop(t) /\ Fresh
    /\ Return(t, Ok(entry))
    /\ UNCHANGED <<clock, shared, since, failed, failures>>

LoopError(t) ==
    /\ AtLoop(t) /\ ~Fresh
    /\ RefreshEnded(t)
    /\ Return(t, Err(IF lastError # NoCode THEN lastError ELSE Internal))
    /\ UNCHANGED <<clock, shared, since, failed, failures>>

StartRefresh(t) ==
    /\ AtLoop(t) /\ ~Fresh
    /\ MayRefresh(t)
    /\ inFlight' = TRUE
    /\ lastError' = NoCode
    /\ pc' = [pc EXCEPT ![t] = "collecting"]
    /\ observed' = [observed EXCEPT ![t] = Observed(t)]
    /\ UNCHANGED <<clock, entry, generation, result, reply, since, failed, failures>>

Merge(t) ==
    /\ AtLoop(t) /\ ~Fresh
    /\ generation = Observed(t)
    /\ inFlight
    /\ pc' = [pc EXCEPT ![t] = "waiting"]
    /\ observed' = [observed EXCEPT ![t] = Observed(t)]
    /\ UNCHANGED <<clock, shared, result, reply, since, failed, failures>>

(* Condvar::wait may return without a notification. *)
SpuriousWakeup(t) ==
    /\ pc[t] = "waiting"
    /\ pc' = [pc EXCEPT ![t] = "woken"]
    /\ UNCHANGED <<clock, shared, observed, result, reply, since, failed, failures>>

(* collector.collect_gres_snapshot(): the entry is stamped when it returns. *)
CollectOk(t) ==
    /\ pc[t] = "collecting"
    /\ pc' = [pc EXCEPT ![t] = "collected"]
    /\ result' = [result EXCEPT ![t] = Ok(clock)]
    /\ UNCHANGED <<clock, shared, observed, reply, since, failed, failures>>

CollectErr(t) ==
    /\ pc[t] = "collecting"
    /\ failures < MaxFailures
    /\ failures' = failures + 1
    /\ \E c \in Codes : result' = [result EXCEPT ![t] = Err(c)]
    /\ pc' = [pc EXCEPT ![t] = "failed"]
    /\ UNCHANGED <<clock, shared, observed, reply, since, failed>>

Store(t) ==
    /\ pc[t] = "collected"
    /\ entry' = result[t].at
    /\ pc' = [pc EXCEPT ![t] = "stored"]
    /\ UNCHANGED <<clock, inFlight, generation, lastError, observed, result,
                   reply, since, failed, failures>>

(* Deviation: no wrap at the integer's width. *)
NextGenerationUnwrapped == generation + 1

(* generation.wrapping_add(1) *)
NextGeneration == (generation + 1) % GenMod

(* Deviation: the waiters are not notified. *)
NotifyNobody(t) == [pc EXCEPT ![t] = "idle"]

(* Deviation: notify_one. *)
NotifyOne(t) ==
    [s \in Threads |-> IF s = t THEN "idle"
                       ELSE IF pc[s] = "waiting" /\ s = (CHOOSE w \in Threads : pc[w] = "waiting")
                            THEN "woken" ELSE pc[s]]

(* notify_all, and the refresher t leaves. *)
NotifyAll(t) ==
    [s \in Threads |-> IF s = t THEN "idle"
                       ELSE IF pc[s] = "waiting" THEN "woken" ELSE pc[s]]

(* finish_refresh: one critical section that ends with notify_all; the     *)
(* refresher returns its own result.                                       *)
FinishRefresh(t, error) ==
    /\ inFlight' = FALSE
    /\ generation' = NextGeneration
    /\ lastError' = error
    /\ pc' = NotifyAll(t)
    /\ reply' = [reply EXCEPT ![t] = result[t]]
    /\ observed' = [observed EXCEPT ![t] = 0]
    /\ result' = [result EXCEPT ![t] = NoReply]
    /\ UNCHANGED <<clock, entry, since, failures>>

FinishOk(t) ==
    /\ pc[t] = "stored"
    /\ FinishRefresh(t, NoCode)
    /\ UNCHANGED failed

FinishErr(t) ==
    /\ pc[t] = "failed"
    /\ FinishRefresh(t, result[t].code)
    /\ failed' = [s \in Threads |-> IF pc[s] = "idle" THEN failed[s]
                                    ELSE failed[s] \cup {result[t].code}]

Tick ==
    /\ clock < MaxClock
    /\ clock' = clock + 1
    /\ UNCHANGED <<shared, pc, observed, result, reply, since, failed, failures>>

(* What a thread does once it is inside a call. *)
Step(t) ==
    \/ pc[t] # "idle" /\ (FastHit(t) \/ FastMiss(t))
    \/ LoopHit(t) \/ LoopError(t) \/ StartRefresh(t) \/ Merge(t)
    \/ CollectOk(t) \/ CollectErr(t) \/ Store(t) \/ FinishOk(t) \/ FinishErr(t)

Call(t) ==
    \/ QueryLatest(t) \/ QueryEmpty(t)
    \/ pc[t] = "idle" /\ (FastHit(t) \/ FastMiss(t))

Next == Tick \/ \E t \in Threads : Call(t) \/ Step(t) \/ SpuriousWakeup(t)

Spec == Init /\ [][Next]_vars

(* Threads inside a call are scheduled and the collector returns; nobody   *)
(* is obliged to make a call, to wake spuriously, or to let time pass.     *)
FairSpec == Spec /\ \A t \in Threads : WF_vars(Step(t))

-----------------------------------------------------------------------------
(* Properties. *)

(* At most one collector call at a time, and in_flight says exactly        *)
(* whether one is under way: the coalescing that keeps a burst of stale    *)
(* requests from hitting NVML together (get_or_refresh).                   *)
SingleCollector ==
    /\ \A s, t \in Threads : pc[s] \in Refreshing /\ pc[t] \in Refreshing => s = t
    /\ inFlight <=> \E t \in Threads : pc[t] \in Refreshing

(* A thread asleep on the condition variable always has a refresher that   *)
(* is going to notify it, and it is the refresh the thread joined: no      *)
(* wakeup is lost between the check of in_flight and Condvar::wait.        *)
NoLostWakeup ==
    \A t \in Threads : pc[t] = "waiting" => inFlight /\ observed[t] = generation

(* A get_or_refresh call never returns a snapshot that had already expired *)
(* when the call began, whichever of its four exits it takes.              *)
FreshReply ==
    \A t \in Refreshers : reply[t].kind = "ok" => reply[t].at + TTL > since[t]

(* An error other than Internal comes from a refresh that failed during    *)
(* the caller's own call, never from an earlier one (last_error is shared).*)
ErrorIsCurrent ==
    \A t \in Threads :
        reply[t].kind = "err" => reply[t].code \in failed[t] \cup {Internal}

(* A refresh, successful or not, never drops the stored snapshot nor       *)
(* replaces it by one collected earlier, although store() takes no part in *)
(* the refresh_state lock.                                                 *)
EntryNeverRegresses ==
    [][entry # NoEntry => entry' # NoEntry /\ entry' >= entry]_vars

(* A caller that was coalesced into a refresh does not collect on its own  *)
(* after it: a failed refresh is reported to the waiters, not retried by   *)
(* each of them in turn.                                                   *)
MergedNeverCollects ==
    [][\A t \in Threads : pc[t] = "woken" => pc'[t] # "collecting"]_vars

(* Every call returns: nobody waits for a refresh that never finishes.     *)
EveryCallReturns == \A t \in Threads : pc[t] # "idle" ~> pc[t] = "idle"

(* Where time stamps and errors come from: the refresher's own result is   *)
(* of the right kind, was collected during its call, and is not older than *)
(* the entry it will replace.                                              *)
Stamps ==
    /\ entry # NoEntry => entry <= clock
    /\ \A t \in Threads :
        /\ since[t] <= clock
        /\ pc[t] \in {"collected", "stored"} =>
              /\ result[t].kind = "ok"
              /\ since[t] <= result[t].at
              /\ result[t].at <= clock
              /\ entry # NoEntry => entry <= result[t].at
        /\ pc[t] = "failed" => result[t].kind = "err" /\ result[t].code \in Codes

(* A woken thread that sees a new generation and an error sees the error   *)
(* of a refresh that ended during its call.                                *)
ErrorsReachWaiters ==
    \A t \in Threads :
        pc[t] \in {"waiting", "woken"} /\ generation # observed[t] /\ lastError # NoCode
            => lastError \in failed[t]

(* The inductive invariant behind the safety theorems: the properties      *)
(* above together with what makes each of them survive the next step.      *)
IInv ==
    /\ TypeOK
    /\ SingleCollector
    /\ NoLostWakeup
    /\ Stamps
    /\ ErrorsReachWaiters
    /\ FreshReply
    /\ ErrorIsCurrent

(* The cache implements SingleFlight. *)
Flight == INSTANCE SingleFlight
            WITH flying <- {t \in Threads : pc[t] \in Refreshing},
                 joined <- {t \in Threads : pc[t] = "waiting"}

(* Every step of the cache is a step of SingleFlight or changes nothing    *)
(* that SingleFlight sees.                                                 *)
ImplementsSingleFlight == Flight!Spec
=============================================================================

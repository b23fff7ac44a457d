-------------------------- MODULE GresCacheProofs --------------------------
(* Theorems about GresCache, for any threads, TTL, generation width and    *)
(* bounds.                                                                 *)
EXTENDS GresCache, TLAPS

(* What each kind of reply carries. *)
LEMMA ReplyShape ==
    ASSUME NEW r \in Replies
    PROVE  /\ r.kind \in {"none", "ok", "err"}
           /\ r.kind = "ok" => r.at \in Instants
           /\ r.kind = "err" => r.code \in Codes \cup {Internal}
BY DEF Replies

(* The three ways the code makes a reply. *)
LEMMA ReplyMade ==
    /\ NoReply \in Replies
    /\ NoReply.kind = "none"
    /\ \A at \in Instants : Ok(at) \in Replies /\ Ok(at).kind = "ok" /\ Ok(at).at = at
    /\ \A c \in Codes \cup {Internal} :
          Err(c) \in Replies /\ Err(c).kind = "err" /\ Err(c).code = c
BY DEF Replies, NoReply, Ok, Err

(* The initial state satisfies the inductive invariant. *)
LEMMA InitIInv == Init => IInv
<1> SUFFICES ASSUME Init PROVE IInv
  OBVIOUS
<1> USE ConstantsAssumption, ReplyMade DEF Init
<1>1. TypeOK
  <2>1. 0 \in Instants /\ 0 \in 0..(GenMod - 1) /\ 0 \in 0..MaxFailures
    BY DEF Instants
  <2>2. pc \in [Threads -> {"idle", "enter", "miss", "waiting", "woken"} \cup Refreshing]
    OBVIOUS
  <2>3. observed \in [Threads -> 0..(GenMod - 1)] /\ since \in [Threads -> Instants]
    BY <2>1
  <2>4. reply \in [Threads -> Replies] /\ result \in [Threads -> Replies]
    OBVIOUS
  <2>5. failed \in [Threads -> SUBSET Codes]
    OBVIOUS
  <2> QED
    BY <2>1, <2>2, <2>3, <2>4, <2>5 DEF TypeOK
<1>2. SingleCollector /\ NoLostWakeup
  BY DEF SingleCollector, NoLostWakeup, Refreshing
<1>3. Stamps
  BY DEF Stamps
<1>4. ErrorsReachWaiters /\ FreshReply /\ ErrorIsCurrent
  BY DEF ErrorsReachWaiters, FreshReply, ErrorIsCurrent, Threads
<1> QED
  BY <1>1, <1>2, <1>3, <1>4 DEF IInv

(* wrapping_add stays in the width of the counter. *)
LEMMA GenerationWraps ==
    ASSUME NEW g \in 0..(GenMod - 1)
    PROVE  (g + 1) % GenMod \in 0..(GenMod - 1)
BY ConstantsAssumption

(* A snapshot stamped no earlier than an instant is fresh at that instant. *)
LEMMA StillFresh ==
    ASSUME NEW at \in Instants, NEW begun \in Instants, begun <= at
    PROVE  at + TTL > begun
BY ConstantsAssumption DEF Instants

(* Every action keeps the types. *)
LEMMA TypeStep == IInv /\ [Next]_vars => TypeOK'
<1> SUFFICES ASSUME IInv, [Next]_vars PROVE TypeOK'
  OBVIOUS
<1> USE ConstantsAssumption, ReplyMade DEF IInv, TypeOK, Stamps, Refreshing, Instants
<1>1. ASSUME NEW t \in Threads, QueryLatest(t) PROVE TypeOK'
  BY <1>1 DEF QueryLatest, Return, Began, shared
<1>2. ASSUME NEW t \in Threads, QueryEmpty(t) PROVE TypeOK'
  BY <1>2 DEF QueryEmpty, Began, shared
<1>3. ASSUME NEW t \in Threads, FastHit(t) PROVE TypeOK'
  BY <1>3 DEF FastHit, Return, Began, shared, Fresh, IsExpired, Entering
<1>4. ASSUME NEW t \in Threads, FastMiss(t) PROVE TypeOK'
  BY <1>4 DEF FastMiss, Began, shared, Entering
<1>5. ASSUME NEW t \in Threads, LoopHit(t) PROVE TypeOK'
  BY <1>5 DEF LoopHit, Return, shared, Fresh, IsExpired, AtLoop
<1>6. ASSUME NEW t \in Threads, LoopError(t) PROVE TypeOK'
  BY <1>6 DEF LoopError, RefreshEnded, Return, shared, AtLoop, Observed
<1>7. ASSUME NEW t \in Threads, StartRefresh(t) PROVE TypeOK'
  BY <1>7 DEF StartRefresh, MayRefresh, AtLoop, Observed
<1>8. ASSUME NEW t \in Threads, Merge(t) PROVE TypeOK'
  BY <1>8 DEF Merge, shared, AtLoop, Observed
<1>9. ASSUME NEW t \in Threads, SpuriousWakeup(t) PROVE TypeOK'
  BY <1>9 DEF SpuriousWakeup, shared
<1>10. ASSUME NEW t \in Threads, CollectOk(t) PROVE TypeOK'
  BY <1>10 DEF CollectOk, shared
<1>11. ASSUME NEW t \in Threads, CollectErr(t) PROVE TypeOK'
  BY <1>11 DEF CollectErr, shared
<1>12. ASSUME NEW t \in Threads, Store(t) PROVE TypeOK'
  <2>1. entry' \in Instants
    BY <1>12, ReplyShape DEF Store
  <2> QED
    BY <1>12, <2>1 DEF Store
<1>13. ASSUME NEW t \in Threads, FinishOk(t) PROVE TypeOK'
  <2>1. result[t] \in Replies /\ result[t].kind = "ok"
    BY <1>13 DEF FinishOk
  <2>2. generation' \in 0..(GenMod - 1) /\ lastError' \in Codes \cup {NoCode}
    BY <1>13, <2>1, GenerationWraps DEF FinishOk, FinishRefresh, NextGeneration, NotifyAll
  <2>3. /\ pc' \in [Threads -> {"idle", "enter", "miss", "waiting", "woken"} \cup Refreshing]
        /\ observed' \in [Threads -> 0..(GenMod - 1)]
    BY <1>13 DEF FinishOk, FinishRefresh, NextGeneration, NotifyAll
  <2>4. reply' \in [Threads -> Replies] /\ result' \in [Threads -> Replies]
    BY <1>13, <2>1 DEF FinishOk, FinishRefresh, NextGeneration, NotifyAll
  <2>5. failed' \in [Threads -> SUBSET Codes]
    BY <1>13, <2>1 DEF FinishOk, FinishRefresh, NextGeneration, NotifyAll
  <2> QED
    BY <1>13, <2>2, <2>3, <2>4, <2>5 DEF FinishOk, FinishRefresh, NextGeneration, NotifyAll
<1>14. ASSUME NEW t \in Threads, FinishErr(t) PROVE TypeOK'
  <2>1. result[t] \in Replies /\ result[t].code \in Codes
    BY <1>14 DEF FinishErr
  <2>2. generation' \in 0..(GenMod - 1) /\ lastError' \in Codes \cup {NoCode}
    BY <1>14, <2>1, GenerationWraps DEF FinishErr, FinishRefresh, NextGeneration, NotifyAll
  <2>3. /\ pc' \in [Threads -> {"idle", "enter", "miss", "waiting", "woken"} \cup Refreshing]
        /\ observed' \in [Threads -> 0..(GenMod - 1)]
    BY <1>14 DEF FinishErr, FinishRefresh, NextGeneration, NotifyAll
  <2>4. reply' \in [Threads -> Replies] /\ result' \in [Threads -> Replies]
    BY <1>14, <2>1 DEF FinishErr, FinishRefresh, NextGeneration, NotifyAll
  <2>5. failed' \in [Threads -> SUBSET Codes]
    BY <1>14, <2>1 DEF FinishErr, FinishRefresh, NextGeneration, NotifyAll
  <2> QED
    BY <1>14, <2>2, <2>3, <2>4, <2>5 DEF FinishErr, FinishRefresh, NextGeneration, NotifyAll
<1>15. CASE Tick
  BY <1>15 DEF Tick, shared
<1>16. CASE UNCHANGED vars
  BY <1>16 DEF vars, shared
<1> QED
  BY <1>1, <1>2, <1>3, <1>4, <1>5, <1>6, <1>7, <1>8, <1>9, <1>10, <1>11, <1>12, <1>13,
    <1>14, <1>15, <1>16
    DEF Next, Call, Step

(* Only a thread that finds in_flight clear becomes the refresher. *)
LEMMA FlightStep == IInv /\ [Next]_vars => SingleCollector'
<1> SUFFICES ASSUME IInv, [Next]_vars PROVE SingleCollector'
  OBVIOUS
<1> USE ConstantsAssumption DEF IInv, TypeOK, SingleCollector, NoLostWakeup, Refreshing
<1>1. ASSUME NEW t \in Threads, QueryLatest(t) PROVE SingleCollector'
  BY <1>1 DEF QueryLatest, Return, Began, shared
<1>2. ASSUME NEW t \in Threads, QueryEmpty(t) PROVE SingleCollector'
  BY <1>2 DEF QueryEmpty, Began, shared
<1>3. ASSUME NEW t \in Threads, FastHit(t) PROVE SingleCollector'
  BY <1>3 DEF FastHit, Return, Began, shared, Fresh, IsExpired, Entering
<1>4. ASSUME NEW t \in Threads, FastMiss(t) PROVE SingleCollector'
  BY <1>4 DEF FastMiss, Began, shared, Entering
<1>5. ASSUME NEW t \in Threads, LoopHit(t) PROVE SingleCollector'
  BY <1>5 DEF LoopHit, Return, shared, Fresh, IsExpired, AtLoop
<1>6. ASSUME NEW t \in Threads, LoopError(t) PROVE SingleCollector'
  BY <1>6 DEF LoopError, RefreshEnded, Return, shared, AtLoop, Observed
<1>7. ASSUME NEW t \in Threads, StartRefresh(t) PROVE SingleCollector'
  BY <1>7 DEF StartRefresh, MayRefresh, AtLoop, Observed
<1>8. ASSUME NEW t \in Threads, Merge(t) PROVE SingleCollector'
  BY <1>8 DEF Merge, shared, AtLoop, Observed
<1>9. ASSUME NEW t \in Threads, SpuriousWakeup(t) PROVE SingleCollector'
  BY <1>9 DEF SpuriousWakeup, shared
<1>10. ASSUME NEW t \in Threads, CollectOk(t) PROVE SingleCollector'
  BY <1>10 DEF CollectOk, shared
<1>11. ASSUME NEW t \in Threads, CollectErr(t) PROVE SingleCollector'
  BY <1>11 DEF CollectErr, shared
<1>12. ASSUME NEW t \in Threads, Store(t) PROVE SingleCollector'
  BY <1>12 DEF Store
<1>13. ASSUME NEW t \in Threads, FinishOk(t) PROVE SingleCollector'
  BY <1>13 DEF FinishOk, FinishRefresh, NextGeneration, NotifyAll
<1>14. ASSUME NEW t \in Threads, FinishErr(t) PROVE SingleCollector'
  BY <1>14 DEF FinishErr, FinishRefresh, NextGeneration, NotifyAll
<1>15. CASE Tick
  BY <1>15 DEF Tick, shared
<1>16. CASE UNCHANGED vars
  BY <1>16 DEF vars, shared
<1> QED
  BY <1>1, <1>2, <1>3, <1>4, <1>5, <1>6, <1>7, <1>8, <1>9, <1>10, <1>11, <1>12, <1>13,
    <1>14, <1>15, <1>16
    DEF Next, Call, Step

(* A thread goes to sleep only while a refresh is in flight. *)
LEMMA WakeupStep == IInv /\ [Next]_vars => NoLostWakeup'
<1> SUFFICES ASSUME IInv, [Next]_vars PROVE NoLostWakeup'
  OBVIOUS
<1> USE ConstantsAssumption DEF IInv, TypeOK, SingleCollector, NoLostWakeup, Refreshing
<1>1. ASSUME NEW t \in Threads, QueryLatest(t) PROVE NoLostWakeup'
  BY <1>1 DEF QueryLatest, Return, Began, shared
<1>2. ASSUME NEW t \in Threads, QueryEmpty(t) PROVE NoLostWakeup'
  BY <1>2 DEF QueryEmpty, Began, shared
<1>3. ASSUME NEW t \in Threads, FastHit(t) PROVE NoLostWakeup'
  BY <1>3 DEF FastHit, Return, Began, shared, Fresh, IsExpired, Entering
<1>4. ASSUME NEW t \in Threads, FastMiss(t) PROVE NoLostWakeup'
  BY <1>4 DEF FastMiss, Began, shared, Entering
<1>5. ASSUME NEW t \in Threads, LoopHit(t) PROVE NoLostWakeup'
  BY <1>5 DEF LoopHit, Return, shared, Fresh, IsExpired, AtLoop
<1>6. ASSUME NEW t \in Threads, LoopError(t) PROVE NoLostWakeup'
  BY <1>6 DEF LoopError, RefreshEnded, Return, shared, AtLoop, Observed
<1>7. ASSUME NEW t \in Threads, StartRefresh(t) PROVE NoLostWakeup'
  BY <1>7 DEF StartRefresh, MayRefresh, AtLoop, Observed
<1>8. ASSUME NEW t \in Threads, Merge(t) PROVE NoLostWakeup'
  BY <1>8 DEF Merge, shared, AtLoop, Observed
<1>9. ASSUME NEW t \in Threads, SpuriousWakeup(t) PROVE NoLostWakeup'
  BY <1>9 DEF SpuriousWakeup, shared
<1>10. ASSUME NEW t \in Threads, CollectOk(t) PROVE NoLostWakeup'
  BY <1>10 DEF CollectOk, shared
<1>11. ASSUME NEW t \in Threads, CollectErr(t) PROVE NoLostWakeup'
  BY <1>11 DEF CollectErr, shared
<1>12. ASSUME NEW t \in Threads, Store(t) PROVE NoLostWakeup'
  BY <1>12 DEF Store
<1>13. ASSUME NEW t \in Threads, FinishOk(t) PROVE NoLostWakeup'
  BY <1>13 DEF FinishOk, FinishRefresh, NextGeneration, NotifyAll
<1>14. ASSUME NEW t \in Threads, FinishErr(t) PROVE NoLostWakeup'
  BY <1>14 DEF FinishErr, FinishRefresh, NextGeneration, NotifyAll
<1>15. CASE Tick
  BY <1>15 DEF Tick, shared
<1>16. CASE UNCHANGED vars
  BY <1>16 DEF vars, shared
<1> QED
  BY <1>1, <1>2, <1>3, <1>4, <1>5, <1>6, <1>7, <1>8, <1>9, <1>10, <1>11, <1>12, <1>13,
    <1>14, <1>15, <1>16
    DEF Next, Call, Step

(* Stamps follow the clock. *)
LEMMA StampsStep == IInv /\ [Next]_vars => Stamps'
<1> SUFFICES ASSUME IInv, [Next]_vars PROVE Stamps'
  OBVIOUS
<1> USE ConstantsAssumption, ReplyMade DEF IInv, TypeOK, Stamps, SingleCollector, Refreshing, Instants
<1>1. ASSUME NEW t \in Threads, QueryLatest(t) PROVE Stamps'
  BY <1>1 DEF QueryLatest, Return, Began, shared
<1>2. ASSUME NEW t \in Threads, QueryEmpty(t) PROVE Stamps'
  BY <1>2 DEF QueryEmpty, Began, shared
<1>3. ASSUME NEW t \in Threads, FastHit(t) PROVE Stamps'
  BY <1>3 DEF FastHit, Return, Began, shared, Fresh, IsExpired, Entering
<1>4. ASSUME NEW t \in Threads, FastMiss(t) PROVE Stamps'
  BY <1>4 DEF FastMiss, Began, shared, Entering
<1>5. ASSUME NEW t \in Threads, LoopHit(t) PROVE Stamps'
  BY <1>5 DEF LoopHit, Return, shared, Fresh, IsExpired, AtLoop
<1>6. ASSUME NEW t \in Threads, LoopError(t) PROVE Stamps'
  BY <1>6 DEF LoopError, RefreshEnded, Return, shared, AtLoop, Observed
<1>7. ASSUME NEW t \in Threads, StartRefresh(t) PROVE Stamps'
  BY <1>7 DEF StartRefresh, MayRefresh, AtLoop, Observed
<1>8. ASSUME NEW t \in Threads, Merge(t) PROVE Stamps'
  BY <1>8 DEF Merge, shared, AtLoop, Observed
<1>9. ASSUME NEW t \in Threads, SpuriousWakeup(t) PROVE Stamps'
  BY <1>9 DEF SpuriousWakeup, shared
<1>10. ASSUME NEW t \in Threads, CollectOk(t) PROVE Stamps'
  BY <1>10 DEF CollectOk, shared
<1>11. ASSUME NEW t \in Threads, CollectErr(t) PROVE Stamps'
  BY <1>11 DEF CollectErr, shared
<1>12. ASSUME NEW t \in Threads, Store(t) PROVE Stamps'
  <2>1. entry' \in Instants /\ entry' = result[t].at /\ entry' <= clock
    BY <1>12, ReplyShape DEF Store
  <2>2. \A s \in Threads : pc'[s] \in {"collected", "stored"} => s = t
    BY <1>12 DEF Store
  <2> QED
    BY <1>12, <2>1, <2>2 DEF Store
<1>13. ASSUME NEW t \in Threads, FinishOk(t) PROVE Stamps'
  BY <1>13 DEF FinishOk, FinishRefresh, NextGeneration, NotifyAll
<1>14. ASSUME NEW t \in Threads, FinishErr(t) PROVE Stamps'
  BY <1>14 DEF FinishErr, FinishRefresh, NextGeneration, NotifyAll
<1>15. CASE Tick
  <2>1. \A t \in Threads : pc[t] \in {"collected", "stored"} => result[t].at \in Instants
    BY ReplyShape
  <2>2. clock' \in Nat /\ clock < clock' /\ clock \in Nat
    BY <1>15 DEF Tick
  <2> QED
    BY <1>15, <2>1, <2>2 DEF Tick, shared
<1>16. CASE UNCHANGED vars
  BY <1>16 DEF vars, shared
<1> QED
  BY <1>1, <1>2, <1>3, <1>4, <1>5, <1>6, <1>7, <1>8, <1>9, <1>10, <1>11, <1>12, <1>13,
    <1>14, <1>15, <1>16
    DEF Next, Call, Step

(* A new error reaches every thread inside a call. *)
LEMMA WaitersStep == IInv /\ [Next]_vars => ErrorsReachWaiters'
<1> SUFFICES ASSUME IInv, [Next]_vars PROVE ErrorsReachWaiters'
  OBVIOUS
<1> USE ConstantsAssumption DEF IInv, TypeOK, ErrorsReachWaiters, NoLostWakeup, Stamps, SingleCollector, Refreshing
<1>1. ASSUME NEW t \in Threads, QueryLatest(t) PROVE ErrorsReachWaiters'
  BY <1>1 DEF QueryLatest, Return, Began, shared
<1>2. ASSUME NEW t \in Threads, QueryEmpty(t) PROVE ErrorsReachWaiters'
  BY <1>2 DEF QueryEmpty, Began, shared
<1>3. ASSUME NEW t \in Threads, FastHit(t) PROVE ErrorsReachWaiters'
  BY <1>3 DEF FastHit, Return, Began, shared, Fresh, IsExpired, Entering
<1>4. ASSUME NEW t \in Threads, FastMiss(t) PROVE ErrorsReachWaiters'
  BY <1>4 DEF FastMiss, Began, shared, Entering
<1>5. ASSUME NEW t \in Threads, LoopHit(t) PROVE ErrorsReachWaiters'
  BY <1>5 DEF LoopHit, Return, shared, Fresh, IsExpired, AtLoop
<1>6. ASSUME NEW t \in Threads, LoopError(t) PROVE ErrorsReachWaiters'
  BY <1>6 DEF LoopError, RefreshEnded, Return, shared, AtLoop, Observed
<1>7. ASSUME NEW t \in Threads, StartRefresh(t) PROVE ErrorsReachWaiters'
  BY <1>7 DEF StartRefresh, MayRefresh, AtLoop, Observed
<1>8. ASSUME NEW t \in Threads, Merge(t) PROVE ErrorsReachWaiters'
  BY <1>8 DEF Merge, shared, AtLoop, Observed
<1>9. ASSUME NEW t \in Threads, SpuriousWakeup(t) PROVE ErrorsReachWaiters'
  BY <1>9 DEF SpuriousWakeup, shared
<1>10. ASSUME NEW t \in Threads, CollectOk(t) PROVE ErrorsReachWaiters'
  BY <1>10 DEF CollectOk, shared
<1>11. ASSUME NEW t \in Threads, CollectErr(t) PROVE ErrorsReachWaiters'
  BY <1>11 DEF CollectErr, shared
<1>12. ASSUME NEW t \in Threads, Store(t) PROVE ErrorsReachWaiters'
  BY <1>12 DEF Store
<1>13. ASSUME NEW t \in Threads, FinishOk(t) PROVE ErrorsReachWaiters'
  BY <1>13 DEF FinishOk, FinishRefresh, NextGeneration, NotifyAll
<1>14. ASSUME NEW t \in Threads, FinishErr(t) PROVE ErrorsReachWaiters'
  BY <1>14 DEF FinishErr, FinishRefresh, NextGeneration, NotifyAll
<1>15. CASE Tick
  BY <1>15 DEF Tick, shared
<1>16. CASE UNCHANGED vars
  BY <1>16 DEF vars, shared
<1> QED
  BY <1>1, <1>2, <1>3, <1>4, <1>5, <1>6, <1>7, <1>8, <1>9, <1>10, <1>11, <1>12, <1>13,
    <1>14, <1>15, <1>16
    DEF Next, Call, Step

(* Replies are fresh. *)
LEMMA FreshStep == IInv /\ [Next]_vars => FreshReply'
<1> SUFFICES ASSUME IInv, [Next]_vars PROVE FreshReply'
  OBVIOUS
<1> USE ConstantsAssumption, ReplyMade DEF IInv, TypeOK, FreshReply, Stamps, Instants
<1>1. ASSUME NEW t \in Threads, QueryLatest(t) PROVE FreshReply'
  BY <1>1 DEF QueryLatest, Return, Began, shared
<1>2. ASSUME NEW t \in Threads, QueryEmpty(t) PROVE FreshReply'
  BY <1>2 DEF QueryEmpty, Began, shared
<1>3. ASSUME NEW t \in Threads, FastHit(t) PROVE FreshReply'
  BY <1>3 DEF FastHit, Return, Began, shared, Fresh, IsExpired, Entering
<1>4. ASSUME NEW t \in Threads, FastMiss(t) PROVE FreshReply'
  BY <1>4 DEF FastMiss, Began, shared, Entering
<1>5. ASSUME NEW t \in Threads, LoopHit(t) PROVE FreshReply'
  BY <1>5 DEF LoopHit, Return, shared, Fresh, IsExpired, AtLoop
<1>6. ASSUME NEW t \in Threads, LoopError(t) PROVE FreshReply'
  BY <1>6 DEF LoopError, RefreshEnded, Return, shared, AtLoop, Observed
<1>7. ASSUME NEW t \in Threads, StartRefresh(t) PROVE FreshReply'
  BY <1>7 DEF StartRefresh, MayRefresh, AtLoop, Observed
<1>8. ASSUME NEW t \in Threads, Merge(t) PROVE FreshReply'
  BY <1>8 DEF Merge, shared, AtLoop, Observed
<1>9. ASSUME NEW t \in Threads, SpuriousWakeup(t) PROVE FreshReply'
  BY <1>9 DEF SpuriousWakeup, shared
<1>10. ASSUME NEW t \in Threads, CollectOk(t) PROVE FreshReply'
  BY <1>10 DEF CollectOk, shared
<1>11. ASSUME NEW t \in Threads, CollectErr(t) PROVE FreshReply'
  BY <1>11 DEF CollectErr, shared
<1>12. ASSUME NEW t \in Threads, Store(t) PROVE FreshReply'
  BY <1>12 DEF Store
<1>13. ASSUME NEW t \in Threads, FinishOk(t) PROVE FreshReply'
  <2>1. result[t].at \in Instants /\ since[t] \in Instants /\ since[t] <= result[t].at
    BY <1>13, ReplyShape DEF FinishOk
  <2>2. result[t].at + TTL > since[t]
    BY <2>1, StillFresh
  <2> QED
    BY <1>13, <2>2 DEF FinishOk, FinishRefresh, NotifyAll, Threads
<1>14. ASSUME NEW t \in Threads, FinishErr(t) PROVE FreshReply'
  BY <1>14 DEF FinishErr, FinishRefresh, NextGeneration, NotifyAll
<1>15. CASE Tick
  BY <1>15 DEF Tick, shared
<1>16. CASE UNCHANGED vars
  BY <1>16 DEF vars, shared
<1> QED
  BY <1>1, <1>2, <1>3, <1>4, <1>5, <1>6, <1>7, <1>8, <1>9, <1>10, <1>11, <1>12, <1>13,
    <1>14, <1>15, <1>16
    DEF Next, Call, Step

(* Replied errors are current. *)
LEMMA CurrentStep == IInv /\ [Next]_vars => ErrorIsCurrent'
<1> SUFFICES ASSUME IInv, [Next]_vars PROVE ErrorIsCurrent'
  OBVIOUS
<1> USE ConstantsAssumption, ReplyMade DEF IInv, TypeOK, ErrorIsCurrent, ErrorsReachWaiters, Stamps, Instants
<1>1. ASSUME NEW t \in Threads, QueryLatest(t) PROVE ErrorIsCurrent'
  BY <1>1 DEF QueryLatest, Return, Began, shared
<1>2. ASSUME NEW t \in Threads, QueryEmpty(t) PROVE ErrorIsCurrent'
  BY <1>2 DEF QueryEmpty, Began, shared
<1>3. ASSUME NEW t \in Threads, FastHit(t) PROVE ErrorIsCurrent'
  BY <1>3 DEF FastHit, Return, Began, shared, Fresh, IsExpired, Entering
<1>4. ASSUME NEW t \in Threads, FastMiss(t) PROVE ErrorIsCurrent'
  BY <1>4 DEF FastMiss, Began, shared, Entering
<1>5. ASSUME NEW t \in Threads, LoopHit(t) PROVE ErrorIsCurrent'
  BY <1>5 DEF LoopHit, Return, shared, Fresh, IsExpired, AtLoop
<1>6. ASSUME NEW t \in Threads, LoopError(t) PROVE ErrorIsCurrent'
  BY <1>6 DEF LoopError, RefreshEnded, Return, shared, AtLoop, Observed
<1>7. ASSUME NEW t \in Threads, StartRefresh(t) PROVE ErrorIsCurrent'
  BY <1>7 DEF StartRefresh, MayRefresh, AtLoop, Observed
<1>8. ASSUME NEW t \in Threads, Merge(t) PROVE ErrorIsCurrent'
  BY <1>8 DEF Merge, shared, AtLoop, Observed
<1>9. ASSUME NEW t \in Threads, SpuriousWakeup(t) PROVE ErrorIsCurrent'
  BY <1>9 DEF SpuriousWakeup, shared
<1>10. ASSUME NEW t \in Threads, CollectOk(t) PROVE ErrorIsCurrent'
  BY <1>10 DEF CollectOk, shared
<1>11. ASSUME NEW t \in Threads, CollectErr(t) PROVE ErrorIsCurrent'
  BY <1>11 DEF CollectErr, shared
<1>12. ASSUME NEW t \in Threads, Store(t) PROVE ErrorIsCurrent'
  BY <1>12 DEF Store
<1>13. ASSUME NEW t \in Threads, FinishOk(t) PROVE ErrorIsCurrent'
  BY <1>13 DEF FinishOk, FinishRefresh, NextGeneration, NotifyAll
<1>14. ASSUME NEW t \in Threads, FinishErr(t) PROVE ErrorIsCurrent'
  BY <1>14 DEF FinishErr, FinishRefresh, NextGeneration, NotifyAll
<1>15. CASE Tick
  BY <1>15 DEF Tick, shared
<1>16. CASE UNCHANGED vars
  BY <1>16 DEF vars, shared
<1> QED
  BY <1>1, <1>2, <1>3, <1>4, <1>5, <1>6, <1>7, <1>8, <1>9, <1>10, <1>11, <1>12, <1>13,
    <1>14, <1>15, <1>16
    DEF Next, Call, Step

(* The inductive invariant holds in every reachable state. *)
THEOREM InductiveInvariant == Spec => []IInv
<1>1. IInv /\ [Next]_vars => IInv'
  BY TypeStep, FlightStep, WakeupStep, StampsStep, WaitersStep, FreshStep,
     CurrentStep DEF IInv
<1> QED
  BY InitIInv, <1>1, PTL DEF Spec

(* Type correctness of the cache. *)
THEOREM TypeCorrect == Spec => []TypeOK
<1>1. IInv => TypeOK
  BY DEF IInv
<1> QED
  BY InductiveInvariant, <1>1, PTL

(* get_or_refresh never runs two collections at once. *)
THEOREM OneCollector == Spec => []SingleCollector
<1>1. IInv => SingleCollector
  BY DEF IInv
<1> QED
  BY InductiveInvariant, <1>1, PTL

(* No thread sleeps on the condition variable without a refresher that     *)
(* will notify it, whatever the width of the generation counter.           *)
THEOREM WakeupsNotLost == Spec => []NoLostWakeup
<1>1. IInv => NoLostWakeup
  BY DEF IInv
<1> QED
  BY InductiveInvariant, <1>1, PTL

(* get_or_refresh never answers with a snapshot that had expired before    *)
(* the call.                                                               *)
THEOREM RepliesAreFresh == Spec => []FreshReply
<1>1. IInv => FreshReply
  BY DEF IInv
<1> QED
  BY InductiveInvariant, <1>1, PTL

(* An error reported by get_or_refresh is one of a refresh that ended      *)
(* during the call.                                                        *)
THEOREM ErrorsAreCurrent == Spec => []ErrorIsCurrent
<1>1. IInv => ErrorIsCurrent
  BY DEF IInv
<1> QED
  BY InductiveInvariant, <1>1, PTL

(* store() never replaces the entry by an older one.                       *)
THEOREM EntryMonotone == Spec => EntryNeverRegresses
<1>1. IInv /\ [Next]_vars
        => [entry # NoEntry => entry' # NoEntry /\ entry' >= entry]_vars
  <2> SUFFICES ASSUME IInv, [Next]_vars, entry # NoEntry
               PROVE  entry' # NoEntry /\ entry' >= entry
    OBVIOUS
  <2> USE ConstantsAssumption DEF IInv, TypeOK, Stamps, Instants
  <2>1. ASSUME NEW t \in Threads, Store(t)
        PROVE  entry' # NoEntry /\ entry' >= entry
    BY <2>1, ReplyShape DEF Store
  <2>2. CASE UNCHANGED entry
    BY <2>2
  <2> QED
    BY <2>1, <2>2 DEF Next, Call, Step, Tick, vars, shared, QueryLatest, QueryEmpty,
       FastHit, FastMiss, LoopHit, LoopError, StartRefresh, Merge, SpuriousWakeup,
       CollectOk, CollectErr, FinishOk, FinishErr, FinishRefresh
<1> QED
  BY InductiveInvariant, <1>1, PTL DEF Spec, EntryNeverRegresses

-----------------------------------------------------------------------------
(* Refinement of SingleFlight. *)
Flying == {t \in Threads : pc[t] \in Refreshing}
Joined == {t \in Threads : pc[t] = "waiting"}

(* A step that moves no thread in or out of Refreshing and "waiting" and   *)
(* keeps the entry is invisible to SingleFlight.                           *)
LEMMA Invisible ==
    ASSUME \A s \in Threads : /\ pc'[s] \in Refreshing <=> pc[s] \in Refreshing
                              /\ pc'[s] = "waiting" <=> pc[s] = "waiting",
           entry' = entry
    PROVE  UNCHANGED Flight!sfVars
<1>1. Flying' = Flying /\ Joined' = Joined
  BY DEF Flying, Joined
<1> QED
  BY <1>1 DEF Flight!sfVars, Flying, Joined

(* Every step of the cache is a step of SingleFlight, or invisible. *)
LEMMA FlightSimulation == IInv /\ [Next]_vars => [Flight!Next]_(Flight!sfVars)
<1> SUFFICES ASSUME IInv, [Next]_vars PROVE [Flight!Next]_(Flight!sfVars)
  OBVIOUS
<1> USE DEF IInv, TypeOK, Refreshing
<1>1. ASSUME NEW t \in Threads, StartRefresh(t) PROVE Flight!Next
  <2>1. Flying = {} /\ Joined = {}
    BY <1>1 DEF StartRefresh, MayRefresh, SingleCollector, NoLostWakeup, Flying, Joined
  <2>2. Flying' = {t} /\ Joined' = {}
    BY <1>1, <2>1 DEF StartRefresh, AtLoop, Flying, Joined
  <2>3. Flight!TakeOff(t)
    BY <1>1, <2>1, <2>2 DEF StartRefresh, Flight!TakeOff, Flying, Joined
  <2> QED
    BY <2>3 DEF Flight!Next
<1>2. ASSUME NEW t \in Threads, Merge(t) PROVE Flight!Next
  <2>1. Flying # {} /\ t \notin Flying
    BY <1>2 DEF Merge, SingleCollector, AtLoop, Flying
  <2>2. Flying' = Flying /\ Joined' = Joined \cup {t}
    BY <1>2 DEF Merge, AtLoop, Flying, Joined
  <2>3. Flight!Join(t)
    BY <1>2, <2>1, <2>2 DEF Merge, shared, Flight!Join, Flying, Joined
  <2> QED
    BY <2>3 DEF Flight!Next
<1>3. ASSUME NEW t \in Threads, SpuriousWakeup(t) PROVE Flight!Next
  <2>1. Flying' = Flying /\ t \in Joined /\ Joined' = Joined \ {t}
    BY <1>3 DEF SpuriousWakeup, Flying, Joined
  <2>2. Flight!Stir(t)
    BY <1>3, <2>1 DEF SpuriousWakeup, shared, Flight!Stir, Flying, Joined
  <2> QED
    BY <2>2 DEF Flight!Next
<1>4. ASSUME NEW t \in Threads, Store(t) PROVE Flight!Next
  <2>1. Flying # {} /\ Flying' = Flying /\ Joined' = Joined
    BY <1>4 DEF Store, Flying, Joined
  <2>2. entry' \in Nat /\ (entry # NoEntry => entry' >= entry)
    BY <1>4, ReplyShape, ConstantsAssumption DEF Store, Stamps, Instants
  <2>3. Flight!Publish
    BY <2>1, <2>2 DEF Flight!Publish, Flying, Joined
  <2> QED
    BY <2>3 DEF Flight!Next
<1>5. ASSUME NEW t \in Threads, FinishOk(t) \/ FinishErr(t) PROVE Flight!Next
  <2>1. Flying = {t} /\ Flying' = {} /\ Joined' = {}
    BY <1>5
      DEF FinishOk, FinishErr, FinishRefresh, NotifyAll, SingleCollector, Flying, Joined
  <2>2. Flight!Land
    BY <1>5, <2>1 DEF FinishOk, FinishErr, FinishRefresh, Flight!Land, Flying, Joined
  <2> QED
    BY <2>2 DEF Flight!Next
<1>6. ASSUME NEW t \in Threads,
             QueryLatest(t) \/ QueryEmpty(t) \/ FastHit(t) \/ FastMiss(t)
               \/ LoopHit(t) \/ LoopError(t) \/ CollectOk(t) \/ CollectErr(t)
      PROVE  UNCHANGED Flight!sfVars
  BY <1>6, Invisible DEF QueryLatest, QueryEmpty, FastHit, FastMiss, LoopHit,
     LoopError, CollectOk, CollectErr, Return, Entering, AtLoop, shared
<1>7. CASE Tick \/ UNCHANGED vars
  BY <1>7, Invisible DEF Tick, vars, shared
<1> QED
  BY <1>1, <1>2, <1>3, <1>4, <1>5, <1>6, <1>7 DEF Next, Call, Step

(* The cache implements SingleFlight: collections one at a time, waiters   *)
(* bound to the collection they joined, snapshots published in order.      *)
THEOREM CacheImplementsSingleFlight == Spec => ImplementsSingleFlight
<1>1. Init => Flight!Init
  BY DEF Init, Flight!Init, Refreshing
<1> QED
  BY InductiveInvariant, FlightSimulation, <1>1, PTL
  DEF Spec, ImplementsSingleFlight, Flight!Spec

-----------------------------------------------------------------------------
(* Callers that were merged. *)

(* Refreshes done so far, at most: a successful one moves the entry on, a   *)
(* failed one is counted.                                                   *)
Used == failures + (IF entry = NoEntry THEN 0 ELSE entry + 1)

(* The counter has not come round: a thread that joined a refresh is behind *)
(* it, or the refresh is still under way.                                   *)
Counting ==
    /\ generation <= Used
    /\ \A t \in Threads :
        /\ pc[t] \in {"failed", "stored"} => generation + 1 <= Used
        /\ pc[t] = "collecting" => entry = NoEntry \/ entry < clock
        /\ pc[t] = "collected" => entry = NoEntry \/ entry < result[t].at
        /\ pc[t] \in {"waiting", "woken"} =>
              observed[t] < generation \/ (observed[t] = generation /\ inFlight)

(* Time and failures are used up: nobody refreshes any more. *)
Exhausted == ~inFlight /\ entry = MaxClock /\ failures = MaxFailures

Enough == GenMod >= MaxClock + MaxFailures + 1

(* There are no more refreshes than time and failures allow. *)
LEMMA UsedBounded ==
    ASSUME TypeOK
    PROVE  Used \in Nat /\ Used <= MaxFailures + MaxClock + 1
<1>1. /\ failures \in 0..MaxFailures /\ MaxFailures \in Nat /\ MaxClock \in Nat
      /\ entry \in 0..MaxClock \/ entry = NoEntry
  BY ConstantsAssumption DEF TypeOK, Instants
<1> QED
  BY <1>1 DEF Used

(* With nobody refreshing, an entry of the last instant is fresh for good.  *)
LEMMA ExhaustedStep == IInv /\ Exhausted /\ [Next]_vars => Exhausted'
<1> SUFFICES ASSUME IInv, Exhausted, [Next]_vars PROVE Exhausted'
  OBVIOUS
<1>1. \A t \in Threads : pc[t] \notin Refreshing
  BY DEF IInv, SingleCollector, Exhausted
<1>2. Fresh
  <2>1. /\ clock \in 0..MaxClock /\ MaxClock \in Nat /\ TTL \in Nat \ {0} /\ entry = MaxClock
        /\ NoEntry \notin Nat /\ (entry # NoEntry => entry <= clock)
    BY ConstantsAssumption DEF IInv, TypeOK, Instants, Stamps, Exhausted
  <2>2. entry # NoEntry /\ clock - entry < TTL
    BY <2>1
  <2> QED
    BY <2>1, <2>2 DEF Fresh, IsExpired
<1>3. UNCHANGED <<entry, inFlight, failures>>
  BY <1>1, <1>2 DEF Next, Call, Step, Tick, vars, shared, Refreshing, QueryLatest, QueryEmpty,
     FastHit, FastMiss, LoopHit, LoopError, StartRefresh, Merge, SpuriousWakeup, CollectOk,
     CollectErr, Store, FinishOk, FinishErr
<1> QED
  BY <1>3 DEF Exhausted

(* The end of a refresh: the counter moves on, or all is used up. *)
LEMMA FinishCounts ==
    ASSUME IInv, Enough, Counting, NEW t \in Threads, pc[t] \in {"failed", "stored"},
           inFlight' = FALSE, generation' = NextGeneration, pc' = NotifyAll(t),
           observed' = [observed EXCEPT ![t] = 0], UNCHANGED <<clock, entry, failures>>
    PROVE  Counting' \/ Exhausted'
<1>1. /\ generation \in 0..(GenMod - 1) /\ GenMod \in Nat \ {0} /\ generation + 1 <= Used
      /\ MaxFailures \in Nat /\ MaxClock \in Nat /\ failures \in 0..MaxFailures
      /\ entry \in 0..MaxClock \/ entry = NoEntry
  BY ConstantsAssumption DEF IInv, TypeOK, Instants, Counting
<1>2. Used \in Nat /\ Used <= MaxFailures + MaxClock + 1 /\ Used' = Used
  BY UsedBounded DEF IInv, Used
<1>3. CASE generation + 1 < GenMod
  <2>1. generation' = generation + 1
    BY <1>1, <1>3 DEF NextGeneration
  <2>2. \A s \in Threads : pc'[s] \notin Refreshing
    BY DEF NotifyAll, IInv, SingleCollector, Refreshing, TypeOK
  <2>3. ASSUME NEW s \in Threads, pc'[s] \in {"waiting", "woken"}
        PROVE  observed'[s] < generation'
    <3>1. s # t /\ pc[s] \in {"waiting", "woken"}
      BY <2>3 DEF NotifyAll
    <3>2. observed'[s] = observed[s] /\ observed[s] \in 0..(GenMod - 1)
      BY <3>1 DEF IInv, TypeOK
    <3>3. observed[s] <= generation
      BY <1>1, <3>1, <3>2 DEF Counting
    <3> QED
      BY <1>1, <2>1, <3>2, <3>3
  <2>4. generation' <= Used'
    BY <1>1, <1>2, <2>1
  <2> QED
    BY <2>2, <2>3, <2>4 DEF Counting, Refreshing
<1>4. CASE generation + 1 = GenMod
  <2>1. Used = MaxFailures + MaxClock + 1
    BY <1>1, <1>2, <1>4 DEF Enough
  <2>2. failures = MaxFailures /\ entry = MaxClock
    BY <1>1, <2>1 DEF Used
  <2> QED
    BY <2>2 DEF Exhausted
<1> QED
  BY <1>1, <1>3, <1>4

(* As long as refreshes are left, no sleeper sees its generation again. *)
LEMMA CountingStep == IInv /\ Enough /\ Counting /\ [Next]_vars => Counting' \/ Exhausted'
<1> SUFFICES ASSUME IInv, Enough, Counting, [Next]_vars PROVE Counting' \/ Exhausted'
  OBVIOUS
<1>0. /\ TypeOK /\ SingleCollector /\ Stamps /\ clock \in Nat /\ generation \in Nat
      /\ (entry # NoEntry => entry \in Nat) /\ NoEntry \notin Nat /\ failures \in Nat
      /\ TTL \in Nat \ {0}
  BY ConstantsAssumption DEF IInv, TypeOK, Instants
<1>1. ASSUME NEW t \in Threads, FinishOk(t) \/ FinishErr(t) PROVE Counting' \/ Exhausted'
  BY <1>1, FinishCounts DEF FinishOk, FinishErr, FinishRefresh
<1>2. ASSUME NEW t \in Threads, Store(t) PROVE Counting'
  <2>1. result[t].at \in Nat /\ entry' = result[t].at /\ (entry = NoEntry \/ entry < result[t].at)
    BY <1>0, <1>2, ReplyShape DEF Store, Stamps, Counting, TypeOK, Instants
  <2>2. Used' \in Nat /\ Used + 1 <= Used'
    BY <1>0, <1>2, <2>1 DEF Used, Store
  <2>3. generation' = generation /\ generation <= Used /\ Used \in Nat
    BY <1>0, <1>2, UsedBounded DEF Store, Counting
  <2>4. generation' + 1 <= Used'
    BY <1>0, <2>2, <2>3
  <2>5. \A s \in Threads : s # t => pc'[s] = pc[s] /\ pc[s] \notin Refreshing
    BY <1>0, <1>2 DEF Store, SingleCollector, Refreshing, TypeOK
  <2>6. pc'[t] = "stored" /\ UNCHANGED <<observed, inFlight, generation>>
    BY <1>0, <1>2 DEF Store, TypeOK
  <2> QED
    BY <1>0, <2>2, <2>3, <2>4, <2>5, <2>6 DEF Counting, Refreshing
<1>3. ASSUME NEW t \in Threads, CollectErr(t) PROVE Counting'
  <2>1. Used' = Used + 1 /\ Used \in Nat /\ generation <= Used /\ generation' = generation
    BY <1>0, <1>3, UsedBounded DEF CollectErr, Used, shared, Counting
  <2>2. generation' + 1 <= Used' /\ generation' <= Used'
    BY <1>0, <2>1
  <2>3. \A s \in Threads : s # t => pc'[s] = pc[s] /\ pc[s] \notin Refreshing
    BY <1>0, <1>3 DEF CollectErr, SingleCollector, Refreshing, TypeOK
  <2>4. pc'[t] = "failed" /\ UNCHANGED <<observed, inFlight, generation>>
    BY <1>0, <1>3 DEF CollectErr, TypeOK, shared
  <2> QED
    BY <2>2, <2>3, <2>4 DEF Counting, Refreshing
<1>4. ASSUME NEW t \in Threads, CollectOk(t) PROVE Counting'
  <2>1. /\ pc[t] = "collecting" /\ pc'[t] = "collected" /\ result'[t] = Ok(clock)
        /\ UNCHANGED <<entry, inFlight, generation, observed, failures, clock>> /\ Used' = Used
    BY <1>0, <1>4 DEF CollectOk, TypeOK, shared, Used
  <2>2. entry' = NoEntry \/ entry' < result'[t].at
    BY <2>1 DEF Counting, Ok
  <2>3. \A s \in Threads : s # t => pc'[s] = pc[s] /\ pc[s] \notin Refreshing
    BY <1>0, <1>4 DEF CollectOk, SingleCollector, Refreshing, TypeOK
  <2> QED
    BY <2>1, <2>2, <2>3 DEF Counting, Refreshing
<1>5. ASSUME NEW t \in Threads, StartRefresh(t) PROVE Counting'
  <2>1. /\ pc'[t] = "collecting" /\ inFlight' = TRUE
        /\ \A s \in Threads : s # t => /\ pc'[s] = pc[s] /\ pc[s] \notin Refreshing
                                       /\ observed'[s] = observed[s]
    BY <1>0, <1>5 DEF StartRefresh, MayRefresh, TypeOK, SingleCollector
  <2>2. UNCHANGED <<entry, generation, failures, clock>> /\ Used' = Used
    BY <1>5 DEF StartRefresh, Used
  <2>3. entry = NoEntry \/ entry < clock
    BY <1>0, <1>5 DEF StartRefresh, Fresh, IsExpired
  <2> QED
    BY <2>1, <2>2, <2>3 DEF Counting, Refreshing
<1>6. ASSUME NEW t \in Threads, Merge(t) PROVE Counting'
  <2>1. /\ pc'[t] = "waiting" /\ observed'[t] = generation /\ inFlight
        /\ \A s \in Threads : s # t => pc'[s] = pc[s] /\ observed'[s] = observed[s]
        /\ UNCHANGED <<entry, inFlight, generation, failures, clock, result>> /\ Used' = Used
    BY <1>0, <1>6 DEF Merge, TypeOK, shared, Used
  <2> QED
    BY <2>1 DEF Counting
<1>7. CASE Tick
  <2>1. UNCHANGED <<entry, inFlight, generation, failures, result, pc, observed>> /\ Used' = Used
    BY <1>7 DEF Tick, shared, Used
  <2>2. clock' = clock + 1
    BY <1>7 DEF Tick
  <2> QED
    BY <1>0, <2>1, <2>2 DEF Counting
<1>8. ASSUME NEW t \in Threads, UNCHANGED <<entry, inFlight, generation, failures, clock>>,
             \A s \in Threads : s # t => /\ pc'[s] = pc[s] /\ result'[s] = result[s]
                                         /\ observed'[s] = observed[s],
             pc'[t] \in {"idle", "enter", "miss"}
                 \/ (pc[t] = "waiting" /\ pc'[t] = "woken" /\ observed'[t] = observed[t])
      PROVE  Counting'
  <2>1. Used' = Used
    BY <1>8 DEF Used
  <2> QED
    BY <1>8, <2>1 DEF Counting
<1>9. ASSUME NEW t \in Threads,
             \/ QueryLatest(t) \/ QueryEmpty(t) \/ FastHit(t) \/ FastMiss(t)
             \/ LoopHit(t) \/ LoopError(t) \/ SpuriousWakeup(t)
      PROVE  Counting'
  BY <1>0, <1>8, <1>9 DEF QueryLatest, QueryEmpty, FastHit, FastMiss, LoopHit, LoopError,
     SpuriousWakeup, Return, shared, TypeOK
<1>10. CASE UNCHANGED vars
  BY <1>10 DEF vars, Counting, Used
<1> QED
  BY <1>1, <1>2, <1>3, <1>4, <1>5, <1>6, <1>7, <1>9, <1>10 DEF Next, Call, Step

(* A caller that was coalesced into a refresh never collects after it, as   *)
(* long as the counter does not come round while it sleeps: get_or_refresh  *)
(* compares generations for equality only.  There may be as many refreshes  *)
(* as the counter has values.                                               *)
THEOREM MergedDoNotCollect == Enough => (Spec => MergedNeverCollects)
<1> SUFFICES ASSUME Enough PROVE Spec => MergedNeverCollects
  OBVIOUS
<1>1. Init => Counting
  BY ConstantsAssumption DEF Init, Counting, Used
<1>2. IInv /\ (Counting \/ Exhausted) /\ [Next]_vars => (Counting \/ Exhausted)'
  BY CountingStep, ExhaustedStep
<1>3. IInv /\ (Counting \/ Exhausted) /\ [Next]_vars
        => [\A t \in Threads : pc[t] = "woken" => pc'[t] # "collecting"]_vars
  <2> SUFFICES ASSUME IInv, Counting \/ Exhausted, Next, NEW t \in Threads, pc[t] = "woken",
                      pc'[t] = "collecting"
               PROVE  FALSE
    OBVIOUS
  <2>1. PICK s \in Threads : StartRefresh(s)
    BY DEF IInv, TypeOK, Next, Call, Step, Tick, Return, QueryLatest, QueryEmpty, FastHit, FastMiss,
       LoopHit, LoopError, Merge, SpuriousWakeup, CollectOk, CollectErr, Store, FinishOk, FinishErr,
       FinishRefresh, NotifyAll
  <2>2. s = t /\ generation = observed[t] /\ ~inFlight
    BY <2>1 DEF StartRefresh, MayRefresh, Observed, IInv, TypeOK
  <2>3. CASE Counting
    <3>1. observed[t] < generation /\ generation \in 0..(GenMod - 1) /\ GenMod \in Nat
      BY <2>2, <2>3, ConstantsAssumption DEF Counting, IInv, TypeOK
    <3> QED
      BY <2>2, <3>1
  <2>4. CASE Exhausted
    <3>1. Exhausted'
      BY <2>4, ExhaustedStep
    <3> QED
      BY <2>1, <3>1 DEF StartRefresh, Exhausted
  <2> QED
    BY <2>3, <2>4
<1> QED
  BY <1>1, <1>2, <1>3, InductiveInvariant, PTL DEF Spec, MergedNeverCollects
============================================================================

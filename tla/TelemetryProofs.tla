-------------------------- MODULE TelemetryProofs --------------------------
(***************************************************************************)
(* Safety of what is measured.  The telemetry cache, for any number of     *)
(* calls and queries, any lifetime and any timeouts: what it answers is    *)
(* complete and fresh, and its mutex is held for a bounded time.  The      *)
(* reports of requests, for any requests, statuses, counts and contexts:   *)
(* events and log tell what happened.  The snapshot, for any rows: its     *)
(* figures agree, and its listings do not depend on the order of a map.    *)
(***************************************************************************)
EXTENDS TelemetryCache, WideEvents, TelemetrySnapshot, FiniteSetTheorems, TLAPS

-----------------------------------------------------------------------------
(* The inductive invariant *)

\* The mutex is held by the call that refreshes.
MutexHeld == \A c \in Call : stage[c] = "refresh" <=> mu = c

\* A call is answered when it returns, and its goroutines start with its refresh.
Progress ==
    \A c \in Call :
        /\ answer[c] # None => stage[c] = "returned"
        /\ stage[c] \in {"idle", "lock"} => \A q \in Query : worker[c][q] = "none"
        /\ stage[c] = "refresh" => \A q \in Query : worker[c][q] # "none"

\* A goroutine ends when it has put its result into the channel, and what a call
\* has taken from its channel are rows.
InChannel ==
    \A c \in Call :
        /\ \A q \in Query : result[c][q] # "none" <=> worker[c][q] = "ended"
        /\ \A q \in received[c] : result[c][q] = "rows"

\* A call that has returned and whose queries all delivered was at time t.
Complete(t) ==
    \E c \in Call : /\ stage[c] = "returned" /\ at[c] = t
                    /\ \A q \in Query : result[c][q] = "rows"

\* Snapshots that are cached or were answered come from such a call, and the cached
\* one expires CacheTTL after its time.
Snapshots ==
    /\ cached # None => Complete(cached) /\ expires = cached + CacheTTL
    /\ \A c \in Call : answer[c] \in Nat => Complete(answer[c])

\* While a call refreshes, none of its goroutines is past the time by which it notices
\* that the context ended, or by which StopQuery has timed out.
Deadlines ==
    \A c \in Call : stage[c] = "refresh" =>
        /\ now <= at[c] + QueryTimeout + StopTimeout
        /\ \A q \in Query :
            /\ worker[c][q] \in {"starting", "polling"} => now <= at[c] + QueryTimeout
            /\ worker[c][q] = "stopping" => stopBy[c][q] <= at[c] + QueryTimeout + StopTimeout

IInv ==
    /\ TypeOK
    /\ MutexHeld
    /\ Progress
    /\ InChannel
    /\ Snapshots
    /\ Deadlines
    /\ AnswersFresh

\* The first call finds nothing cached.
LEMMA Initial == Init => IInv
  BY TelemetryAssumption
  DEF Init, IInv, TypeOK, MutexHeld, Progress, InChannel, Snapshots, Deadlines, AnswersFresh

-----------------------------------------------------------------------------
(* Get *)

\* What a step does to the calls that it does not concern: a snapshot that was
\* complete stays so.
LEMMA CompleteKept ==
    ASSUME NEW t, Complete(t),
           \A d \in Call : stage[d] = "returned" =>
               /\ stage'[d] = "returned" /\ at'[d] = at[d]
               /\ \A q \in Query : result[d][q] = "rows" => result'[d][q] = "rows"
    PROVE  Complete(t)'
  BY DEF Complete

\* A call begins to wait for the mutex, and its caller may go away.
LEMMA CallStep ==
    ASSUME IInv, NEW c \in Call, CallGet(c) \/ CallerLeaves(c)
    PROVE  IInv'
  <1> USE DEF IInv, TypeOK
  <1>1. /\ UNCHANGED <<now, mu, cached, expires, at, answer, received,
                       worker, stopBy, result, remote>>
        /\ \/ stage' = stage
           \/ stage[c] = "idle" /\ stage' = [stage EXCEPT ![c] = "lock"]
        /\ cancelled' \subseteq Call
    BY DEF CallGet, CallerLeaves, cache, goroutines
  <1>2. \A t : Complete(t) => Complete(t)'
    BY <1>1, CompleteKept
  <1>3. TypeOK'
    BY <1>1
  <1>4. MutexHeld' /\ Progress' /\ InChannel' /\ Deadlines' /\ AnswersFresh'
    BY <1>1 DEF MutexHeld, Progress, InChannel, Deadlines, AnswersFresh
  <1>5. Snapshots'
    BY <1>1, <1>2 DEF Snapshots
  <1>6. QED
    BY <1>3, <1>4, <1>5

\* A cached snapshot is served: its own call is complete, and it has not expired.
LEMMA ServeStep == ASSUME IInv, NEW c \in Call, ServeCached(c) PROVE IInv'
  <1> USE DEF IInv, TypeOK
  <1>1. /\ stage[c] = "lock" /\ mu = None /\ cached # None /\ now < expires
        /\ stage' = [stage EXCEPT ![c] = "returned"]
        /\ at' = [at EXCEPT ![c] = now]
        /\ answer' = [answer EXCEPT ![c] = cached]
        /\ received' = [received EXCEPT ![c] = {}]
        /\ cancelled' = cancelled \ {c} /\ mu' = None
        /\ UNCHANGED <<now, cached, expires, worker, stopBy, result, remote>>
    BY DEF ServeCached, Return, cache, goroutines
  <1>2. cached \in Nat /\ Complete(cached) /\ expires = cached + CacheTTL
    BY <1>1 DEF Snapshots
  <1>3. \A t : Complete(t) => Complete(t)'
    BY <1>1, CompleteKept
  <1>4. TypeOK'
    BY <1>1
  <1>5. MutexHeld' /\ Progress' /\ InChannel' /\ Deadlines'
    BY <1>1, TelemetryAssumption DEF MutexHeld, Progress, InChannel, Deadlines
  <1>6. Snapshots'
    BY <1>1, <1>2, <1>3 DEF Snapshots
  <1>7. AnswersFresh'
    BY <1>1, <1>2 DEF AnswersFresh
  <1>8. QED
    BY <1>4, <1>5, <1>6, <1>7

\* A refresh begins: no other call is at it, and its goroutines have just started.
LEMMA StartStep == ASSUME IInv, NEW c \in Call, StartRefresh(c) PROVE IInv'
  <1> USE DEF IInv, TypeOK
  <1>1. /\ stage[c] = "lock" /\ mu = None /\ mu' = c
        /\ stage' = [stage EXCEPT ![c] = "refresh"]
        /\ at' = [at EXCEPT ![c] = now]
        /\ worker' = [worker EXCEPT ![c] = [q \in Query |-> "starting"]]
        /\ UNCHANGED <<now, cached, expires, cancelled, answer, received, stopBy,
                       result, remote>>
    BY DEF StartRefresh, cache
  <1>2. \A t : Complete(t) => Complete(t)'
    BY <1>1, CompleteKept
  <1>3. TypeOK'
    BY <1>1
  <1>4. MutexHeld'
    BY <1>1, TelemetryAssumption DEF MutexHeld
  <1>5. Progress' /\ InChannel'
    BY <1>1 DEF Progress, InChannel
  <1>6. Deadlines'
    BY <1>1, TelemetryAssumption DEF Deadlines
  <1>7. Snapshots'
    BY <1>1, <1>2 DEF Snapshots
  <1>8. AnswersFresh'
    <2>1. answer[c] = None
      BY <1>1 DEF Progress
    <2>2. answer[c] \notin Nat
      BY <2>1, TelemetryAssumption
    <2>3. QED
      BY <1>1, <2>2 DEF AnswersFresh
  <1>9. QED
    BY <1>3, <1>4, <1>5, <1>6, <1>7, <1>8

\* A refresh returns: with an error, or with the snapshot it has just cached after
\* taking the rows of every query.
LEMMA ReturnStep ==
    ASSUME IInv, NEW c \in Call, stage[c] = "refresh", NEW a, Return(c, a),
           UNCHANGED <<now, at, goroutines>>,
           \/ a = Error /\ UNCHANGED cache
           \/ /\ a = at[c] /\ cached' = at[c] /\ expires' = at[c] + CacheTTL
              /\ received[c] = Query
    PROVE  IInv'
  <1> USE DEF IInv, TypeOK
  <1>1. /\ stage' = [stage EXCEPT ![c] = "returned"]
        /\ answer' = [answer EXCEPT ![c] = a]
        /\ received' = [received EXCEPT ![c] = {}]
        /\ cancelled' = cancelled \ {c} /\ mu' = None
        /\ UNCHANGED <<worker, stopBy, result, remote>>
    BY DEF Return, goroutines
  <1>2. \A t : Complete(t) => Complete(t)'
    BY <1>1, CompleteKept
  <1>3. a # Error => Complete(a)'
    BY <1>1 DEF Complete, InChannel, cache
  <1>4. TypeOK'
    BY <1>1, TelemetryAssumption DEF cache
  <1>5. MutexHeld'
    BY <1>1, TelemetryAssumption DEF MutexHeld
  <1>6. Progress' /\ InChannel' /\ Deadlines'
    BY <1>1 DEF Progress, InChannel, Deadlines
  <1>7. Snapshots'
    <2>1. cached' # None => Complete(cached)' /\ expires' = cached' + CacheTTL
      <3>1. CASE a = Error /\ UNCHANGED cache
        BY <1>2, <3>1 DEF Snapshots, cache
      <3>2. CASE a = at[c] /\ cached' = at[c] /\ expires' = at[c] + CacheTTL
        BY <1>3, <3>2, TelemetryAssumption
      <3>3. QED
        BY <3>1, <3>2
    <2>2. ASSUME NEW d \in Call, answer'[d] \in Nat PROVE Complete(answer[d])'
      BY <1>1, <1>2, <1>3, <2>2, TelemetryAssumption DEF Snapshots
    <2>3. QED
      BY <2>1, <2>2 DEF Snapshots
  <1>8. AnswersFresh'
    BY <1>1, TelemetryAssumption DEF AnswersFresh, cache
  <1>9. QED
    BY <1>4, <1>5, <1>6, <1>7, <1>8

\* A result is taken from the channel.
LEMMA ReceiveStep ==
    ASSUME IInv, NEW c \in Call, NEW q \in Query, Receive(c, q)
    PROVE  IInv'
  <1>1. CASE result[c][q] = "rows" /\ received' = [received EXCEPT ![c] = @ \cup {q}]
             /\ UNCHANGED <<mu, stage, answer, cancelled>>
    <2> USE DEF IInv, TypeOK
    <2>1. UNCHANGED <<now, cached, expires, at, worker, stopBy, result, remote>>
      BY DEF Receive, cache, goroutines
    <2>2. \A t : Complete(t) => Complete(t)'
      BY <1>1, <2>1, CompleteKept
    <2>3. TypeOK'
      BY <1>1, <2>1
    <2>4. MutexHeld' /\ Progress' /\ InChannel' /\ Deadlines' /\ AnswersFresh'
      BY <1>1, <2>1 DEF MutexHeld, Progress, InChannel, Deadlines, AnswersFresh
    <2>5. Snapshots'
      BY <1>1, <2>1, <2>2 DEF Snapshots
    <2>6. QED
      BY <2>3, <2>4, <2>5
  <1>2. CASE Return(c, Error)
    BY <1>2, ReturnStep DEF Receive
  <1>3. QED
    BY <1>1, <1>2 DEF Receive

\* The snapshot is cached, or cannot be built.
LEMMA CacheStep == ASSUME IInv, NEW c \in Call, CacheSnapshot(c) PROVE IInv'
  BY ReturnStep DEF CacheSnapshot

-----------------------------------------------------------------------------
(* runQuery *)

\* A step of one goroutine, which had not ended, leaves the results of the others.
LEMMA WorkerStep ==
    ASSUME IInv, NEW c \in Call, NEW q \in Query,
           UNCHANGED <<now, mu, cache, callers>>, TypeOK',
           worker[c][q] \in {"starting", "polling", "stopping"},
           worker'[c][q] # "none",
           result'[c][q] # "none" <=> worker'[c][q] = "ended",
           worker'[c][q] \in {"starting", "polling"} =>
               worker[c][q] \in {"starting", "polling"},
           worker'[c][q] = "stopping" =>
               /\ worker[c][q] \in {"starting", "polling"}
               /\ stopBy'[c][q] = now + StopTimeout,
           \A d \in Call, p \in Query : d # c \/ p # q =>
               /\ worker'[d][p] = worker[d][p] /\ result'[d][p] = result[d][p]
               /\ stopBy'[d][p] = stopBy[d][p]
    PROVE  IInv'
  <1> USE DEF IInv
  <1>1. UNCHANGED <<now, mu, cached, expires, stage, at, cancelled, answer, received>>
    BY DEF cache, callers
  <1>2. result[c][q] = "none"
    BY DEF InChannel
  <1>3. \A d \in Call, p \in Query : result[d][p] # "none" => result'[d][p] = result[d][p]
    BY <1>2
  <1>4. \A t : Complete(t) => Complete(t)'
    BY <1>1, <1>3, CompleteKept
  <1>5. MutexHeld' /\ AnswersFresh'
    BY <1>1 DEF MutexHeld, AnswersFresh
  <1>6. Progress'
    BY <1>1 DEF Progress
  <1>7. InChannel'
    <2>1. \A d \in Call : received[d] \subseteq Query
      BY DEF TypeOK
    <2>2. \A d \in Call, p \in Query : result'[d][p] # "none" <=> worker'[d][p] = "ended"
      BY DEF InChannel
    <2>3. \A d \in Call : \A p \in received[d] : result'[d][p] = "rows"
      BY <1>3, <2>1 DEF InChannel
    <2>4. QED
      BY <1>1, <2>2, <2>3 DEF InChannel
  <1>8. Snapshots'
    BY <1>1, <1>4 DEF Snapshots
  <1>9. Deadlines'
    <2> SUFFICES ASSUME NEW d \in Call, stage[d] = "refresh"
                 PROVE  /\ now <= at[d] + QueryTimeout + StopTimeout
                        /\ \A p \in Query :
                              /\ worker'[d][p] \in {"starting", "polling"} =>
                                    now <= at[d] + QueryTimeout
                              /\ worker'[d][p] = "stopping" =>
                                    stopBy'[d][p] <= at[d] + QueryTimeout + StopTimeout
      BY <1>1 DEF Deadlines
    <2>1. now \in Nat /\ at[d] \in Nat
      BY DEF TypeOK
    <2>2. now <= at[d] + QueryTimeout + StopTimeout
      BY DEF Deadlines
    <2>3. ASSUME NEW p \in Query
          PROVE  /\ worker'[d][p] \in {"starting", "polling"} =>
                       now <= at[d] + QueryTimeout
                 /\ worker'[d][p] = "stopping" =>
                       stopBy'[d][p] <= at[d] + QueryTimeout + StopTimeout
      <3>1. CASE d = c /\ p = q
        BY <2>1, <3>1, TelemetryAssumption DEF Deadlines
      <3>2. CASE d # c \/ p # q
        BY <3>2 DEF Deadlines
      <3>3. QED
        BY <3>1, <3>2
    <2>4. QED
      BY <2>2, <2>3
  <1>10. QED
    BY <1>5, <1>6, <1>7, <1>8, <1>9

\* A goroutine sends its result and ends.
LEMMA SendStep ==
    ASSUME IInv, NEW c \in Call, NEW q \in Query, NEW r \in {"rows", "error"},
           Send(c, q, r), UNCHANGED <<now, mu, cache, callers>>,
           worker[c][q] \in {"starting", "polling", "stopping"}
    PROVE  IInv'
  <1>1. TypeOK'
    BY DEF IInv, TypeOK, Send, cache, callers
  <1>2. worker'[c][q] = "ended" /\ result'[c][q] = r
    BY DEF IInv, TypeOK, Send
  <1>3. \A d \in Call, p \in Query : d # c \/ p # q =>
           /\ worker'[d][p] = worker[d][p] /\ result'[d][p] = result[d][p]
           /\ stopBy'[d][p] = stopBy[d][p]
    BY DEF IInv, TypeOK, Send
  <1>4. QED
    BY <1>1, <1>2, <1>3, WorkerStep

\* A goroutine begins to stop its query.
LEMMA StopStep ==
    ASSUME IInv, NEW c \in Call, NEW q \in Query, BeginStop(c, q),
           UNCHANGED <<now, mu, cache, callers>>, worker[c][q] = "polling"
    PROVE  IInv'
  <1>1. TypeOK'
    BY TelemetryAssumption DEF IInv, TypeOK, BeginStop, cache, callers
  <1>2. /\ worker'[c][q] = "stopping" /\ stopBy'[c][q] = now + StopTimeout
        /\ result' = result
    BY DEF IInv, TypeOK, BeginStop
  <1>3. \A d \in Call, p \in Query : d # c \/ p # q =>
           /\ worker'[d][p] = worker[d][p] /\ result'[d][p] = result[d][p]
           /\ stopBy'[d][p] = stopBy[d][p]
    BY DEF IInv, TypeOK, BeginStop
  <1>4. result[c][q] = "none"
    BY DEF IInv, InChannel
  <1>5. QED
    BY <1>1, <1>2, <1>3, <1>4, WorkerStep

\* Every step of a goroutine is one of these.
LEMMA GoroutineStep ==
    ASSUME IInv, NEW c \in Call, NEW q \in Query,
           Work(c, q) \/ PollFails(c, q)
    PROVE  IInv'
  <1>1. CASE StartQuery(c, q)
    <2>1. CASE Send(c, q, "error")
      BY <1>1, <2>1, SendStep DEF StartQuery
    <2>2. CASE /\ remote' = [remote EXCEPT ![c][q] = "running"]
               /\ worker' = [worker EXCEPT ![c][q] = "polling"]
               /\ UNCHANGED <<result, stopBy>>
      <3>1. TypeOK'
        BY <1>1, <2>2 DEF StartQuery, IInv, TypeOK, cache, callers
      <3>2. worker'[c][q] = "polling" /\ worker[c][q] = "starting"
        BY <1>1, <2>2 DEF StartQuery, IInv, TypeOK
      <3>3. \A d \in Call, p \in Query : d # c \/ p # q => worker'[d][p] = worker[d][p]
        BY <2>2 DEF IInv, TypeOK
      <3>4. result[c][q] = "none"
        BY <3>2 DEF IInv, InChannel
      <3>5. QED
        BY <1>1, <2>2, <3>1, <3>2, <3>3, <3>4, WorkerStep DEF StartQuery
    <2>3. QED
      BY <1>1, <2>1, <2>2 DEF StartQuery
  <1>2. CASE Poll(c, q)
    BY <1>2, SendStep, StopStep DEF Poll
  <1>3. CASE StopQuery(c, q)
    BY <1>3, SendStep DEF StopQuery
  <1>4. CASE PollFails(c, q)
    BY <1>4, StopStep DEF PollFails
  <1>5. QED
    BY <1>1, <1>2, <1>3, <1>4 DEF Work

-----------------------------------------------------------------------------
(* CloudWatch and time *)

\* What CloudWatch does with a query tells nobody before a poll.
LEMMA RemoteStep ==
    ASSUME IInv, NEW c \in Call, NEW q \in Query, RemoteEnds(c, q)
    PROVE  IInv'
  <1>1. /\ UNCHANGED <<now, mu, cached, expires, stage, at, cancelled, answer, received,
                       worker, stopBy, result>>
        /\ remote' \in [Call -> [Query -> {"none", "running", "complete", "failed"}]]
    BY DEF RemoteEnds, IInv, TypeOK, cache, callers
  <1>2. QED
    BY <1>1
    DEF IInv, TypeOK, MutexHeld, Progress, InChannel, Snapshots, Complete, Deadlines, AnswersFresh

\* The clock passes no deadline.  A refresh that goes on waits for a goroutine, which
\* either has not noticed an ended context, so that it has not ended, or has a
\* StopQuery that has not timed out.
LEMMA TickStep == ASSUME IInv, Tick PROVE IInv'
  <1> USE DEF IInv
  <1>1. /\ now' = now + 1
        /\ UNCHANGED <<mu, cached, expires, stage, at, cancelled, answer, received,
                       worker, stopBy, result, remote>>
    BY DEF Tick, cache, callers, goroutines
  <1>2. TypeOK'
    BY <1>1 DEF TypeOK
  <1>3. MutexHeld' /\ Progress' /\ InChannel' /\ AnswersFresh'
    BY <1>1 DEF MutexHeld, Progress, InChannel, AnswersFresh
  <1>4. Snapshots'
    BY <1>1 DEF Snapshots, Complete
  <1>5. Deadlines'
    <2> SUFFICES ASSUME NEW c \in Call, stage[c] = "refresh"
                 PROVE  /\ now + 1 <= at[c] + QueryTimeout + StopTimeout
                        /\ \A q \in Query :
                              worker[c][q] \in {"starting", "polling"} =>
                                 now + 1 <= at[c] + QueryTimeout
      BY <1>1 DEF Deadlines
    <2>1. /\ now \in Nat /\ at[c] \in Nat /\ received[c] \subseteq Query
          /\ QueryTimeout \in Nat /\ StopTimeout \in Nat
          /\ \A q \in Query : stopBy[c][q] \in Nat
          /\ \A q \in Query : worker[c][q] \in {"none", "starting", "polling", "stopping", "ended"}
      BY TelemetryAssumption DEF TypeOK
    <2>2. ASSUME NEW q \in Query, worker[c][q] \in {"starting", "polling"}
          PROVE  now + 1 <= at[c] + QueryTimeout
      BY <2>1, <2>2 DEF Tick, InTime, CtxDone
    <2>3. PICK q \in Query \ received[c] : result[c][q] = "none"
      BY <2>1 DEF Tick, InTime
    <2>4. worker[c][q] \in {"starting", "polling", "stopping"}
      BY <2>1, <2>3 DEF Progress, InChannel
    <2>5. CASE worker[c][q] \in {"starting", "polling"}
      BY <2>1, <2>2, <2>5
    <2>6. CASE worker[c][q] = "stopping"
      <3>1. now < stopBy[c][q]
        BY <2>6 DEF Tick, InTime
      <3>2. stopBy[c][q] <= at[c] + QueryTimeout + StopTimeout
        BY <2>6 DEF Deadlines
      <3>3. QED
        BY <2>1, <2>2, <3>1, <3>2
    <2>7. QED
      BY <2>2, <2>4, <2>5, <2>6
  <1>6. QED
    BY <1>2, <1>3, <1>4, <1>5

-----------------------------------------------------------------------------
(* The theorems *)

\* Every step of every actor keeps the inductive invariant.
LEMMA Inductive == IInv /\ [Next]_vars => IInv'
  <1> SUFFICES ASSUME IInv, [Next]_vars PROVE IInv'
    OBVIOUS
  <1>1. CASE Tick
    BY <1>1, TickStep
  <1>2. ASSUME NEW c \in Call,
               \/ CallGet(c) \/ CallerLeaves(c) \/ Lock(c) \/ CacheSnapshot(c)
        PROVE  IInv'
    BY <1>2, CallStep, ServeStep, StartStep, CacheStep DEF Lock
  <1>3. ASSUME NEW c \in Call, NEW q \in Query,
               Receive(c, q) \/ Work(c, q) \/ PollFails(c, q) \/ RemoteEnds(c, q)
        PROVE  IInv'
    BY <1>3, ReceiveStep, GoroutineStep, RemoteStep
  <1>4. CASE UNCHANGED vars
    BY <1>4
    DEF vars, IInv, TypeOK, MutexHeld, Progress, InChannel, Snapshots, Complete,
        Deadlines, AnswersFresh
  <1>5. QED
    BY <1>1, <1>2, <1>3, <1>4 DEF Next

\* The inductive invariant holds in every reachable state of the cache.
THEOREM Invariance == Spec => []IInv
  BY Initial, Inductive, PTL DEF Spec

\* A snapshot that is cached or answered is complete, and the mutex is held no longer
\* than the timeouts of the queries and of stopping them.
THEOREM Cache == Spec => []CacheSound
  <1>1. IInv => CacheSound
    BY DEF IInv, CacheSound, Snapshots, Complete, SnapshotsComplete, Deadlines, RefreshBounded
  <1>2. QED
    BY <1>1, Invariance, PTL

\* No caller gets a snapshot older than CacheTTL.
THEOREM Fresh == Spec => []AnswersFresh
  <1>1. IInv => AnswersFresh
    BY DEF IInv
  <1>2. QED
    BY <1>1, Invariance, PTL

\* Two calls never refresh at the same time.
THEOREM OneRefresh ==
    Spec => [](\A c, d \in Call : stage[c] = "refresh" /\ stage[d] = "refresh" => c = d)
  <1>1. IInv => \A c, d \in Call : stage[c] = "refresh" /\ stage[d] = "refresh" => c = d
    BY DEF IInv, MutexHeld
  <1>2. QED
    BY <1>1, Invariance, PTL

-----------------------------------------------------------------------------
(* What is reported of a request *)

\* The event of a request, if it passes validation.
Accepted(r) == {e \in Completion(r) : Valid(e, call[r].counted)}

\* It is that of what it was when the handler ended.
LEMMA AcceptedSame ==
    ASSUME NEW r, ending'[r] = ending[r], inner'[r] = inner[r], flow'[r] = flow[r],
           call'[r] = call[r]
    PROVE  Accepted(r)' = Accepted(r)
  <1>1. HTTPEvent(r)' = HTTPEvent(r)
    BY DEF HTTPEvent
  <1>2. OperatorEvent(r)' = OperatorEvent(r)
    BY DEF OperatorEvent
  <1>3. ToolEvent(r)' = ToolEvent(r)
    BY DEF ToolEvent
  <1>4. Completion(r)' = Completion(r)
    BY <1>1, <1>2, <1>3 DEF Completion
  <1>5. QED
    BY <1>4 DEF Accepted

\* A count is in its bucket.
LEMMA BucketCovers ==
    ASSUME NEW n \in 0 .. 200
    PROVE  /\ ResultCountBucket(n) \in Bucket
           /\ n \in Covers(ResultCountBucket(n))
  BY DEF ResultCountBucket, Covers, Bucket

\* A status is a success if it is below 400.
LEMMA StatusClass ==
    ASSUME NEW s \in Nat
    PROVE  \E outcome \in {"success", "failure"}, reason \in Reason :
             /\ ClassifyStatus(s) = Plain("http", outcome, reason)
             /\ outcome = "success" <=> s < 400
             /\ outcome = "success" <=> reason = "completed"
  BY DEF ClassifyStatus, Reason

\* An event without a bucket and a context is valid, if it is no tool's success.
LEMMA PlainValid ==
    ASSUME NEW f \in {"http", "tool", "operator"}, NEW outcome \in {"success", "failure"},
           NEW reason \in Reason, outcome = "success" <=> reason = "completed",
           f = "tool" => outcome = "failure", NEW counted
    PROVE  /\ Valid(Plain(f, outcome, reason), counted)
           /\ Plain(f, outcome, reason) \in Event
           /\ Plain(f, outcome, reason).flow = f
           /\ Plain(f, outcome, reason).outcome = outcome
           /\ Plain(f, outcome, reason).telemetry = "none"
  <1> DEFINE e == Plain(f, outcome, reason)
  <1>1. /\ e.flow = f /\ e.outcome = outcome /\ e.reason = reason
        /\ e.bucket = "none" /\ e.telemetry = "none"
    BY DEF Plain
  <1>2. e \in Event
    BY DEF Plain, Event
  <1> HIDE DEF e
  <1>3. ValidTelemetry(e)
    BY <1>1 DEF ValidTelemetry
  <1>4. ValidAttributes(e, counted)
    BY <1>1 DEF ValidAttributes, Bucket
  <1>5. Valid(e, counted)
    BY <1>1, <1>3, <1>4 DEF Valid
  <1>6. QED
    BY <1>1, <1>2, <1>5 DEF e

\* The event of an HTTP flow.
LEMMA HTTPAccepted ==
    ASSUME NEW r, flow[r] = "http", inner[r] \in Nat
    PROVE  \E e \in Event :
             /\ Accepted(r) = {e} /\ e.flow = "http"
             /\ e.outcome = "success"
                <=> ~Panicked(r) /\ Logged(inner[r]) < 400
  <1>1. Completion(r) = HTTPEvent(r)
    BY DEF Completion
  <1>2. CASE Panicked(r)
    <2> DEFINE e == Plain("http", "failure", "server_error")
    <2>1. Completion(r) = {e}
      BY <1>1, <1>2 DEF HTTPEvent, Panicked
    <2>2. /\ Valid(e, call[r].counted) /\ e \in Event
          /\ e.flow = "http" /\ e.outcome = "failure"
      BY PlainValid DEF Reason
    <2> HIDE DEF e
    <2>3. Accepted(r) = {e}
      BY <2>1, <2>2 DEF Accepted
    <2>4. QED
      BY <1>2, <2>2, <2>3
  <1>3. CASE ~Panicked(r)
    <2> DEFINE s == Logged(inner[r])
    <2>1. s \in Nat /\ Completion(r) = {ClassifyStatus(s)}
      BY <1>1, <1>3 DEF HTTPEvent, Panicked, Logged
    <2>2. PICK outcome \in {"success", "failure"}, reason \in Reason :
             /\ ClassifyStatus(s) = Plain("http", outcome, reason)
             /\ outcome = "success" <=> s < 400
             /\ outcome = "success" <=> reason = "completed"
      BY <2>1, StatusClass
    <2> DEFINE e == Plain("http", outcome, reason)
    <2>3. /\ Valid(e, call[r].counted) /\ e \in Event
          /\ e.flow = "http" /\ e.outcome = outcome
      BY <2>2, PlainValid
    <2> HIDE DEF e
    <2>4. Accepted(r) = {e}
      BY <2>1, <2>2, <2>3 DEF Accepted, e
    <2>5. QED
      BY <1>3, <2>2, <2>3, <2>4
  <1>4. QED
    BY <1>2, <1>3

\* The event of an operator call.
LEMMA OperatorAccepted ==
    ASSUME NEW r, flow[r] = "operator", ending[r] \in Results(r)
    PROVE  \E e \in Event :
             /\ Accepted(r) = {e} /\ e.flow = "operator"
             /\ ~(e.outcome = "success") <=> \E c \in Code : ending[r] = <<"code", c>>
  <1>1. Completion(r) = OperatorEvent(r)
    BY DEF Completion
  <1>2. \/ ending[r] = <<"returned">> \/ ending[r] = <<"panicked">>
        \/ \E c \in Code : ending[r] = <<"code", c>>
    BY DEF Results
  <1>3. CASE \E c \in Code : ending[r] = <<"code", c>>
    <2>1. ending[r][1] = "code"
      BY <1>3
    <2>2. PICK reason \in Reason \ {"completed"} :
            Completion(r) = {Plain("operator", "failure", reason)}
      BY <1>1, <2>1 DEF OperatorEvent, Reason
    <2> DEFINE e == Plain("operator", "failure", reason)
    <2>3. /\ Valid(e, call[r].counted) /\ e \in Event
          /\ e.flow = "operator" /\ e.outcome = "failure"
      BY PlainValid
    <2> HIDE DEF e
    <2>4. Accepted(r) = {e}
      BY <2>2, <2>3 DEF Accepted, e
    <2>5. QED
      BY <1>3, <2>3, <2>4
  <1>4. CASE ending[r] = <<"returned">> \/ ending[r] = <<"panicked">>
    <2> DEFINE e == Plain("operator", "success", "completed")
    <2>1. ending[r][1] # "code"
      BY <1>4
    <2>2. Completion(r) = {e}
      BY <1>1, <2>1 DEF OperatorEvent
    <2>3. /\ Valid(e, call[r].counted) /\ e \in Event
          /\ e.flow = "operator" /\ e.outcome = "success"
      BY PlainValid DEF Reason
    <2> HIDE DEF e
    <2>4. Accepted(r) = {e}
      BY <2>2, <2>3 DEF Accepted
    <2>5. ~ \E c \in Code : ending[r] = <<"code", c>>
      BY <2>1
    <2>6. QED
      BY <2>3, <2>4, <2>5
  <1>5. QED
    BY <1>2, <1>3, <1>4

\* The event of a tool call: there is none if it panicked, and it is rejected for a
\* context with a control character.
LEMMA ToolAccepted ==
    ASSUME NEW r, flow[r] = "tool", ending[r] \in Results(r),
           call[r] \in ToolCall
    PROVE  /\ \A e \in Accepted(r) :
                /\ e \in Event /\ e.flow = "tool"
                /\ e.outcome = "success" <=> ending[r] # <<"error">>
                /\ e.telemetry \in {"none", call[r].context}
                /\ \A n \in Count : ending[r] = <<"counted", n>> => n \in Covers(e.bucket)
           /\ \A e, f \in Accepted(r) : e = f
           /\ Accepted(r) = {} <=> Panicked(r) \/ call[r].context = "control"
  <1> DEFINE context == call[r].context
             counted == call[r].counted
  <1>1. Completion(r) = ToolEvent(r)
    BY DEF Completion
  <1>2. context \in Context /\ counted \in BOOLEAN
    BY DEF ToolCall
  <1>3. Count \subseteq 0 .. 200 /\ Context \subseteq {"fine", "control", "unacceptable"}
    BY EventsAssumption
  <1>4. CASE ~AcceptsContext(context)
    <2> DEFINE e == Plain("tool", "failure", "failed")
    <2>1. Completion(r) = {e}
      BY <1>1, <1>4 DEF ToolEvent
    <2>2. /\ Valid(e, counted) /\ e \in Event
          /\ e.flow = "tool" /\ e.outcome = "failure" /\ e.telemetry = "none"
      BY PlainValid DEF Reason
    <2>3. ending[r] = <<"error">>
      BY <1>4 DEF Results
    <2>4. ~Panicked(r) /\ \A n : ending[r] # <<"counted", n>>
      BY <2>3 DEF Panicked
    <2>5. context # "control"
      BY <1>4 DEF AcceptsContext
    <2> HIDE DEF e
    <2>6. Accepted(r) = {e}
      BY <2>1, <2>2 DEF Accepted
    <2>7. QED
      BY <2>2, <2>3, <2>4, <2>5, <2>6
  <1>5. CASE AcceptsContext(context) /\ Panicked(r)
    <2>1. Completion(r) = {}
      BY <1>1, <1>5 DEF ToolEvent, Panicked
    <2>2. Accepted(r) = {}
      BY <2>1 DEF Accepted
    <2>3. QED
      BY <1>5, <2>2
  <1>6. CASE AcceptsContext(context) /\ ~Panicked(r)
    <2> DEFINE failed == ending[r] = <<"error">>
               outcome == IF failed THEN "failure" ELSE "success"
               reason == IF failed THEN "failed" ELSE "completed"
               bucket == IF ending[r][1] = "counted"
                         THEN ResultCountBucket(ending[r][2]) ELSE "none"
               e == [flow |-> "tool", telemetry |-> context, outcome |-> outcome,
                     reason |-> reason, bucket |-> bucket]
    <2>1. Completion(r) = {e}
      BY <1>1, <1>6 DEF ToolEvent, Panicked
    <2>2. \/ failed
          \/ counted /\ \E n \in Count : ending[r] = <<"counted", n>>
          \/ ~counted /\ ending[r] = <<"returned">>
      BY <1>6 DEF Results, Panicked
    <2>3. /\ bucket \in Bucket \cup {"none"}
          /\ bucket # "none" <=> ~failed /\ counted
          /\ \A n \in Count : ending[r] = <<"counted", n>> => n \in Covers(bucket)
      <3>1. CASE failed
        <4>1. ending[r][1] # "counted" /\ \A n : ending[r] # <<"counted", n>>
          BY <3>1
        <4>2. QED
          BY <3>1, <4>1
      <3>2. CASE counted /\ \E n \in Count : ending[r] = <<"counted", n>>
        <4>1. PICK n \in Count : ending[r] = <<"counted", n>>
          BY <3>2
        <4>2. /\ ending[r][1] = "counted" /\ ending[r][2] = n /\ ~failed
              /\ \A m : ending[r] = <<"counted", m>> => m = n
          BY <4>1
        <4>3. /\ ResultCountBucket(n) \in Bucket
              /\ n \in Covers(ResultCountBucket(n))
          <5>1. n \in 0 .. 200
            BY <1>3
          <5>2. QED
            BY <5>1, BucketCovers
        <4>4. "none" \notin Bucket
          BY DEF Bucket
        <4>5. QED
          BY <3>2, <4>2, <4>3, <4>4
      <3>3. CASE ~counted /\ ending[r] = <<"returned">>
        <4>1. ending[r][1] # "counted" /\ \A n : ending[r] # <<"counted", n>>
          BY <3>3
        <4>2. QED
          BY <3>3, <4>1
      <3>4. QED
        BY <2>2, <3>1, <3>2, <3>3
    <2>4. /\ outcome \in {"success", "failure"} /\ reason \in Reason
          /\ outcome = "success" <=> ~failed
          /\ outcome = "success" <=> reason = "completed"
      BY DEF Reason
    <2> HIDE DEF failed, outcome, reason, bucket
    <2>5. /\ e.flow = "tool" /\ e.outcome = outcome /\ e.reason = reason
          /\ e.bucket = bucket /\ e.telemetry = context
      OBVIOUS
    <2>6. e \in Event
      BY <1>2, <2>3, <2>4 DEF Event
    <2> HIDE DEF e
    <2>7. ValidAttributes(e, counted)
      BY <2>3, <2>4, <2>5 DEF ValidAttributes
    <2>8. context # "control" => ValidTelemetry(e)
      BY <1>6, <2>5 DEF ValidTelemetry, AcceptsContext
    <2>9. context # "control" => Valid(e, counted)
      BY <2>4, <2>5, <2>7, <2>8 DEF Valid
    <2>10. context = "control" => ~Valid(e, counted)
      BY <2>5 DEF Valid, ValidTelemetry
    <2>11. Accepted(r) = IF context = "control" THEN {} ELSE {e}
      BY <2>1, <2>9, <2>10 DEF Accepted
    <2>12. QED
      BY <1>6, <2>3, <2>4, <2>5, <2>6, <2>11 DEF failed
  <1>7. QED
    BY <1>4, <1>5, <1>6

-----------------------------------------------------------------------------
(* The inductive invariant of requests *)

\* Every request has a state.
Kinds ==
    /\ phase \in [Request -> {"idle", "running", "complete", "publishing", "reported", "ended"}]
    /\ flow \in [Request -> Flow] /\ call \in [Request -> ToolCall]
    /\ ending \in [Request -> Result]
    /\ inner \in [Request -> Status \cup {0}] /\ outer \in [Request -> Status \cup {0}]
    /\ sent \in [Request -> Status \cup {0, 200}]
    /\ DOMAIN event = Request /\ DOMAIN logged = Request

\* The events of a request are those that were accepted, once each.
Emitted(r) ==
    \/ event[r] = <<>> /\ Accepted(r) = {}
    \/ \E e \in Accepted(r) : event[r] = <<e>>

\* What the event of a request is, from the end of its handler on.
Reported(r) ==
    /\ phase[r] \in {"idle", "running"} => ending[r] = <<"pending">>
    /\ phase[r] \in {"idle", "running", "complete"} => event[r] = <<>>
    /\ phase[r] \in {"complete", "publishing", "reported", "ended"} =>
        ending[r] \in Results(r)
    /\ phase[r] \in {"publishing", "reported", "ended"} => Emitted(r)

\* The writers have kept the status that was sent, the inner one if it is of an HTTP
\* flow.
Written(r) ==
    /\ phase[r] = "idle" => inner[r] = 0 /\ outer[r] = 0
    /\ flow[r] = "http" => inner[r] = outer[r]
    /\ phase[r] # "ended" => sent[r] = outer[r] /\ logged[r] = <<>>
    /\ phase[r] = "ended" =>
        \/ sent[r] = Logged(outer[r]) /\ logged[r] = <<sent[r]>>
        \/ Panicked(r) /\ sent[r] = outer[r] /\ logged[r] = <<>>

ReportInv == Kinds /\ \A r \in Request : Reported(r) /\ Written(r)

\* No request has arrived.
LEMMA NoRequest == EventsInit => ReportInv
  <1> SUFFICES ASSUME EventsInit PROVE ReportInv
    OBVIOUS
  <1>1. Kinds
    <2>1. [counted |-> FALSE, context |-> "fine"] \in ToolCall
      BY EventsAssumption DEF ToolCall
    <2>2. "unassigned" \in Flow /\ <<"pending">> \in Result
      BY DEF Flow, Result
    <2>3. QED
      BY <2>1, <2>2 DEF EventsInit, Kinds
  <1>2. ASSUME NEW r \in Request PROVE Reported(r) /\ Written(r)
    <2>1. /\ phase[r] = "idle" /\ ending[r] = <<"pending">> /\ event[r] = <<>>
          /\ inner[r] = 0 /\ outer[r] = 0 /\ sent[r] = 0 /\ logged[r] = <<>>
      BY DEF EventsInit
    <2>2. ~Panicked(r)
      <3>1. <<"pending">> # <<"panicked">>
        OBVIOUS
      <3>2. QED
        BY <2>1, <3>1 DEF Panicked
    <2>3. QED
      BY <2>1, <2>2 DEF Reported, Written
  <1>3. QED
    BY <1>1, <1>2 DEF ReportInv

\* A step of one request leaves the others as they are reported.
LEMMA OthersStay ==
    ASSUME ReportInv, Kinds', NEW r \in Request,
           \A q \in Request \ {r} :
            /\ phase'[q] = phase[q] /\ flow'[q] = flow[q] /\ call'[q] = call[q]
            /\ ending'[q] = ending[q] /\ inner'[q] = inner[q] /\ outer'[q] = outer[q]
            /\ sent'[q] = sent[q] /\ event'[q] = event[q] /\ logged'[q] = logged[q],
           Reported(r)', Written(r)'
    PROVE  ReportInv'
  <1>1. ASSUME NEW q \in Request, q # r PROVE Reported(q)' /\ Written(q)'
    <2>1. Reported(q) /\ Written(q)
      BY DEF ReportInv
    <2>2. /\ phase'[q] = phase[q] /\ flow'[q] = flow[q] /\ call'[q] = call[q]
          /\ ending'[q] = ending[q] /\ inner'[q] = inner[q] /\ outer'[q] = outer[q]
          /\ sent'[q] = sent[q] /\ event'[q] = event[q] /\ logged'[q] = logged[q]
      BY <1>1
    <2>3. Accepted(q)' = Accepted(q)
      BY <2>2, AcceptedSame
    <2>4. Results(q)' = Results(q)
      BY <2>2 DEF Results
    <2>5. Reported(q)'
      BY <2>1, <2>2, <2>3, <2>4 DEF Reported, Emitted
    <2>6. Written(q)'
      BY <2>1, <2>2 DEF Written, Panicked
    <2>7. QED
      BY <2>5, <2>6
  <1>2. QED
    BY <1>1 DEF ReportInv

\* A request that arrives has nothing to report.
LEMMA ArriveSound ==
    ASSUME ReportInv, NEW r \in Request, NEW f \in Flow, NEW c \in ToolCall,
           Arrive(r, f, c)
    PROVE  ReportInv'
  <1>1. /\ phase[r] = "idle" /\ phase' = [phase EXCEPT ![r] = "running"]
        /\ flow' = [flow EXCEPT ![r] = f] /\ call' = [call EXCEPT ![r] = c]
        /\ UNCHANGED <<ending, inner, outer, sent, event, logged>>
    BY DEF Arrive
  <1>2. Kinds'
    BY <1>1 DEF ReportInv, Kinds
  <1>3. Reported(r)'
    BY <1>1 DEF ReportInv, Kinds, Reported
  <1>4. Written(r)'
    BY <1>1 DEF ReportInv, Kinds, Written, Panicked
  <1>5. QED
    BY <1>1, <1>2, <1>3, <1>4, OthersStay DEF ReportInv, Kinds

\* Both writers keep the status that is sent, and the event of an HTTP flow is made
\* after its last write.
LEMMA WriteHeaderSound ==
    ASSUME ReportInv, NEW r \in Request, NEW s \in Status,
           WriteHeader(r, s)
    PROVE  ReportInv'
  <1>1. /\ phase[r] = IF flow[r] \in {"http", "unassigned"} THEN "running" ELSE "reported"
        /\ inner' = [inner EXCEPT ![r] = IF flow[r] = "http" THEN Keep(inner[r], s)
                                         ELSE inner[r]]
        /\ outer' = [outer EXCEPT ![r] = IF flow[r] = "http" /\ inner[r] # 0 THEN outer[r]
                                         ELSE IF outer[r] = 0 THEN s ELSE outer[r]]
        /\ sent' = [sent EXCEPT ![r] = IF sent[r] = 0 THEN s ELSE sent[r]]
        /\ UNCHANGED <<phase, flow, call, ending, event, logged>>
    BY DEF WriteHeader
  <1>2. s # 0
    BY EventsAssumption
  <1>3. Kinds'
    <2>1. inner' \in [Request -> Status \cup {0}]
      BY <1>1 DEF ReportInv, Kinds, Keep
    <2>2. outer' \in [Request -> Status \cup {0}]
      BY <1>1 DEF ReportInv, Kinds
    <2>3. sent' \in [Request -> Status \cup {0, 200}]
      BY <1>1 DEF ReportInv, Kinds
    <2>4. QED
      BY <1>1, <2>1, <2>2, <2>3 DEF ReportInv, Kinds
  <1>4. /\ inner'[r] = IF flow[r] = "http" THEN Keep(inner[r], s) ELSE inner[r]
        /\ outer'[r] = IF flow[r] = "http" /\ inner[r] # 0 THEN outer[r]
                       ELSE IF outer[r] = 0 THEN s ELSE outer[r]
        /\ sent'[r] = IF sent[r] = 0 THEN s ELSE sent[r]
        /\ phase'[r] = phase[r] /\ flow'[r] = flow[r] /\ call'[r] = call[r]
        /\ ending'[r] = ending[r] /\ event'[r] = event[r] /\ logged'[r] = logged[r]
    BY <1>1 DEF ReportInv, Kinds
  <1>5. Reported(r) /\ Written(r) /\ flow[r] \in Flow
    BY DEF ReportInv, Kinds
  <1>6. Results(r)' = Results(r)
    BY <1>4 DEF Results
  <1>7. Reported(r)'
    <2>1. CASE phase[r] = "running"
      BY <1>4, <1>5, <2>1 DEF Reported
    <2>2. CASE phase[r] # "running"
      <3>1. inner'[r] = inner[r]
        BY <1>1, <1>4, <2>2
      <3>2. Accepted(r)' = Accepted(r)
        BY <1>4, <3>1, AcceptedSame
      <3>3. QED
        BY <1>4, <1>5, <1>6, <3>2 DEF Reported, Emitted
    <2>3. QED
      BY <2>1, <2>2
  <1>8. Written(r)'
    <2>1. phase[r] # "ended" /\ phase[r] # "idle"
      BY <1>1
    <2>2. sent[r] = outer[r] /\ logged[r] = <<>> /\ (flow[r] = "http" => inner[r] = outer[r])
      BY <1>5, <2>1 DEF Written
    <2>3. sent'[r] = outer'[r]
      BY <1>2, <1>4, <2>2
    <2>4. flow'[r] = "http" => inner'[r] = outer'[r]
      BY <1>2, <1>4, <2>2 DEF Keep
    <2>5. QED
      BY <1>4, <2>1, <2>2, <2>3, <2>4 DEF Written
  <1>9. QED
    BY <1>1, <1>3, <1>7, <1>8, OthersStay DEF ReportInv, Kinds

\* The handler ends as one of its flow may end.
LEMMA HandlerEndsSound ==
    ASSUME ReportInv, NEW r \in Request, NEW x \in Result, HandlerEnds(r, x)
    PROVE  ReportInv'
  <1>1. /\ phase[r] = "running" /\ x \in Results(r)
        /\ ending' = [ending EXCEPT ![r] = x] /\ phase' = [phase EXCEPT ![r] = "complete"]
        /\ UNCHANGED <<flow, call, inner, outer, sent, event, logged>>
    BY DEF HandlerEnds
  <1>2. Kinds'
    BY <1>1 DEF ReportInv, Kinds
  <1>3. Results(r)' = Results(r)
    BY <1>1 DEF Results
  <1>4. ending'[r] = x /\ phase'[r] = "complete"
    BY <1>1 DEF ReportInv, Kinds
  <1>5. Reported(r)'
    BY <1>1, <1>3, <1>4 DEF ReportInv, Reported
  <1>6. Written(r)'
    BY <1>1, <1>4 DEF ReportInv, Written, Panicked
  <1>7. QED
    BY <1>1, <1>2, <1>5, <1>6, OthersStay DEF ReportInv, Kinds

\* The event is accepted or rejected, once.
LEMMA EmitSound ==
    ASSUME ReportInv, NEW r \in Request, Emit(r)
    PROVE  ReportInv'
  <1>1. /\ phase[r] = "complete"
        /\ \/ \E e \in Accepted(r) :
                /\ event' = [event EXCEPT ![r] = Append(event[r], e)]
                /\ phase' = [phase EXCEPT ![r] = "publishing"]
           \/ /\ Accepted(r) = {}
              /\ phase' = [phase EXCEPT ![r] = "reported"]
              /\ UNCHANGED event
        /\ UNCHANGED <<flow, call, ending, inner, outer, sent, logged>>
    BY DEF Emit, Accepted
  <1>2. Kinds'
    BY <1>1 DEF ReportInv, Kinds
  <1>3. Results(r)' = Results(r) /\ Accepted(r)' = Accepted(r)
    BY <1>1, AcceptedSame DEF Results
  <1>4. event[r] = <<>> /\ DOMAIN event = Request
    BY <1>1 DEF ReportInv, Kinds, Reported
  <1>5. Emitted(r)' /\ phase'[r] \in {"reported", "publishing"}
    <2>1. CASE \E e \in Accepted(r) :
                /\ event' = [event EXCEPT ![r] = Append(event[r], e)]
                /\ phase' = [phase EXCEPT ![r] = "publishing"]
      <3>1. PICK e \in Accepted(r) :
                /\ event' = [event EXCEPT ![r] = Append(event[r], e)]
                /\ phase' = [phase EXCEPT ![r] = "publishing"]
        BY <2>1
      <3>2. Append(<<>>, e) = <<e>>
        OBVIOUS
      <3>3. event'[r] = <<e>>
        BY <1>4, <3>1, <3>2
      <3>4. phase'[r] = "publishing"
        BY <3>1 DEF ReportInv, Kinds
      <3>5. QED
        BY <1>3, <3>3, <3>4 DEF Emitted
    <2>2. CASE /\ Accepted(r) = {}
               /\ phase' = [phase EXCEPT ![r] = "reported"]
               /\ UNCHANGED event
      BY <1>3, <1>4, <2>2 DEF Emitted, ReportInv, Kinds
    <2>3. QED
      BY <1>1, <2>1, <2>2
  <1>6. Reported(r)'
    BY <1>1, <1>3, <1>5 DEF ReportInv, Reported
  <1>7. Written(r)'
    BY <1>1, <1>5 DEF ReportInv, Written, Panicked
  <1>8. ASSUME NEW q \in Request \ {r} PROVE phase'[q] = phase[q] /\ event'[q] = event[q]
    BY <1>1 DEF ReportInv, Kinds
  <1>9. QED
    BY <1>1, <1>2, <1>6, <1>7, <1>8, OthersStay

\* The publisher answers, or its time is up.
LEMMA PublishedSound ==
    ASSUME ReportInv, NEW r \in Request, Published(r) \/ PublishTimeout(r)
    PROVE  ReportInv'
  <1>1. /\ phase[r] = "publishing" /\ phase' = [phase EXCEPT ![r] = "reported"]
        /\ UNCHANGED <<flow, call, ending, inner, outer, sent, event, logged>>
    BY DEF Published, PublishTimeout
  <1>2. Kinds'
    BY <1>1 DEF ReportInv, Kinds
  <1>3. Results(r)' = Results(r) /\ Accepted(r)' = Accepted(r)
    BY <1>1, AcceptedSame DEF Results
  <1>4. phase'[r] = "reported"
    BY <1>1 DEF ReportInv, Kinds
  <1>5. Reported(r)'
    BY <1>1, <1>3, <1>4 DEF ReportInv, Reported, Emitted
  <1>6. Written(r)'
    BY <1>1, <1>4 DEF ReportInv, Written, Panicked
  <1>7. QED
    BY <1>1, <1>2, <1>5, <1>6, OthersStay DEF ReportInv, Kinds

\* The log has what the outer writer kept, or 200.
LEMMA LogRequestSound ==
    ASSUME ReportInv, NEW r \in Request, LogRequest(r)
    PROVE  ReportInv'
  <1>1. /\ phase[r] = "reported"
        /\ phase' = [phase EXCEPT ![r] = "ended"]
        /\ logged' = [logged EXCEPT ![r] = Append(logged[r], Logged(outer[r]))]
        /\ sent' = [sent EXCEPT ![r] = IF sent[r] = 0 THEN 200 ELSE sent[r]]
        /\ UNCHANGED <<flow, call, ending, inner, outer, event>>
    BY DEF LogRequest
  <1>2. Kinds'
    BY <1>1 DEF ReportInv, Kinds
  <1>3. Results(r)' = Results(r) /\ Accepted(r)' = Accepted(r)
    BY <1>1, AcceptedSame DEF Results
  <1>4. /\ phase'[r] = "ended" /\ sent'[r] = IF sent[r] = 0 THEN 200 ELSE sent[r]
        /\ logged'[r] = Append(logged[r], Logged(outer[r]))
    BY <1>1 DEF ReportInv, Kinds
  <1>5. Reported(r)'
    BY <1>1, <1>3, <1>4 DEF ReportInv, Reported, Emitted
  <1>6. Written(r)'
    <2>1. sent[r] = outer[r] /\ logged[r] = <<>> /\ (flow[r] = "http" => inner[r] = outer[r])
      BY <1>1 DEF ReportInv, Written
    <2>2. sent'[r] = Logged(outer[r]) /\ logged'[r] = <<sent'[r]>>
      BY <1>4, <2>1 DEF Logged
    <2>3. QED
      BY <1>1, <1>4, <2>1, <2>2 DEF Written, Panicked, Logged
  <1>7. QED
    BY <1>1, <1>2, <1>5, <1>6, OthersStay DEF ReportInv, Kinds

\* A panic is not logged.
LEMMA AbortSound ==
    ASSUME ReportInv, NEW r \in Request, Abort(r)
    PROVE  ReportInv'
  <1>1. /\ phase[r] = "reported" /\ ending[r] = <<"panicked">>
        /\ phase' = [phase EXCEPT ![r] = "ended"]
        /\ UNCHANGED <<flow, call, ending, inner, outer, sent, event, logged>>
    BY DEF Abort
  <1>2. Kinds'
    BY <1>1 DEF ReportInv, Kinds
  <1>3. Results(r)' = Results(r) /\ Accepted(r)' = Accepted(r)
    BY <1>1, AcceptedSame DEF Results
  <1>4. phase'[r] = "ended"
    BY <1>1 DEF ReportInv, Kinds
  <1>5. Reported(r)'
    BY <1>1, <1>3, <1>4 DEF ReportInv, Reported, Emitted
  <1>6. Written(r)'
    BY <1>1, <1>4 DEF ReportInv, Written, Panicked
  <1>7. QED
    BY <1>1, <1>2, <1>5, <1>6, OthersStay DEF ReportInv, Kinds

\* Every step keeps the invariant.
LEMMA RequestsInvariant ==
    ReportInv /\ [EventsNext]_eventVars => ReportInv'
  <1> SUFFICES ASSUME ReportInv, [EventsNext]_eventVars PROVE ReportInv'
    OBVIOUS
  <1>1. CASE UNCHANGED eventVars
    <2>1. UNCHANGED <<phase, flow, call, ending, inner, outer, sent, event, logged>>
      BY <1>1 DEF eventVars
    <2>2. Kinds'
      BY <2>1 DEF ReportInv, Kinds
    <2>3. ASSUME NEW r \in Request PROVE Reported(r)' /\ Written(r)'
      <3>1. Results(r)' = Results(r) /\ Accepted(r)' = Accepted(r)
        BY <2>1, AcceptedSame DEF Results
      <3>2. QED
        BY <2>1, <3>1 DEF ReportInv, Reported, Emitted, Written, Panicked
    <2>4. QED
      BY <2>2, <2>3 DEF ReportInv
  <1>2. ASSUME NEW r \in Request, NEW f \in Flow, NEW c \in ToolCall,
               Arrive(r, f, c)
        PROVE  ReportInv'
    BY <1>2, ArriveSound
  <1>3. ASSUME NEW r \in Request, NEW s \in Status, WriteHeader(r, s) PROVE ReportInv'
    BY <1>3, WriteHeaderSound
  <1>4. ASSUME NEW r \in Request, NEW x \in Result, HandlerEnds(r, x)
        PROVE  ReportInv'
    BY <1>4, HandlerEndsSound
  <1>5. ASSUME NEW r \in Request, Emit(r) PROVE ReportInv'
    BY <1>5, EmitSound
  <1>6. ASSUME NEW r \in Request, Published(r) \/ PublishTimeout(r) PROVE ReportInv'
    BY <1>6, PublishedSound
  <1>7. ASSUME NEW r \in Request, LogRequest(r) PROVE ReportInv'
    BY <1>7, LogRequestSound
  <1>8. ASSUME NEW r \in Request, Abort(r) PROVE ReportInv'
    BY <1>8, AbortSound
  <1>9. QED
    BY <1>1, <1>2, <1>3, <1>4, <1>5, <1>6, <1>7, <1>8 DEF EventsNext

\* At most one event of a request is accepted, and none exactly if it is unreported.
LEMMA OneAccepted ==
    ASSUME ReportInv, NEW r \in Request, ending[r] \in Results(r)
    PROVE  /\ Accepted(r) \subseteq Event
           /\ \A e, f \in Accepted(r) : e = f
           /\ Accepted(r) = {} <=> Unreported(r)
  <1>1. flow[r] \in Flow /\ inner[r] \in Nat /\ call[r] \in ToolCall
    <2>1. Status \cup {0} \subseteq Nat
      BY EventsAssumption
    <2>2. flow[r] \in Flow /\ inner[r] \in Status \cup {0} /\ call[r] \in ToolCall
      BY DEF ReportInv, Kinds
    <2>3. QED
      BY <2>1, <2>2
  <1>2. CASE flow[r] = "unassigned"
    <2>1. Accepted(r) = {}
      BY <1>2 DEF Accepted, Completion
    <2>2. QED
      BY <1>2, <2>1 DEF Unreported
  <1>3. CASE flow[r] = "http"
    <2>1. \E e \in Event : Accepted(r) = {e}
      BY <1>1, <1>3, HTTPAccepted
    <2>2. QED
      BY <1>3, <2>1 DEF Unreported
  <1>4. CASE flow[r] = "operator"
    <2>1. \E e \in Event : Accepted(r) = {e}
      BY <1>4, OperatorAccepted
    <2>2. QED
      BY <1>4, <2>1 DEF Unreported
  <1>5. CASE flow[r] = "tool"
    BY <1>1, <1>5, ToolAccepted DEF Unreported
  <1>6. QED
    BY <1>1, <1>2, <1>3, <1>4, <1>5 DEF Flow

\* The events of a request are well formed, and told as the property says.
LEMMA EventsTold ==
    ASSUME ReportInv, NEW r \in Request
    PROVE  /\ event[r] \in Seq(Event) /\ Len(event[r]) <= 1
           /\ phase[r] \in {"reported", "ended"} => (event[r] = <<>> <=> Unreported(r))
           /\ phase[r] = "ended" => \A i \in DOMAIN event[r] : event[r][i] \in Accepted(r)
  <1>1. CASE phase[r] \in {"idle", "running", "complete"}
    <2>1. event[r] = <<>>
      BY <1>1 DEF ReportInv, Reported
    <2>2. QED
      BY <1>1, <2>1
  <1>2. CASE phase[r] \in {"publishing", "reported", "ended"}
    <2>1. ending[r] \in Results(r) /\ Emitted(r)
      BY <1>2 DEF ReportInv, Reported
    <2>2. CASE event[r] = <<>> /\ Accepted(r) = {}
      BY <2>1, <2>2, OneAccepted
    <2>3. CASE \E e \in Accepted(r) : event[r] = <<e>>
      <3>1. PICK e \in Accepted(r) : event[r] = <<e>>
        BY <2>3
      <3>2. e \in Event /\ ~Unreported(r)
        BY <2>1, OneAccepted
      <3>3. /\ event[r] \in Seq(Event) /\ Len(event[r]) = 1 /\ event[r] # <<>>
            /\ DOMAIN event[r] = {1} /\ event[r][1] = e
        BY <3>1, <3>2
      <3>4. QED
        BY <3>2, <3>3
    <2>4. QED
      BY <2>1, <2>2, <2>3 DEF Emitted
  <1>3. QED
    BY <1>1, <1>2 DEF ReportInv, Kinds

\* The invariant implies the properties.
LEMMA ReportsSound ==
    ReportInv => ReportsTruthful
  <1> SUFFICES ASSUME ReportInv PROVE ReportsTruthful
    OBVIOUS
  <1>1. Kinds /\ \A r \in Request : Reported(r) /\ Written(r)
    BY DEF ReportInv
  <1>2. EventsTypeOK
    <2>1. ASSUME NEW r \in Request
          PROVE  /\ event[r] \in Seq(Event)
                 /\ {inner[r], outer[r], sent[r]} \subseteq Status \cup {0, 200}
                 /\ logged[r] \in Seq(Status \cup {200})
      <3>1. event[r] \in Seq(Event)
        BY EventsTold
      <3>2. {inner[r], outer[r], sent[r]} \subseteq Status \cup {0, 200}
        BY <1>1 DEF Kinds
      <3>3. logged[r] \in Seq(Status \cup {200})
        <4>1. CASE logged[r] = <<>>
          BY <4>1
        <4>2. CASE logged[r] = <<sent[r]>> /\ sent[r] = Logged(outer[r])
          <5>1. Logged(outer[r]) \in Status \cup {200}
            BY <1>1 DEF Kinds, Logged
          <5>2. QED
            BY <4>2, <5>1
        <4>3. QED
          BY <1>1, <4>1, <4>2 DEF Written
      <3>4. QED
        BY <3>1, <3>2, <3>3
    <2>2. QED
      BY <1>1, <2>1 DEF Kinds, EventsTypeOK
  <1>3. EventTruthful
    <2>1. ASSUME NEW r \in Request, phase[r] = "ended", NEW i \in DOMAIN event[r]
          PROVE  LET e == event[r][i]
                     succeeded == e.outcome = "success"
                 IN  CASE e.flow = "http" -> succeeded <=> (~Panicked(r) /\ sent[r] < 400)
                       [] e.flow = "tool" ->
                            /\ succeeded <=> (ending[r] # <<"error">>)
                            /\ e.telemetry \in {"none", call[r].context}
                            /\ \A n \in Count :
                                ending[r] = <<"counted", n>> => n \in Covers(e.bucket)
                       [] e.flow = "operator" ->
                            ~succeeded <=> (\E c \in Code : ending[r] = <<"code", c>>)
      <3> DEFINE e == event[r][i]
      <3>1. e \in Accepted(r) /\ ending[r] \in Results(r) /\ Written(r)
        BY <1>1, <2>1, EventsTold DEF Reported
      <3>2. flow[r] \in Flow /\ call[r] \in ToolCall /\ inner[r] \in Nat
        <4>1. Status \cup {0} \subseteq Nat
          BY EventsAssumption
        <4>2. QED
          BY <1>1, <4>1 DEF Kinds
      <3> HIDE DEF e
      <3>3. CASE flow[r] = "http"
        <4>1. /\ e.flow = "http"
              /\ e.outcome = "success" <=> ~Panicked(r) /\ Logged(inner[r]) < 400
          BY <3>1, <3>2, <3>3, HTTPAccepted
        <4>2. ~Panicked(r) => sent[r] = Logged(inner[r])
          BY <2>1, <3>1, <3>3 DEF Written
        <4>3. QED
          BY <4>1, <4>2 DEF e
      <3>4. CASE flow[r] = "tool"
        <4>1. /\ e.flow = "tool"
              /\ e.outcome = "success" <=> ending[r] # <<"error">>
              /\ e.telemetry \in {"none", call[r].context}
              /\ \A n \in Count : ending[r] = <<"counted", n>> => n \in Covers(e.bucket)
          BY <3>1, <3>2, <3>4, ToolAccepted
        <4>2. QED
          BY <4>1 DEF e
      <3>5. CASE flow[r] = "operator"
        <4>1. /\ e.flow = "operator"
              /\ ~(e.outcome = "success") <=> \E c \in Code : ending[r] = <<"code", c>>
          BY <3>1, <3>5, OperatorAccepted
        <4>2. QED
          BY <4>1 DEF e
      <3>6. flow[r] # "unassigned"
        BY <3>1, OneAccepted DEF Unreported
      <3>7. QED
        BY <3>2, <3>3, <3>4, <3>5, <3>6 DEF Flow
    <2>2. QED
      BY <2>1 DEF EventTruthful
  <1>4. FlowReported
    BY EventsTold DEF FlowReported
  <1>5. LogTruthful
    BY <1>1 DEF LogTruthful, Written
  <1>6. QED
    BY <1>2, <1>3, <1>4, <1>5 DEF ReportsTruthful

\* However often a handler writes, and whether or not it panics, no request has two
\* events, those without one are of no flow, tool calls that panicked or tool calls whose
\* context one validation accepts and the other rejects, and the event and the access log
\* tell the outcome and the status that the client saw.
THEOREM Reports ==
    EventsSpec => []ReportsTruthful
  <1>1. EventsInit => ReportInv
    BY NoRequest
  <1>2. ReportInv /\ [EventsNext]_eventVars => ReportInv'
    BY RequestsInvariant
  <1>3. ReportInv => ReportsTruthful
    BY ReportsSound
  <1>4. QED
    BY <1>1, <1>2, <1>3, PTL DEF EventsSpec

-----------------------------------------------------------------------------
(* Sorting *)

\* O orders V strictly and totally.
Order(V, O) ==
    /\ \A v \in V : <<v, v>> \notin O
    /\ \A u, v, w \in V : <<u, v>> \in O /\ <<v, w>> \in O => <<u, w>> \in O
    /\ \A u, v \in V : u = v \/ <<u, v>> \in O \/ <<v, u>> \in O

Before(V, O, v) == {u \in V : <<u, v>> \in O}

\* The entries of D as p lists them, none of them after one with a value that follows
\* its own in O.
Sorted(p, F, O) == \A i, j \in DOMAIN p : i < j => <<F[p[j]], F[p[i]]>> \notin O

Listings(D) == Bijection(1 .. Cardinality(D), D)

\* The later an entry, the more come before it.
LEMMA BeforeStrict ==
    ASSUME NEW D, IsFiniteSet(D), NEW O, Order(D, O), NEW d \in D, NEW e \in D,
           <<d, e>> \in O
    PROVE  /\ Cardinality(Before(D, O, d)) \in Nat /\ Cardinality(Before(D, O, e)) \in Nat
           /\ Cardinality(Before(D, O, d)) < Cardinality(Before(D, O, e))
  <1>1. Before(D, O, d) \subseteq Before(D, O, e)
    BY DEF Before, Order
  <1>2. d \in Before(D, O, e) /\ d \notin Before(D, O, d)
    BY DEF Before, Order
  <1>3. IsFiniteSet(Before(D, O, e))
    BY FS_Subset DEF Before
  <1>4. /\ IsFiniteSet(Before(D, O, d))
        /\ Cardinality(Before(D, O, d)) <= Cardinality(Before(D, O, e))
        /\ Cardinality(Before(D, O, d)) # Cardinality(Before(D, O, e))
    BY <1>1, <1>2, <1>3, FS_Subset
  <1>5. Cardinality(Before(D, O, d)) \in Nat /\ Cardinality(Before(D, O, e)) \in Nat
    BY <1>3, <1>4, FS_CardinalityType
  <1>6. QED
    BY <1>4, <1>5

\* A finite set can be listed in a strict total order.
LEMMA ListingExists ==
    ASSUME NEW D, IsFiniteSet(D), NEW O, Order(D, O)
    PROVE  \E p \in Listings(D) : \A i, j \in DOMAIN p : i < j => <<p[j], p[i]>> \notin O
  <1> DEFINE n == Cardinality(D)
             rank == [d \in D |-> Cardinality(Before(D, O, d)) + 1]
             p == [i \in 1 .. n |-> CHOOSE d \in D : rank[d] = i]
  <1>1. n \in Nat /\ IsFiniteSet(1 .. n) /\ Cardinality(1 .. n) = n
    BY FS_CardinalityType, FS_Interval
  <1>2. ASSUME NEW d \in D PROVE rank[d] \in 1 .. n
    <2>1. Before(D, O, d) \subseteq D /\ d \notin Before(D, O, d)
      BY DEF Before, Order
    <2>2. /\ IsFiniteSet(Before(D, O, d))
          /\ Cardinality(Before(D, O, d)) <= n /\ Cardinality(Before(D, O, d)) # n
      BY <2>1, FS_Subset
    <2>3. Cardinality(Before(D, O, d)) \in Nat
      BY <2>2, FS_CardinalityType
    <2>4. QED
      BY <1>1, <2>2, <2>3
  <1>3. \A d, e \in D : <<d, e>> \in O => rank[d] < rank[e]
    BY BeforeStrict
  <1> HIDE DEF n
  <1>4. rank \in [D -> 1 .. n]
    BY <1>2
  <1> HIDE DEF rank
  <1>5. ASSUME NEW d \in D, NEW e \in D, rank[d] = rank[e] PROVE d = e
    <2>1. rank[d] \in Int /\ rank[e] \in Int
      BY <1>4
    <2>2. <<d, e>> \notin O /\ <<e, d>> \notin O
      BY <1>3, <1>5, <2>1
    <2>3. QED
      BY <2>2 DEF Order
  <1>6. rank \in Injection(D, 1 .. n)
    BY <1>4, <1>5 DEF Injection, IsInjective
  <1>7. rank \in Surjection(D, 1 .. n)
    BY <1>1, <1>6, FS_Injection DEF n
  <1>8. \A i \in 1 .. n : p[i] \in D /\ rank[p[i]] = i
    BY <1>7 DEF Surjection
  <1>9. p \in [1 .. n -> D]
    BY <1>8
  <1> HIDE DEF p
  <1>10. p \in Bijection(1 .. n, D)
    <2>1. \A i, j \in 1 .. n : p[i] = p[j] => i = j
      BY <1>8
    <2>2. \A d \in D : p[rank[d]] = d
      BY <1>4, <1>5, <1>8
    <2>3. QED
      BY <1>4, <1>9, <2>1, <2>2 DEF Bijection, Injection, Surjection, IsInjective
  <1>11. ASSUME NEW i \in 1 .. n, NEW j \in 1 .. n, i < j PROVE <<p[j], p[i]>> \notin O
    BY <1>1, <1>3, <1>8, <1>11
  <1>12. QED
    BY <1>9, <1>10, <1>11 DEF Listings, n

\* Numbered entries can be sorted by their values.
LEMMA SortedExists ==
    ASSUME NEW D, IsFiniteSet(D), D \subseteq Int, NEW V, NEW F \in [D -> V],
           NEW O, Order(V, O)
    PROVE  \E p \in Listings(D) : Sorted(p, F, O)
  <1> DEFINE R == {de \in D \X D : \/ <<F[de[1]], F[de[2]]>> \in O
                                   \/ F[de[1]] = F[de[2]] /\ de[1] < de[2]}
  <1>1. \A d, e \in D : <<d, e>> \in R <=> \/ <<F[d], F[e]>> \in O
                                           \/ F[d] = F[e] /\ d < e
    OBVIOUS
  <1> HIDE DEF R
  <1>2. Order(D, R)
    <2>1. ASSUME NEW d \in D PROVE <<d, d>> \notin R
      <3>1. F[d] \in V /\ d \in Int
        OBVIOUS
      <3>2. <<F[d], F[d]>> \notin O
        BY <3>1 DEF Order
      <3>3. QED
        BY <1>1, <3>1, <3>2
    <2>2. ASSUME NEW d \in D, NEW e \in D, NEW f \in D, <<d, e>> \in R, <<e, f>> \in R
          PROVE  <<d, f>> \in R
      <3>1. /\ F[d] \in V /\ F[e] \in V /\ F[f] \in V
            /\ d \in Int /\ e \in Int /\ f \in Int
        OBVIOUS
      <3>2. /\ <<F[d], F[e]>> \in O \/ (F[d] = F[e] /\ d < e)
            /\ <<F[e], F[f]>> \in O \/ (F[e] = F[f] /\ e < f)
        BY <1>1, <2>2
      <3>3. <<F[d], F[f]>> \in O \/ (F[d] = F[f] /\ d < f)
        BY <3>1, <3>2 DEF Order
      <3>4. QED
        BY <1>1, <3>3
    <2>3. ASSUME NEW d \in D, NEW e \in D PROVE d = e \/ <<d, e>> \in R \/ <<e, d>> \in R
      <3>1. F[d] \in V /\ F[e] \in V /\ d \in Int /\ e \in Int
        OBVIOUS
      <3>2. F[d] = F[e] \/ <<F[d], F[e]>> \in O \/ <<F[e], F[d]>> \in O
        BY <3>1 DEF Order
      <3>3. QED
        BY <1>1, <3>1, <3>2
    <2>4. QED
      BY <2>1, <2>2, <2>3 DEF Order
  <1>3. PICK p \in Listings(D) : \A i, j \in DOMAIN p : i < j => <<p[j], p[i]>> \notin R
    BY <1>2, ListingExists
  <1>4. ASSUME NEW i \in DOMAIN p, NEW j \in DOMAIN p, i < j
        PROVE  <<F[p[j]], F[p[i]]>> \notin O
    <2>1. p[i] \in D /\ p[j] \in D
      BY DEF Listings, Bijection, Injection
    <2>2. QED
      BY <1>1, <1>3, <1>4, <2>1
  <1>5. QED
    BY <1>4 DEF Sorted

\* The first entries of a listing are as many as their number.
LEMMA FirstOf ==
    ASSUME NEW D, IsFiniteSet(D), NEW p \in Listings(D), NEW i \in 0 .. Cardinality(D),
           NEW A, A = {p[k] : k \in 1 .. i}
    PROVE  A \subseteq D /\ IsFiniteSet(A) /\ Cardinality(A) = i
  <1> DEFINE n == Cardinality(D)
             q == [k \in 1 .. i |-> p[k]]
  <1>1. n \in Nat /\ IsFiniteSet(1 .. i) /\ Cardinality(1 .. i) = i
    BY FS_CardinalityType, FS_Interval
  <1>2. p \in [1 .. n -> D] /\ \A j, k \in 1 .. n : p[j] = p[k] => j = k
    BY DEF Listings, Bijection, Injection, IsInjective
  <1> HIDE DEF n
  <1>3. 1 .. i \subseteq 1 .. n
    BY <1>1 DEF n
  <1>4. A \subseteq D
    BY <1>2, <1>3
  <1>5. q \in Bijection(1 .. i, A)
    <2>1. \A j, k \in 1 .. i : p[j] = p[k] => j = k
      BY <1>2, <1>3
    <2>2. QED
      BY <2>1 DEF Bijection, Injection, Surjection, IsInjective
  <1> HIDE DEF q
  <1>6. IsFiniteSet(A) /\ Cardinality(A) = i
    BY <1>1, <1>5, FS_Bijection DEF ExistsBijection
  <1>7. QED
    BY <1>4, <1>6

\* However entries are sorted, the values are listed in the same order.
LEMMA SortedOnce ==
    ASSUME NEW D, IsFiniteSet(D), NEW V, NEW F \in [D -> V], NEW O, Order(V, O),
           NEW p \in Listings(D), Sorted(p, F, O),
           NEW q \in Listings(D), Sorted(q, F, O),
           NEW i \in 1 .. Cardinality(D)
    PROVE  <<F[p[i]], F[q[i]]>> \notin O
  <1> SUFFICES ASSUME <<F[p[i]], F[q[i]]>> \in O PROVE FALSE
    OBVIOUS
  <1> DEFINE n == Cardinality(D)
             A == {p[k] : k \in 1 .. i}
             B == {q[k] : k \in 1 .. (i - 1)}
  <1>1. n \in Nat /\ i \in 1 .. n /\ i - 1 \in 0 .. n /\ i \in 0 .. n
    BY FS_CardinalityType
  <1>2. /\ A \subseteq D /\ IsFiniteSet(A) /\ Cardinality(A) = i
        /\ B \subseteq D /\ IsFiniteSet(B) /\ Cardinality(B) = i - 1
    <2>1. A = {p[k] : k \in 1 .. i} /\ B = {q[k] : k \in 1 .. (i - 1)}
      OBVIOUS
    <2> HIDE DEF A, B
    <2>2. A \subseteq D /\ IsFiniteSet(A) /\ Cardinality(A) = i
      BY <1>1, <2>1, FirstOf DEF n
    <2>3. B \subseteq D /\ IsFiniteSet(B) /\ Cardinality(B) = i - 1
      BY <1>1, <2>1, FirstOf DEF n
    <2>4. QED
      BY <2>2, <2>3
  <1>3. /\ p \in [1 .. n -> D] /\ q \in [1 .. n -> D]
        /\ \A d \in D : \E k \in 1 .. n : q[k] = d
    BY DEF Listings, Bijection, Injection, Surjection
  <1> HIDE DEF n
  <1>4. ASSUME NEW k \in 1 .. i PROVE p[k] \in B
    <2>1. k \in 1 .. n /\ p[k] \in D
      BY <1>1, <1>3
    <2>2. PICK m \in 1 .. n : q[m] = p[k]
      BY <1>3, <2>1
    <2>3. F[p[k]] \in V /\ F[p[i]] \in V /\ F[q[i]] \in V
      BY <1>1, <1>3, <2>1
    <2>4. <<F[p[i]], F[p[k]]>> \notin O
      BY <1>1, <1>3, <2>1, <2>3 DEF Sorted, Order
    <2>5. <<F[p[k]], F[q[i]]>> \in O
      BY <2>3, <2>4 DEF Order
    <2>6. m < i
      <3>1. CASE m = i
        BY <2>2, <2>3, <2>5, <3>1 DEF Order
      <3>2. CASE i < m
        BY <1>1, <1>3, <2>2, <2>5, <3>2 DEF Sorted
      <3>3. QED
        BY <1>1, <3>1, <3>2
    <2>7. QED
      BY <1>1, <2>2, <2>6
  <1>5. A \subseteq B
    BY <1>4
  <1> HIDE DEF A, B
  <1>6. i <= i - 1
    BY <1>2, <1>5, FS_Subset
  <1>7. QED
    BY <1>1, <1>6

-----------------------------------------------------------------------------
(* Sums *)

\* A set of subsets of S that is not empty has a member that contains no other.
LEMMA SmallestSubset ==
    ASSUME NEW S, IsFiniteSet(S), NEW F, F \subseteq SUBSET S, F # {}
    PROVE  \E X \in F : \A Y \in F : ~(Y \subseteq X /\ Y # X)
  <1>1. F \subseteq FiniteSubsetsOf(S)
    BY FS_FiniteSubsetsOfFinite
  <1>2. PICK X \in F : \A Y \in F : <<Y, X>> \notin StrictSubsetOrdering(S)
    <2>1. IsWellFoundedOn(StrictSubsetOrdering(S), FiniteSubsetsOf(S))
      BY FS_StrictSubsetOrderingWellFounded
    <2>2. QED
      BY <1>1, <2>1, WFMin
  <1>3. ASSUME NEW Y \in F, Y \subseteq X, Y # X PROVE FALSE
    <2>1. <<Y, X>> \in StrictSubsetOrdering(S)
      BY <1>3 DEF StrictSubsetOrdering
    <2>2. QED
      BY <1>2, <2>1
  <1>4. QED
    BY <1>3

\* SumFunction takes the entries of a set one after another, this one first.
Member(s) == CHOOSE x \in s : TRUE

\* The recursion of a sum over the subsets of S.
Recursion(f, it, S) ==
    [s \in SUBSET S |-> IF s = {} THEN 0 ELSE f[Member(s)] + it[s \ {Member(s)}]]

Solves(f, it, S) == it = Recursion(f, it, S)

SumOver(f, S) == (CHOOSE it : Solves(f, it, S))[S]

\* SumFunction is such a sum.
LEMMA SumIsOver == ASSUME NEW f PROVE SumFunction(f) = SumOver(f, DOMAIN f)
  BY DEF SumFunction, SumFunctionOnSet, FoldFunctionOnSet, MapThenFoldSet, SumOver, Solves,
         Recursion, Member

\* The entry taken first is an entry.
LEMMA MemberIn == ASSUME NEW s, s # {} PROVE Member(s) \in s
  BY DEF Member

\* Solutions agree where both are defined.
LEMMA SolutionsAgree ==
    ASSUME NEW f, NEW S, IsFiniteSet(S), NEW T, NEW U \in SUBSET S, U \subseteq T,
           NEW g, Solves(f, g, S), NEW h, Solves(f, h, T)
    PROVE  g[U] = h[U]
  <1> DEFINE F == {u \in SUBSET S : u \subseteq T /\ g[u] # h[u]}
  <1>1. CASE F = {}
    BY <1>1
  <1>2. CASE F # {}
    <2>1. PICK u \in F : \A y \in F : ~(y \subseteq u /\ y # u)
      <3>1. F \subseteq SUBSET S
        OBVIOUS
      <3> HIDE DEF F
      <3>2. QED
        BY <1>2, <3>1, SmallestSubset
    <2>2. /\ g[u] = IF u = {} THEN 0 ELSE f[Member(u)] + g[u \ {Member(u)}]
          /\ h[u] = IF u = {} THEN 0 ELSE f[Member(u)] + h[u \ {Member(u)}]
      BY DEF Solves, Recursion
    <2>3. u # {}
      BY <2>2
    <2>4. Member(u) \in u
      BY <2>3, MemberIn
    <2>5. g[u \ {Member(u)}] = h[u \ {Member(u)}]
      BY <2>1, <2>4
    <2>6. QED
      BY <2>2, <2>5
  <1>3. QED
    BY <1>1, <1>2

\* The recursion has a solution: take the sums of the proper subsets, and one more step.
LEMMA SolutionExists ==
    ASSUME NEW f, NEW S, IsFiniteSet(S)
    PROVE  \E it : Solves(f, it, S)
  <1> DEFINE F == {u \in SUBSET S : ~\E it : Solves(f, it, u)}
  <1>1. CASE F = {}
    BY <1>1
  <1>2. CASE F # {}
    <2>1. PICK X \in F : \A y \in F : ~(y \subseteq X /\ y # X)
      <3>1. F \subseteq SUBSET S
        OBVIOUS
      <3> HIDE DEF F
      <3>2. QED
        BY <1>2, <3>1, SmallestSubset
    <2> DEFINE Sol(u) == CHOOSE it : Solves(f, it, u)
               next(u) == IF u = {} THEN 0 ELSE f[Member(u)] + Sol(u \ {Member(u)})[u \ {Member(u)}]
               it == [u \in SUBSET X |-> next(u)]
    <2>2. ASSUME NEW u \in SUBSET X, u # X PROVE Solves(f, Sol(u), u)
      <3>1. u \in SUBSET S /\ u \notin F
        BY <2>1, <2>2
      <3>2. \E g : Solves(f, g, u)
        BY <3>1
      <3>3. QED
        BY <3>2
    <2> HIDE DEF Sol
    <2>3. ASSUME NEW u \in SUBSET X, u # X PROVE Sol(u)[u] = next(u)
      <3>1. CASE u = {}
        BY <2>2, <2>3, <3>1 DEF Solves, Recursion
      <3>2. CASE u # {}
        <4> DEFINE w == u \ {Member(u)}
        <4>1. w \in SUBSET X /\ w # X /\ w \subseteq u /\ IsFiniteSet(u)
          <5>1. IsFiniteSet(u)
            BY <2>1, FS_Subset
          <5>2. QED
            BY <3>2, <5>1, MemberIn
        <4>2. Sol(u)[u] = f[Member(u)] + Sol(u)[w]
          BY <2>2, <2>3, <3>2 DEF Solves, Recursion
        <4>3. Sol(u)[w] = Sol(w)[w]
          <5> HIDE DEF w
          <5>1. Solves(f, Sol(u), u) /\ Solves(f, Sol(w), w)
            BY <2>2, <2>3, <4>1
          <5>2. QED
            BY <4>1, <5>1, SolutionsAgree
        <4>4. QED
          BY <3>2, <4>2, <4>3
      <3>3. QED
        BY <3>1, <3>2
    <2>4. ASSUME NEW u \in SUBSET X
          PROVE  it[u] = IF u = {} THEN 0 ELSE f[Member(u)] + it[u \ {Member(u)}]
      <3>1. CASE u = {}
        BY <3>1
      <3>2. CASE u # {}
        <4> DEFINE w == u \ {Member(u)}
        <4>1. w \in SUBSET X /\ w # X
          BY <3>2, MemberIn
        <4>2. it[w] = Sol(w)[w]
          BY <2>3, <4>1
        <4>3. QED
          BY <3>2, <4>2
      <3>3. QED
        BY <3>1, <3>2
    <2>5. Solves(f, it, X)
      <3>1. it = [u \in SUBSET X |-> it[u]]
        OBVIOUS
      <3> HIDE DEF it
      <3>2. QED
        BY <2>4, <3>1 DEF Solves, Recursion
    <2>6. QED
      BY <2>1, <2>5
  <1>3. QED
    BY <1>1, <1>2

\* The sum over a set from its sum without one of its entries, the one taken first.
LEMMA SumStep ==
    ASSUME NEW f, NEW S, IsFiniteSet(S)
    PROVE  SumOver(f, S) = IF S = {} THEN 0 ELSE f[Member(S)] + SumOver(f, S \ {Member(S)})
  <1> DEFINE g == CHOOSE it : Solves(f, it, S)
             T == S \ {Member(S)}
             h == CHOOSE it : Solves(f, it, T)
  <1>1. Solves(f, g, S)
    BY SolutionExists
  <1>2. IsFiniteSet(T) /\ T \subseteq S
    BY FS_Subset
  <1>3. Solves(f, h, T)
    <2> HIDE DEF T
    <2>1. QED
      BY <1>2, SolutionExists
  <1>4. SumOver(f, S) = g[S] /\ SumOver(f, T) = h[T]
    BY DEF SumOver
  <1>5. g[S] = IF S = {} THEN 0 ELSE f[Member(S)] + g[T]
    BY <1>1 DEF Solves, Recursion
  <1> HIDE DEF g, h, T
  <1>6. g[T] = h[T]
    BY <1>1, <1>2, <1>3, SolutionsAgree
  <1>7. QED
    BY <1>4, <1>5, <1>6 DEF T

\* Sums over a set of functions with the same numbers there are one number.
LEMMA SumSame ==
    ASSUME NEW S, IsFiniteSet(S), NEW f, NEW g, \A x \in S : f[x] \in Int /\ g[x] = f[x]
    PROVE  SumOver(f, S) \in Int /\ SumOver(g, S) = SumOver(f, S)
  <1> DEFINE F == {s \in SUBSET S : ~(SumOver(f, s) \in Int /\ SumOver(g, s) = SumOver(f, s))}
  <1>1. CASE F = {}
    BY <1>1
  <1>2. CASE F # {}
    <2>1. PICK s \in F : \A t \in F : ~(t \subseteq s /\ t # s)
      <3>1. F \subseteq SUBSET S
        OBVIOUS
      <3> HIDE DEF F
      <3>2. QED
        BY <1>2, <3>1, SmallestSubset
    <2> DEFINE x == Member(s)
               t == s \ {x}
    <2>2. IsFiniteSet(s)
      BY FS_Subset
    <2>3. SumOver(f, s) = (IF s = {} THEN 0 ELSE f[x] + SumOver(f, t))
      BY <2>2, SumStep
    <2>4. SumOver(g, s) = (IF s = {} THEN 0 ELSE g[x] + SumOver(g, t))
      BY <2>2, SumStep
    <2>5. s # {} => x \in s
      BY MemberIn
    <2>6. s # {} => SumOver(f, t) \in Int /\ SumOver(g, t) = SumOver(f, t)
      BY <2>1, <2>5
    <2> HIDE DEF x, t
    <2>7. QED
      BY <2>1, <2>3, <2>4, <2>5, <2>6
  <1>3. QED
    BY <1>1, <1>2

\* Any entry may be taken first.
LEMMA SumTake ==
    ASSUME NEW S, IsFiniteSet(S), NEW f, \A y \in S : f[y] \in Int, NEW x \in S
    PROVE  SumOver(f, S) = f[x] + SumOver(f, S \ {x})
  <1> DEFINE F == {s \in SUBSET S : \E y \in s : SumOver(f, s) # f[y] + SumOver(f, s \ {y})}
  <1>1. CASE F = {}
    BY <1>1
  <1>2. CASE F # {}
    <2>1. PICK s \in F : \A t \in F : ~(t \subseteq s /\ t # s)
      <3>1. F \subseteq SUBSET S
        OBVIOUS
      <3> HIDE DEF F
      <3>2. QED
        BY <1>2, <3>1, SmallestSubset
    <2>2. PICK y \in s : SumOver(f, s) # f[y] + SumOver(f, s \ {y})
      OBVIOUS
    <2> DEFINE z == Member(s)
               a == s \ {z}
               b == s \ {y}
               c == a \ {y}
    <2> s \in SUBSET S
      OBVIOUS
    <2>3. IsFiniteSet(s)
      BY FS_Subset
    <2>4. SumOver(f, s) = f[z] + SumOver(f, a)
      BY <2>2, <2>3, SumStep
    <2>5. z \in s
      BY <2>2, MemberIn
    <2>6. y # z
      BY <2>2, <2>4
    <2>7. ASSUME NEW t, t \subseteq s, t # s, NEW v \in t
          PROVE  SumOver(f, t) = f[v] + SumOver(f, t \ {v})
      <3>1. t \in SUBSET S /\ t \notin F
        BY <2>1, <2>7
      <3>2. QED
        BY <2>7, <3>1
    <2> HIDE DEF F, z
    <2>8. SumOver(f, a) = f[y] + SumOver(f, c)
      <3>1. a \subseteq s /\ a # s /\ y \in a
        BY <2>2, <2>5, <2>6
      <3> HIDE DEF a
      <3>2. QED
        BY <2>7, <3>1
    <2>9. SumOver(f, b) = f[z] + SumOver(f, c)
      <3>1. b \subseteq s /\ b # s /\ z \in b /\ b \ {z} = c
        BY <2>2, <2>5, <2>6
      <3> HIDE DEF b
      <3>2. SumOver(f, b) = f[z] + SumOver(f, b \ {z})
        BY <2>7, <3>1
      <3>3. QED
        BY <3>1, <3>2
    <2>10. f[y] \in Int /\ f[z] \in Int /\ SumOver(f, c) \in Int
      <3>1. c \in SUBSET s
        OBVIOUS
      <3> HIDE DEF c
      <3>2. IsFiniteSet(c) /\ c \subseteq S /\ s \subseteq S
        BY <2>1, <2>3, <3>1, FS_Subset
      <3>3. SumOver(f, c) \in Int
        BY <3>2, SumSame
      <3>4. QED
        BY <2>2, <2>5, <3>2, <3>3
    <2>11. SumOver(f, s) # f[y] + SumOver(f, b)
      BY <2>2
    <2> HIDE DEF a, b, c
    <2>12. FALSE
      BY <2>4, <2>8, <2>9, <2>10, <2>11
    <2>13. QED
      BY <2>12
  <1>3. QED
    BY <1>1, <1>2

\* SumFunction, of numbers.
LEMMA SumIsInt ==
    ASSUME NEW f, IsFiniteSet(DOMAIN f), \A x \in DOMAIN f : f[x] \in Int
    PROVE  SumFunction(f) \in Int
  BY SumSame, SumIsOver

\* A sum of nothing.
LEMMA SumOfNone == ASSUME NEW f, DOMAIN f = {} PROVE SumFunction(f) = 0
  BY SumStep, SumIsOver, FS_EmptySet

\* One more entry adds its number.
LEMMA SumAdd ==
    ASSUME NEW f, IsFiniteSet(DOMAIN f), \A y \in DOMAIN f : f[y] \in Int,
           NEW x, x \notin DOMAIN f, NEW g, DOMAIN g = DOMAIN f \cup {x},
           \A y \in DOMAIN f : g[y] = f[y], g[x] \in Int
    PROVE  SumFunction(g) = SumFunction(f) + g[x]
  <1> DEFINE D == DOMAIN f
             E == D \cup {x}
  <1>1. IsFiniteSet(E)
    BY FS_AddElement
  <1>2. SumOver(g, E) = g[x] + SumOver(g, D)
    <2>1. E \ {x} = D
      OBVIOUS
    <2> HIDE DEF D
    <2>2. \A y \in E : g[y] \in Int
      BY DEF D
    <2>3. x \in E
      OBVIOUS
    <2> HIDE DEF E
    <2>4. QED
      BY <1>1, <2>1, <2>2, <2>3, SumTake
  <1>3. SumOver(g, D) = SumOver(f, D) /\ SumOver(f, D) \in Int
    <2>1. \A y \in D : f[y] \in Int /\ g[y] = f[y]
      OBVIOUS
    <2>2. IsFiniteSet(D)
      OBVIOUS
    <2> HIDE DEF D
    <2>3. QED
      BY <2>1, <2>2, SumSame
  <1>4. SumFunction(g) = SumOver(g, E) /\ SumFunction(f) = SumOver(f, D)
    BY SumIsOver
  <1> HIDE DEF D, E
  <1>5. QED
    BY <1>2, <1>3, <1>4

\* Another number of one entry changes the sum by the difference.
LEMMA SumChange ==
    ASSUME NEW f, IsFiniteSet(DOMAIN f), \A y \in DOMAIN f : f[y] \in Int,
           NEW x \in DOMAIN f, NEW g, DOMAIN g = DOMAIN f,
           \A y \in DOMAIN f \ {x} : g[y] = f[y], g[x] \in Int
    PROVE  SumFunction(g) = SumFunction(f) + (g[x] - f[x])
  <1> DEFINE D == DOMAIN f
             E == D \ {x}
  <1>1. IsFiniteSet(D) /\ IsFiniteSet(E) /\ x \in D
    BY FS_Subset
  <1>2. \A y \in D : f[y] \in Int /\ g[y] \in Int
    OBVIOUS
  <1>3. SumOver(f, E) \in Int /\ SumOver(g, E) = SumOver(f, E)
    <2>1. \A y \in E : f[y] \in Int /\ g[y] = f[y]
      OBVIOUS
    <2> HIDE DEF E
    <2>2. QED
      BY <1>1, <2>1, SumSame
  <1>4. SumFunction(g) = SumOver(g, D) /\ SumFunction(f) = SumOver(f, D)
    BY SumIsOver
  <1> HIDE DEF D
  <1>5. SumOver(f, D) = f[x] + SumOver(f, E)
    BY <1>1, <1>2, SumTake
  <1>6. SumOver(g, D) = g[x] + SumOver(g, E)
    BY <1>1, <1>2, SumTake
  <1> HIDE DEF E
  <1>7. QED
    BY <1>1, <1>2, <1>3, <1>4, <1>5, <1>6

\* The same entries with the same numbers have the same sum.
LEMMA SumKept ==
    ASSUME NEW f, IsFiniteSet(DOMAIN f), \A y \in DOMAIN f : f[y] \in Int,
           NEW g, DOMAIN g = DOMAIN f, \A y \in DOMAIN f : g[y] = f[y]
    PROVE  SumFunction(g) = SumFunction(f)
  <1>1. SumOver(g, DOMAIN f) = SumOver(f, DOMAIN f)
    BY SumSame
  <1>2. QED
    BY <1>1, SumIsOver

-----------------------------------------------------------------------------
(* The sums of a snapshot *)

\* The sums that the properties speak of: over the rows seen, and over the maps.
CallsSeen(rows) == SumFunction([i \in {j \in DOMAIN rows : TRUE} |-> rows[i].calls])
EventsSeen(rows, e) ==
    SumFunction([i \in {j \in DOMAIN rows : rows[j].event = e} |-> rows[i].events])
LoginsSeen(rows) ==
    SumFunction([i \in {j \in DOMAIN rows : /\ rows[j].event = Session
                                          /\ rows[j].outcome = "success"} |-> rows[i].events])
FailuresListed(list, e) ==
    SumFunction([i \in {j \in DOMAIN list : list[j].event = e} |-> list[i].count])
BucketCalls(map) == SumFunction([k \in DOMAIN map |-> map[k].success + map[k].failure])
BucketFailures(map) == SumFunction([k \in DOMAIN map |-> map[k].failure])
ToolCalls(map) == SumFunction([k \in DOMAIN map |-> map[k].calls])
ToolFailures(map) == SumFunction([k \in DOMAIN map |-> map[k].failures])

\* g is f and, if it is summed, the next of n rows, which adds v.
OneMore(n, f, g, v) ==
    /\ n \in Nat /\ v \in Int
    /\ DOMAIN f \subseteq 1 .. n /\ \A i \in DOMAIN f : f[i] \in Int /\ g[i] = f[i]
    /\ \/ DOMAIN g = DOMAIN f /\ v = 0
       \/ DOMAIN g = DOMAIN f \cup {n + 1} /\ g[n + 1] = v

\* That row changes the sum by what it adds.
LEMMA SumNext ==
    ASSUME NEW n, NEW f, NEW g, NEW v, OneMore(n, f, g, v)
    PROVE  SumFunction(f) \in Int /\ SumFunction(g) = SumFunction(f) + v
  <1> USE DEF OneMore
  <1>1. IsFiniteSet(DOMAIN f) /\ n + 1 \notin DOMAIN f
    <2>1. IsFiniteSet(1 .. n)
      BY FS_Interval
    <2>2. IsFiniteSet(DOMAIN f)
      BY <2>1, FS_Subset
    <2>3. QED
      BY <2>2
  <1>2. SumFunction(f) \in Int
    BY <1>1, SumIsInt
  <1>3. CASE DOMAIN g = DOMAIN f /\ v = 0
    <2>1. SumFunction(g) = SumFunction(f)
      BY <1>1, <1>3, SumKept
    <2>2. QED
      BY <1>2, <1>3, <2>1
  <1>4. CASE DOMAIN g = DOMAIN f \cup {n + 1} /\ g[n + 1] = v
    <2>1. SumFunction(g) = SumFunction(f) + g[n + 1]
      BY <1>1, <1>4, SumAdd
    <2>2. QED
      BY <1>2, <1>4, <2>1
  <1>5. QED
    BY <1>2, <1>3, <1>4

\* The rows seen, and one more.
LEMMA AppendRow ==
    ASSUME NEW R, NEW rows \in Seq(R), NEW row \in R
    PROVE  /\ Append(rows, row) \in Seq(R) /\ Len(rows) \in Nat /\ DOMAIN rows = 1 .. Len(rows)
           /\ DOMAIN Append(rows, row) = 1 .. (Len(rows) + 1)
           /\ \A i \in DOMAIN rows : Append(rows, row)[i] = rows[i]
           /\ Append(rows, row)[Len(rows) + 1] = row
  OBVIOUS

\* A row of the tool query adds its calls.
LEMMA CallsAppend ==
    ASSUME NEW rows \in Seq(ToolRow), \A i \in DOMAIN rows : rows[i].calls \in Int,
           NEW row \in ToolRow, row.calls \in Int
    PROVE  /\ CallsSeen(rows) \in Int
           /\ CallsSeen(Append(rows, row)) = CallsSeen(rows) + row.calls
  <1> DEFINE n == Len(rows)
             more == Append(rows, row)
             A == {j \in DOMAIN rows : TRUE}
             B == {j \in DOMAIN more : TRUE}
             f == [i \in A |-> rows[i].calls]
             g == [i \in B |-> more[i].calls]
             v == row.calls
  <1>1. /\ n \in Nat /\ DOMAIN rows = 1 .. n /\ DOMAIN more = 1 .. (n + 1)
        /\ \A i \in DOMAIN rows : more[i] = rows[i]
        /\ more[n + 1] = row
    BY AppendRow
  <1> HIDE DEF n, more
  <1>2. A \subseteq 1 .. n /\ B = A \cup {n + 1}
    BY <1>1
  <1>3. DOMAIN f = A /\ DOMAIN g = B /\ \A i \in A : f[i] \in Int /\ g[i] = f[i]
    BY <1>1, <1>2
  <1>4. g[n + 1] = row.calls
    BY <1>1, <1>2
  <1> HIDE DEF f, g, A, B
  <1>5. v \in Int
    OBVIOUS
  <1>6. OneMore(n, f, g, v)
    BY <1>1, <1>2, <1>3, <1>4, <1>5 DEF OneMore
  <1> HIDE DEF v
  <1>7. SumFunction(f) \in Int /\ SumFunction(g) = SumFunction(f) + v
    BY <1>6, SumNext
  <1>8. QED
    BY <1>7 DEF CallsSeen, f, g, A, B, more, v

\* A row of the flow query adds its events to those of its event name,
LEMMA EventsAppend ==
    ASSUME NEW rows \in Seq(FlowRow), \A i \in DOMAIN rows : rows[i].events \in Int,
           NEW row \in FlowRow, row.events \in Int, NEW e
    PROVE  /\ EventsSeen(rows, e) \in Int
           /\ EventsSeen(Append(rows, row), e)
                = EventsSeen(rows, e) + (IF row.event = e THEN row.events ELSE 0)
  <1> DEFINE n == Len(rows)
             more == Append(rows, row)
             A == {j \in DOMAIN rows : rows[j].event = e}
             B == {j \in DOMAIN more : more[j].event = e}
             f == [i \in A |-> rows[i].events]
             g == [i \in B |-> more[i].events]
             v == IF row.event = e THEN row.events ELSE 0
  <1>1. /\ n \in Nat /\ DOMAIN rows = 1 .. n /\ DOMAIN more = 1 .. (n + 1)
        /\ \A i \in DOMAIN rows : more[i] = rows[i]
        /\ more[n + 1] = row
    BY AppendRow
  <1> HIDE DEF n, more
  <1>2. A \subseteq 1 .. n /\ B = IF row.event = e THEN A \cup {n + 1} ELSE A
    BY <1>1
  <1>3. DOMAIN f = A /\ DOMAIN g = B /\ \A i \in A : f[i] \in Int /\ g[i] = f[i]
    BY <1>1, <1>2
  <1>4. row.event = e => g[n + 1] = row.events
    BY <1>1, <1>2
  <1> HIDE DEF f, g, A, B
  <1>5. v \in Int
    OBVIOUS
  <1>6. OneMore(n, f, g, v)
    BY <1>1, <1>2, <1>3, <1>4, <1>5 DEF OneMore
  <1> HIDE DEF v
  <1>7. SumFunction(f) \in Int /\ SumFunction(g) = SumFunction(f) + v
    BY <1>6, SumNext
  <1>8. QED
    BY <1>7 DEF EventsSeen, f, g, A, B, more, v

\* to the logins if it is one that succeeded,
LEMMA LoginsAppend ==
    ASSUME NEW rows \in Seq(FlowRow), \A i \in DOMAIN rows : rows[i].events \in Int,
           NEW row \in FlowRow, row.events \in Int
    PROVE  /\ LoginsSeen(rows) \in Int
           /\ LoginsSeen(Append(rows, row))
                = LoginsSeen(rows) + (IF row.event = Session /\ row.outcome = "success"
                                      THEN row.events ELSE 0)
  <1> DEFINE n == Len(rows)
             more == Append(rows, row)
             A == {j \in DOMAIN rows : rows[j].event = Session /\ rows[j].outcome = "success"}
             B == {j \in DOMAIN more : more[j].event = Session /\ more[j].outcome = "success"}
             f == [i \in A |-> rows[i].events]
             g == [i \in B |-> more[i].events]
             login == row.event = Session /\ row.outcome = "success"
             v == IF login THEN row.events ELSE 0
  <1>1. /\ n \in Nat /\ DOMAIN rows = 1 .. n /\ DOMAIN more = 1 .. (n + 1)
        /\ \A i \in DOMAIN rows : more[i] = rows[i]
        /\ more[n + 1] = row
    BY AppendRow
  <1> HIDE DEF n, more
  <1>2. A \subseteq 1 .. n /\ B = IF login THEN A \cup {n + 1} ELSE A
    BY <1>1
  <1>3. DOMAIN f = A /\ DOMAIN g = B /\ \A i \in A : f[i] \in Int /\ g[i] = f[i]
    BY <1>1, <1>2
  <1>4. login => g[n + 1] = row.events
    BY <1>1, <1>2
  <1> HIDE DEF f, g, A, B
  <1>5. v \in Int
    OBVIOUS
  <1>6. OneMore(n, f, g, v)
    BY <1>1, <1>2, <1>3, <1>4, <1>5 DEF OneMore
  <1> HIDE DEF v
  <1>7. SumFunction(f) \in Int /\ SumFunction(g) = SumFunction(f) + v
    BY <1>6, SumNext
  <1>8. QED
    BY <1>7 DEF LoginsSeen, f, g, A, B, more, v

\* and an entry of the list of failures its count to those of its event name.
LEMMA FailuresAppend ==
    ASSUME NEW R, NEW list \in Seq(R), \A i \in DOMAIN list : list[i].count \in Int,
           NEW x \in R, x.count \in Int, NEW e
    PROVE  /\ FailuresListed(list, e) \in Int
           /\ FailuresListed(Append(list, x), e)
                = FailuresListed(list, e) + (IF x.event = e THEN x.count ELSE 0)
  <1> DEFINE n == Len(list)
             more == Append(list, x)
             A == {j \in DOMAIN list : list[j].event = e}
             B == {j \in DOMAIN more : more[j].event = e}
             f == [i \in A |-> list[i].count]
             g == [i \in B |-> more[i].count]
             v == IF x.event = e THEN x.count ELSE 0
  <1>1. /\ n \in Nat /\ DOMAIN list = 1 .. n /\ DOMAIN more = 1 .. (n + 1)
        /\ \A i \in DOMAIN list : more[i] = list[i]
        /\ more[n + 1] = x
    BY AppendRow
  <1> HIDE DEF n, more
  <1>2. A \subseteq 1 .. n /\ B = IF x.event = e THEN A \cup {n + 1} ELSE A
    BY <1>1
  <1>3. DOMAIN f = A /\ DOMAIN g = B /\ \A i \in A : f[i] \in Int /\ g[i] = f[i]
    BY <1>1, <1>2
  <1>4. x.event = e => g[n + 1] = x.count
    BY <1>1, <1>2
  <1> HIDE DEF f, g, A, B
  <1>5. v \in Int
    OBVIOUS
  <1>6. OneMore(n, f, g, v)
    BY <1>1, <1>2, <1>3, <1>4, <1>5 DEF OneMore
  <1> HIDE DEF v
  <1>7. SumFunction(f) \in Int /\ SumFunction(g) = SumFunction(f) + v
    BY <1>6, SumNext
  <1>8. QED
    BY <1>7 DEF FailuresListed, f, g, A, B, more, v

\* Put changes a sum by what the entry's number grows, from 0 if there was none.
LEMMA SumPut ==
    ASSUME NEW f, IsFiniteSet(DOMAIN f), \A y \in DOMAIN f : f[y] \in Int,
           NEW k, NEW g, DOMAIN g = DOMAIN f \cup {k},
           \A y \in DOMAIN f \ {k} : g[y] = f[y], NEW d \in Int,
           g[k] = (IF k \in DOMAIN f THEN f[k] ELSE 0) + d
    PROVE  SumFunction(f) \in Int /\ SumFunction(g) = SumFunction(f) + d
  <1>1. SumFunction(f) \in Int
    BY SumIsInt
  <1>2. CASE k \in DOMAIN f
    <2>1. DOMAIN g = DOMAIN f /\ f[k] \in Int /\ g[k] \in Int
      BY <1>2
    <2>2. SumFunction(g) = SumFunction(f) + (g[k] - f[k])
      BY <1>2, <2>1, SumChange
    <2>3. QED
      BY <1>1, <1>2, <2>1, <2>2
  <1>3. CASE k \notin DOMAIN f
    <2>1. g[k] = d /\ \A y \in DOMAIN f : g[y] = f[y]
      BY <1>3
    <2>2. SumFunction(g) = SumFunction(f) + g[k]
      BY <1>3, <2>1, SumAdd
    <2>3. QED
      BY <1>1, <2>1, <2>2
  <1>4. QED
    BY <1>2, <1>3

\* A sum of nothing but zeros.
LEMMA SumOfZeros ==
    ASSUME NEW f, IsFiniteSet(DOMAIN f), \A y \in DOMAIN f : f[y] = 0
    PROVE  SumFunction(f) = 0
  <1> DEFINE F == {s \in SUBSET DOMAIN f : SumOver(f, s) # 0}
  <1>1. CASE F = {}
    <2>1. SumOver(f, DOMAIN f) = 0
      BY <1>1
    <2>2. QED
      BY <2>1, SumIsOver
  <1>2. CASE F # {}
    <2>1. PICK s \in F : \A t \in F : ~(t \subseteq s /\ t # s)
      <3>1. F \subseteq SUBSET DOMAIN f
        OBVIOUS
      <3> HIDE DEF F
      <3>2. QED
        BY <1>2, <3>1, SmallestSubset
    <2> DEFINE x == Member(s)
               t == s \ {x}
    <2>2. IsFiniteSet(s)
      BY FS_Subset
    <2>3. SumOver(f, s) = IF s = {} THEN 0 ELSE f[x] + SumOver(f, t)
      BY <2>2, SumStep
    <2>4. s # {}
      BY <2>3
    <2>5. x \in s
      BY <2>4, MemberIn
    <2>6. SumOver(f, t) = 0
      BY <2>1, <2>5
    <2>7. f[x] = 0
      BY <2>5
    <2> HIDE DEF x, t
    <2>8. SumOver(f, s) = 0
      BY <2>3, <2>4, <2>6, <2>7
    <2>9. QED
      BY <2>8
  <1>3. QED
    BY <1>1, <1>2

-----------------------------------------------------------------------------
(* The inductive invariant of a snapshot *)

\* Entries of the maps, and of the list of failures.
Counts == [success : Nat, failure : Nat]
ToolCounts == [calls : Nat, failures : Nat]
Failure == [event : Name \cup {0}, reason : FailureReason, count : Nat]

\* A map has finitely many entries.
MapOf(map, Key, Value) ==
    /\ DOMAIN map \subseteq Key /\ IsFiniteSet(DOMAIN map)
    /\ map \in [DOMAIN map -> Value]

Figures ==
    /\ pc \in {"tools", "flows", "done", "error"}
    /\ snapshot \in [total : Nat, failed : Nat, p95 : Nat, logins : Nat, failures : Seq(Failure)]
    /\ MapOf(timeBuckets, Hour, Counts)
    /\ MapOf(tools, Name \cup {0}, ToolCounts)
    /\ MapOf(flows, Name \cup {0}, Counts)

\* Until one is refused, rows have counts.
RowsSeen ==
    /\ toolRows \in Seq(ToolRow) /\ flowRows \in Seq(FlowRow)
    /\ pc # "error" => /\ \A i \in DOMAIN toolRows : toolRows[i].calls \in Nat
                       /\ \A i \in DOMAIN flowRows : flowRows[i].events \in Nat

ToolTotals ==
    /\ snapshot.total = CallsSeen(toolRows)
    /\ snapshot.total = BucketCalls(timeBuckets) /\ snapshot.total = ToolCalls(tools)
    /\ snapshot.failed = BucketFailures(timeBuckets) /\ snapshot.failed = ToolFailures(tools)

\* Of an event without an entry there has been nothing.
FlowTotals ==
    /\ \A e \in Name \cup {0} :
        /\ Entry(flows, e, NoBucket).failure = FailuresListed(snapshot.failures, e)
        /\ Entry(flows, e, NoBucket).success + Entry(flows, e, NoBucket).failure
            = EventsSeen(flowRows, e)
    /\ snapshot.logins = LoginsSeen(flowRows)

Parts ==
    /\ snapshot.failed <= snapshot.total
    /\ \A t \in DOMAIN tools : /\ tools[t].failures <= tools[t].calls
                               /\ tools[t].calls <= snapshot.total
    /\ PartsWithinWhole

SnapshotInv ==
    /\ Figures
    /\ RowsSeen
    /\ pc # "error" => ToolTotals /\ FlowTotals
    /\ Parts
    /\ PercentileNearest
    /\ pc = "tools" => latencyRow = NoPercentile

-----------------------------------------------------------------------------
(* What a row adds *)

\* What Put leaves and what it changes.
LEMMA PutEntry ==
    ASSUME NEW Key, NEW Value, NEW map, MapOf(map, Key, Value), NEW k \in Key, NEW v \in Value
    PROVE  /\ MapOf(Put(map, k, v), Key, Value)
           /\ DOMAIN Put(map, k, v) = DOMAIN map \cup {k}
           /\ Put(map, k, v)[k] = v
           /\ \A j \in DOMAIN map \ {k} : Put(map, k, v)[j] = map[j]
  <1>1. IsFiniteSet(DOMAIN map \cup {k})
    BY FS_AddElement DEF MapOf
  <1>2. QED
    BY <1>1 DEF MapOf, Put

\* An entry, or the one it would be created with.
LEMMA EntryIn ==
    ASSUME NEW Key, NEW Value, NEW map, MapOf(map, Key, Value), NEW k, NEW new \in Value
    PROVE  Entry(map, k, new) \in Value
  BY DEF MapOf, Entry

\* Counts and a row added to them.
LEMMA Outcomes ==
    ASSUME NEW b \in Counts, NEW o, NEW n \in Nat
    PROVE  /\ AddOutcome(b, o, n) \in Counts /\ b.success \in Nat /\ b.failure \in Nat
           /\ AddOutcome(b, o, n).success = b.success + (IF o = "failure" THEN 0 ELSE n)
           /\ AddOutcome(b, o, n).failure = b.failure + (IF o = "failure" THEN n ELSE 0)
  BY DEF AddOutcome, Counts

\* A tool call adds to the calls of its bucket, and to the failures if it failed.
LEMMA BucketSums ==
    ASSUME NEW map, MapOf(map, Hour, Counts), NEW h \in Hour, NEW o, NEW n \in Nat,
           NEW new, new = Put(map, h, AddOutcome(Entry(map, h, NoBucket), o, n))
    PROVE  /\ MapOf(new, Hour, Counts)
           /\ BucketCalls(map) \in Int /\ BucketCalls(new) = BucketCalls(map) + n
           /\ BucketFailures(map) \in Int
           /\ BucketFailures(new) = BucketFailures(map) + (IF o = "failure" THEN n ELSE 0)
  <1> DEFINE b == Entry(map, h, NoBucket)
             v == AddOutcome(b, o, n)
             d == IF o = "failure" THEN n ELSE 0
             f == [k \in DOMAIN map |-> map[k].success + map[k].failure]
             g == [k \in DOMAIN new |-> new[k].success + new[k].failure]
             p == [k \in DOMAIN map |-> map[k].failure]
             q == [k \in DOMAIN new |-> new[k].failure]
  <1>1. b \in Counts
    BY EntryIn DEF NoBucket, Counts
  <1>2. /\ v \in Counts /\ b.success \in Nat /\ b.failure \in Nat
        /\ v.success + v.failure = b.success + b.failure + n /\ v.failure = b.failure + d
        /\ d \in Int
    BY <1>1, Outcomes
  <1>3. /\ h \in DOMAIN map => b = map[h]
        /\ h \notin DOMAIN map => b.success = 0 /\ b.failure = 0
    BY DEF Entry, NoBucket
  <1> HIDE DEF b, v, d
  <1>4. /\ MapOf(new, Hour, Counts) /\ DOMAIN new = DOMAIN map \cup {h} /\ new[h] = v
        /\ \A j \in DOMAIN map \ {h} : new[j] = map[j]
    <2>1. new = Put(map, h, v)
      BY DEF v, b
    <2>2. MapOf(Put(map, h, v), Hour, Counts)
      BY <1>2, PutEntry
    <2>3. /\ DOMAIN new = DOMAIN map \cup {h} /\ new[h] = v
          /\ \A j \in DOMAIN map \ {h} : new[j] = map[j]
      BY <2>1 DEF Put
    <2>4. QED
      BY <2>1, <2>2, <2>3
  <1>5. \A k \in DOMAIN map : map[k].success \in Nat /\ map[k].failure \in Nat
    BY DEF MapOf, Counts
  <1>6. IsFiniteSet(DOMAIN f) /\ IsFiniteSet(DOMAIN p)
    BY DEF MapOf
  <1>7. /\ \A y \in DOMAIN f : f[y] \in Int
        /\ DOMAIN g = DOMAIN f \cup {h} /\ \A y \in DOMAIN f \ {h} : g[y] = f[y]
        /\ g[h] = (IF h \in DOMAIN f THEN f[h] ELSE 0) + n
    <2>1. DOMAIN f = DOMAIN map /\ DOMAIN g = DOMAIN map \cup {h}
      BY <1>4
    <2>2. ASSUME NEW y \in DOMAIN map PROVE f[y] \in Int /\ (y # h => g[y] = f[y])
      BY <1>4, <1>5
    <2>3. g[h] = (IF h \in DOMAIN map THEN f[h] ELSE 0) + n
      <3>1. g[h] = v.success + v.failure
        BY <1>4
      <3>2. h \in DOMAIN map => f[h] = b.success + b.failure
        BY <1>3
      <3> HIDE DEF f, g
      <3>3. QED
        BY <1>2, <1>3, <3>1, <3>2
    <2> HIDE DEF f, g
    <2>4. QED
      BY <2>1, <2>2, <2>3
  <1>8. /\ \A y \in DOMAIN p : p[y] \in Int
        /\ DOMAIN q = DOMAIN p \cup {h} /\ \A y \in DOMAIN p \ {h} : q[y] = p[y]
        /\ q[h] = (IF h \in DOMAIN p THEN p[h] ELSE 0) + d
    <2>1. DOMAIN p = DOMAIN map /\ DOMAIN q = DOMAIN map \cup {h}
      BY <1>4
    <2>2. ASSUME NEW y \in DOMAIN map PROVE p[y] \in Int /\ (y # h => q[y] = p[y])
      BY <1>4, <1>5
    <2>3. q[h] = (IF h \in DOMAIN map THEN p[h] ELSE 0) + d
      <3>1. q[h] = v.failure
        BY <1>4
      <3>2. h \in DOMAIN map => p[h] = b.failure
        BY <1>3
      <3> HIDE DEF p, q
      <3>3. QED
        BY <1>2, <1>3, <3>1, <3>2
    <2> HIDE DEF p, q
    <2>4. QED
      BY <2>1, <2>2, <2>3
  <1> HIDE DEF f, g, p, q
  <1>9. SumFunction(f) \in Int /\ SumFunction(g) = SumFunction(f) + n
    BY <1>6, <1>7, SumPut
  <1>10. SumFunction(p) \in Int /\ SumFunction(q) = SumFunction(p) + d
    BY <1>2, <1>6, <1>8, SumPut
  <1>11. QED
    BY <1>4, <1>9, <1>10 DEF BucketCalls, BucketFailures, f, g, p, q, d

\* AddToTool, of n calls of which d failed.
PutTool(map, t, n, d) ==
    LET e == Entry(map, t, NoTool)
    IN  Put(map, t, [calls |-> e.calls + n, failures |-> e.failures + d])

\* A tool without calls.
LEMMA NoToolIn == NoTool \in ToolCounts
  BY DEF NoTool, ToolCounts

\* So do the calls of a tool, and its failures.
LEMMA ToolSums ==
    ASSUME NEW map, MapOf(map, Name \cup {0}, ToolCounts), NEW t \in Name \cup {0},
           NEW n \in Nat, NEW d \in Nat
    PROVE  /\ MapOf(PutTool(map, t, n, d), Name \cup {0}, ToolCounts)
           /\ ToolCalls(map) \in Int /\ ToolCalls(PutTool(map, t, n, d)) = ToolCalls(map) + n
           /\ ToolFailures(map) \in Int
           /\ ToolFailures(PutTool(map, t, n, d)) = ToolFailures(map) + d
  <1> DEFINE e == Entry(map, t, NoTool)
             new == PutTool(map, t, n, d)
             v == [calls |-> e.calls + n, failures |-> e.failures + d]
             f == [k \in DOMAIN map |-> map[k].calls]
             g == [k \in DOMAIN new |-> new[k].calls]
             p == [k \in DOMAIN map |-> map[k].failures]
             q == [k \in DOMAIN new |-> new[k].failures]
  <1>1. e \in ToolCounts
    <2>1. NoTool \in ToolCounts
      BY DEF NoTool, ToolCounts
    <2>2. QED
      BY <2>1, EntryIn
  <1>2. /\ v \in ToolCounts /\ v.calls = e.calls + n /\ v.failures = e.failures + d
        /\ e.calls \in Nat /\ e.failures \in Nat
    BY <1>1 DEF ToolCounts
  <1>3. /\ t \in DOMAIN map => e = map[t]
        /\ t \notin DOMAIN map => e.calls = 0 /\ e.failures = 0
    BY DEF Entry, NoTool
  <1>0. new = Put(map, t, v)
    BY DEF PutTool
  <1> HIDE DEF v, e, new
  <1>4. /\ MapOf(new, Name \cup {0}, ToolCounts) /\ DOMAIN new = DOMAIN map \cup {t} /\ new[t] = v
        /\ \A j \in DOMAIN map \ {t} : new[j] = map[j]
    <2> DEFINE K == Name \cup {0}
    <2> HIDE DEF K
    <2>2. MapOf(map, K, ToolCounts) /\ t \in K
      BY DEF K
    <2>3. MapOf(Put(map, t, v), K, ToolCounts)
      BY <1>2, <2>2, PutEntry
    <2>4. /\ DOMAIN new = DOMAIN map \cup {t} /\ new[t] = v
          /\ \A j \in DOMAIN map \ {t} : new[j] = map[j]
      BY <1>0 DEF Put
    <2>5. QED
      BY <1>0, <2>3, <2>4 DEF K
  <1>5. \A k \in DOMAIN map : map[k].calls \in Nat /\ map[k].failures \in Nat
    BY DEF MapOf, ToolCounts
  <1>6. IsFiniteSet(DOMAIN f) /\ IsFiniteSet(DOMAIN p)
    BY DEF MapOf
  <1>7. /\ \A y \in DOMAIN f : f[y] \in Int
        /\ DOMAIN g = DOMAIN f \cup {t} /\ \A y \in DOMAIN f \ {t} : g[y] = f[y]
        /\ g[t] = (IF t \in DOMAIN f THEN f[t] ELSE 0) + n
    BY <1>2, <1>3, <1>4, <1>5
  <1>8. /\ \A y \in DOMAIN p : p[y] \in Int
        /\ DOMAIN q = DOMAIN p \cup {t} /\ \A y \in DOMAIN p \ {t} : q[y] = p[y]
        /\ q[t] = (IF t \in DOMAIN p THEN p[t] ELSE 0) + d
    BY <1>2, <1>3, <1>4, <1>5
  <1> HIDE DEF f, g, p, q
  <1>9. SumFunction(f) \in Int /\ SumFunction(g) = SumFunction(f) + n
    BY <1>6, <1>7, SumPut
  <1>10. SumFunction(p) \in Int /\ SumFunction(q) = SumFunction(p) + d
    BY <1>6, <1>8, SumPut
  <1>11. QED
    BY <1>4, <1>9, <1>10 DEF ToolCalls, ToolFailures, f, g, p, q, new

\* The totals, and what is left alone with them.
LEMMA AddTotals ==
    ASSUME NEW F, NEW s \in [total : Nat, failed : Nat, p95 : Nat, logins : Nat, failures : F],
           NEW n \in Nat, NEW d \in Nat, NEW t, t = [s EXCEPT !.total = @ + n, !.failed = @ + d]
    PROVE  /\ t \in [total : Nat, failed : Nat, p95 : Nat, logins : Nat, failures : F]
           /\ t.total = s.total + n /\ t.failed = s.failed + d
           /\ t.failures = s.failures /\ t.logins = s.logins /\ t.p95 = s.p95
           /\ s.total \in Nat /\ s.failed \in Nat
  <1>1. t = [[s EXCEPT !.total = s.total + n] EXCEPT !.failed = s.failed + d]
    BY Zenon
  <1>2. s.total + n \in Nat /\ s.failed + d \in Nat
    OBVIOUS
  <1> DEFINE x == s.total + n
             y == s.failed + d
  <1> HIDE DEF x, y
  <1>3. t = [[s EXCEPT !.total = x] EXCEPT !.failed = y] /\ x \in Nat /\ y \in Nat
    BY <1>1, <1>2 DEF x, y
  <1>4. /\ t \in [total : Nat, failed : Nat, p95 : Nat, logins : Nat, failures : F]
        /\ t.total = x /\ t.failed = y
        /\ t.failures = s.failures /\ t.logins = s.logins /\ t.p95 = s.p95
    BY <1>3
  <1>5. QED
    BY <1>4 DEF x, y

-----------------------------------------------------------------------------
(* Snapshots: every step *)

\* The invariant says what the properties say, and more.
LEMMA FiguresSay == SnapshotInv => FiguresAgree
  <1> SUFFICES ASSUME SnapshotInv PROVE FiguresAgree
    OBVIOUS
  <1>1. SnapshotTypeOK
    <2>1. /\ pc \in {"tools", "flows", "done", "error"}
          /\ snapshot.total \in Nat /\ snapshot.failed \in Nat
          /\ snapshot.p95 \in Nat /\ snapshot.logins \in Nat
      BY DEF SnapshotInv, Figures
    <2>2. /\ \A h \in DOMAIN timeBuckets : timeBuckets[h] \in [success : Nat, failure : Nat]
          /\ \A e \in DOMAIN flows : flows[e] \in [success : Nat, failure : Nat]
      BY DEF SnapshotInv, Figures, MapOf, Counts
    <2>3. \A t \in DOMAIN tools : tools[t] \in [calls : Nat, failures : Nat]
      BY DEF SnapshotInv, Figures, MapOf, ToolCounts
    <2>4. QED
      BY <2>1, <2>2, <2>3 DEF SnapshotTypeOK
  <1>2. ToolTotalsAgree
    BY DEF SnapshotInv, ToolTotals, ToolTotalsAgree, SumRows, SumMap, CallsSeen, BucketCalls,
           BucketFailures, ToolCalls, ToolFailures
  <1>3. FlowTotalsAgree
    <2>1. ASSUME pc # "error", NEW e \in DOMAIN flows
          PROVE  /\ flows[e].failure = FailuresListed(snapshot.failures, e)
                 /\ flows[e].success + flows[e].failure = EventsSeen(flowRows, e)
      <3>1. e \in Name \cup {0} /\ Entry(flows, e, NoBucket) = flows[e]
        BY DEF SnapshotInv, Figures, MapOf, Entry
      <3>2. /\ Entry(flows, e, NoBucket).failure = FailuresListed(snapshot.failures, e)
            /\ Entry(flows, e, NoBucket).success + Entry(flows, e, NoBucket).failure
                = EventsSeen(flowRows, e)
        BY <2>1, <3>1 DEF SnapshotInv, FlowTotals
      <3>3. QED
        BY <3>1, <3>2
    <2>2. pc # "error" => snapshot.logins = LoginsSeen(flowRows)
      BY DEF SnapshotInv, FlowTotals
    <2>3. QED
      BY <2>1, <2>2 DEF FlowTotalsAgree, SumRows, FailuresListed, EventsSeen, LoginsSeen
  <1>4. QED
    BY <1>1, <1>2, <1>3 DEF SnapshotInv, FiguresAgree, Parts

\* The first snapshot is empty.
LEMMA FiguresInit == SnapshotInit => SnapshotInv
  <1> SUFFICES ASSUME SnapshotInit PROVE SnapshotInv
    OBVIOUS
  <1> USE DEF SnapshotInit
  <1>1. MapOf(timeBuckets, Hour, Counts)
    BY SnapshotAssumption DEF MapOf, Counts, NoBucket
  <1>2. MapOf(tools, Name \cup {0}, ToolCounts) /\ MapOf(flows, Name \cup {0}, Counts)
    BY FS_EmptySet DEF MapOf
  <1>3. Figures
    BY <1>1, <1>2 DEF Figures
  <1>4. RowsSeen
    BY DEF RowsSeen
  <1>5. ToolTotals
    <2>1. CallsSeen(toolRows) = 0
      <3> DEFINE f == [i \in {j \in DOMAIN toolRows : TRUE} |-> toolRows[i].calls]
      <3>1. DOMAIN f = {}
        OBVIOUS
      <3> HIDE DEF f
      <3>2. SumFunction(f) = 0
        BY <3>1, SumOfNone
      <3>3. QED
        BY <3>2 DEF CallsSeen, f
    <2>2. ToolCalls(tools) = 0 /\ ToolFailures(tools) = 0
      <3> DEFINE f == [k \in DOMAIN tools |-> tools[k].calls]
                 g == [k \in DOMAIN tools |-> tools[k].failures]
      <3>1. DOMAIN f = {} /\ DOMAIN g = {}
        OBVIOUS
      <3> HIDE DEF f, g
      <3>2. SumFunction(f) = 0 /\ SumFunction(g) = 0
        BY <3>1, SumOfNone
      <3>3. QED
        BY <3>2 DEF ToolCalls, ToolFailures, f, g
    <2>3. BucketCalls(timeBuckets) = 0 /\ BucketFailures(timeBuckets) = 0
      <3> DEFINE f == [k \in DOMAIN timeBuckets |-> timeBuckets[k].success + timeBuckets[k].failure]
                 g == [k \in DOMAIN timeBuckets |-> timeBuckets[k].failure]
      <3>1. /\ DOMAIN f = Window /\ DOMAIN g = Window
            /\ \A k \in Window : f[k] = 0 /\ g[k] = 0
        BY DEF NoBucket
      <3>2. IsFiniteSet(Window)
        BY SnapshotAssumption
      <3> HIDE DEF f, g
      <3>3. SumFunction(f) = 0 /\ SumFunction(g) = 0
        BY <3>1, <3>2, SumOfZeros
      <3>4. QED
        BY <3>3 DEF BucketCalls, BucketFailures, f, g
    <2>4. QED
      BY <2>1, <2>2, <2>3 DEF ToolTotals
  <1>6. FlowTotals
    <2>1. ASSUME NEW e \in Name \cup {0}
          PROVE  FailuresListed(snapshot.failures, e) = 0 /\ EventsSeen(flowRows, e) = 0
      <3> DEFINE f == [i \in {j \in DOMAIN snapshot.failures : snapshot.failures[j].event = e} |->
                        snapshot.failures[i].count]
                 g == [i \in {j \in DOMAIN flowRows : flowRows[j].event = e} |-> flowRows[i].events]
      <3>1. DOMAIN f = {} /\ DOMAIN g = {}
        OBVIOUS
      <3> HIDE DEF f, g
      <3>2. SumFunction(f) = 0 /\ SumFunction(g) = 0
        BY <3>1, SumOfNone
      <3>3. QED
        BY <3>2 DEF FailuresListed, EventsSeen, f, g
    <2>2. LoginsSeen(flowRows) = 0
      <3> DEFINE f == [i \in {j \in DOMAIN flowRows : flowRows[j].event = Session
                                                      /\ flowRows[j].outcome = "success"} |->
                        flowRows[i].events]
      <3>1. DOMAIN f = {}
        OBVIOUS
      <3> HIDE DEF f
      <3>2. SumFunction(f) = 0
        BY <3>1, SumOfNone
      <3>3. QED
        BY <3>2 DEF LoginsSeen, f
    <2>3. \A e : Entry(flows, e, NoBucket) = NoBucket
      BY DEF Entry
    <2>4. QED
      BY <2>1, <2>2, <2>3 DEF FlowTotals, NoBucket
  <1>7. Parts
    BY DEF Parts, PartsWithinWhole, NoResponse
  <1>8. PercentileNearest
    BY DEF PercentileNearest
  <1>9. QED
    BY <1>3, <1>4, <1>5, <1>6, <1>7, <1>8 DEF SnapshotInv

\* A row of the tool query.
LEMMA ToolRowStep == ASSUME SnapshotInv, NEW row \in ToolRow, ReadToolRow(row) PROVE SnapshotInv'
  <1>1. /\ Figures /\ RowsSeen /\ Parts /\ pc = "tools" /\ ToolTotals /\ FlowTotals
        /\ latencyRow' = latencyRow /\ latencyRow = NoPercentile
        /\ toolRows' = Append(toolRows, row) /\ flowRows' = flowRows
    BY DEF SnapshotInv, ReadToolRow
  <1>2. toolRows' \in Seq(ToolRow)
    BY <1>1, AppendRow DEF RowsSeen
  <1>3. CASE ReturnError
    <2>1. /\ pc' = "error" /\ snapshot' = snapshot /\ timeBuckets' = timeBuckets
          /\ tools' = tools /\ flows' = flows /\ response' = response
      BY <1>3 DEF ReturnError
    <2>2. Figures'
      BY <1>1, <2>1 DEF Figures
    <2>3. RowsSeen'
      BY <1>1, <1>2, <2>1 DEF RowsSeen
    <2>4. Parts' /\ PercentileNearest'
      BY <1>1, <2>1 DEF Parts, PartsWithinWhole, PercentileNearest
    <2>5. QED
      BY <2>1, <2>2, <2>3, <2>4 DEF SnapshotInv
  <1>4. CASE ~ReturnError
    <2> DEFINE n == row.calls
               d == IF row.outcome = "failure" THEN row.calls ELSE 0
               e == Entry(tools, row.tool, NoTool)
    <2>0. /\ n \in Nat /\ d \in Nat /\ d <= n
          /\ row.bucket \in Hour /\ row.tool \in Name \cup {0}
      BY <1>1, <1>4 DEF ReadToolRow, ValidToolRow, ValidInt, ToolRow
    <2>1. /\ pc' = pc /\ flows' = flows /\ response' = response
          /\ snapshot' = [snapshot EXCEPT !.total = @ + n, !.failed = @ + d]
          /\ timeBuckets' = AddToBucket(timeBuckets, row) /\ tools' = AddToTool(tools, row)
      BY <1>1, <1>4 DEF ReadToolRow
    <2>2. timeBuckets' = Put(timeBuckets, row.bucket,
                            AddOutcome(Entry(timeBuckets, row.bucket, NoBucket), row.outcome, n))
      BY <2>1 DEF AddToBucket
    <2>3. tools' = Put(tools, row.tool, [calls |-> e.calls + n, failures |-> e.failures + d])
      BY <2>1 DEF AddToTool
    <2>4. /\ MapOf(timeBuckets', Hour, Counts)
          /\ BucketCalls(timeBuckets) \in Int /\ BucketCalls(timeBuckets)' = BucketCalls(timeBuckets) + n
          /\ BucketFailures(timeBuckets) \in Int
          /\ BucketFailures(timeBuckets)' = BucketFailures(timeBuckets) + d
      <3> DEFINE new == timeBuckets'
      <3>1. MapOf(timeBuckets, Hour, Counts)
        BY <1>1 DEF Figures
      <3>2. new = Put(timeBuckets, row.bucket,
                    AddOutcome(Entry(timeBuckets, row.bucket, NoBucket), row.outcome, n))
        BY <2>2
      <3> HIDE DEF new, n
      <3>3. /\ MapOf(new, Hour, Counts)
            /\ BucketCalls(timeBuckets) \in Int /\ BucketCalls(new) = BucketCalls(timeBuckets) + n
            /\ BucketFailures(timeBuckets) \in Int
            /\ BucketFailures(new)
                = BucketFailures(timeBuckets) + (IF row.outcome = "failure" THEN n ELSE 0)
        BY <2>0, <3>1, <3>2, BucketSums
      <3>4. QED
        BY <3>3 DEF new, n, BucketCalls, BucketFailures
    <2>5. /\ MapOf(tools', Name \cup {0}, ToolCounts)
          /\ ToolCalls(tools) \in Int /\ ToolCalls(tools)' = ToolCalls(tools) + n
          /\ ToolFailures(tools) \in Int /\ ToolFailures(tools)' = ToolFailures(tools) + d
          /\ DOMAIN tools' = DOMAIN tools \cup {row.tool}
          /\ \A j \in DOMAIN tools \ {row.tool} : tools'[j] = tools[j]
          /\ tools'[row.tool].calls = e.calls + n /\ tools'[row.tool].failures = e.failures + d
          /\ e.calls \in Nat /\ e.failures \in Nat
          /\ row.tool \in DOMAIN tools => e = tools[row.tool]
          /\ row.tool \notin DOMAIN tools => e.calls = 0 /\ e.failures = 0
      <3> DEFINE new == PutTool(tools, row.tool, n, d)
      <3>1. MapOf(tools, Name \cup {0}, ToolCounts)
        BY <1>1 DEF Figures
      <3>2. tools' = new
        BY <2>3 DEF PutTool
      <3>3. /\ MapOf(new, Name \cup {0}, ToolCounts)
            /\ ToolCalls(tools) \in Int /\ ToolCalls(new) = ToolCalls(tools) + n
            /\ ToolFailures(tools) \in Int /\ ToolFailures(new) = ToolFailures(tools) + d
        <4> HIDE DEF n, d
        <4>1. QED
          BY <2>0, <3>1, ToolSums
      <3>4. e \in ToolCounts
        BY <3>1, NoToolIn, EntryIn
      <3>5. /\ e.calls \in Nat /\ e.failures \in Nat
            /\ row.tool \in DOMAIN tools => e = tools[row.tool]
            /\ row.tool \notin DOMAIN tools => e.calls = 0 /\ e.failures = 0
        BY <3>4 DEF Entry, NoTool, ToolCounts
      <3> HIDE DEF n, d, e
      <3>6. /\ DOMAIN tools' = DOMAIN tools \cup {row.tool}
            /\ \A j \in DOMAIN tools \ {row.tool} : tools'[j] = tools[j]
            /\ tools'[row.tool].calls = e.calls + n /\ tools'[row.tool].failures = e.failures + d
        BY <2>3 DEF Put
      <3> HIDE DEF new
      <3>7. QED
        BY <3>2, <3>3, <3>5, <3>6 DEF ToolCalls, ToolFailures
    <2>6. /\ snapshot'.total = snapshot.total + n /\ snapshot'.failed = snapshot.failed + d
          /\ snapshot'.failures = snapshot.failures /\ snapshot'.logins = snapshot.logins
          /\ snapshot'.p95 = snapshot.p95
          /\ snapshot' \in [total : Nat, failed : Nat, p95 : Nat, logins : Nat, failures : Seq(Failure)]
          /\ snapshot.total \in Nat /\ snapshot.failed \in Nat
      <3>1. snapshot \in [total : Nat, failed : Nat, p95 : Nat, logins : Nat, failures : Seq(Failure)]
        BY <1>1 DEF Figures
      <3> HIDE DEF n, d
      <3>2. QED
        BY <2>0, <2>1, <3>1, AddTotals
    <2>7. /\ \A i \in DOMAIN toolRows : toolRows[i].calls \in Nat
          /\ CallsSeen(toolRows) \in Int /\ CallsSeen(toolRows)' = CallsSeen(toolRows) + n
      <3>1. toolRows \in Seq(ToolRow) /\ \A i \in DOMAIN toolRows : toolRows[i].calls \in Int
        BY <1>1 DEF RowsSeen
      <3>2. \A i \in DOMAIN toolRows : toolRows[i].calls \in Nat
        BY <1>1 DEF RowsSeen
      <3>3. /\ CallsSeen(toolRows) \in Int
            /\ CallsSeen(Append(toolRows, row)) = CallsSeen(toolRows) + row.calls
        BY <2>0, <3>1, CallsAppend
      <3>4. QED
        BY <1>1, <3>2, <3>3 DEF CallsSeen
    <2> HIDE DEF n, d, e
    <2>8. Figures'
      BY <1>1, <2>1, <2>4, <2>5, <2>6 DEF Figures
    <2>9. RowsSeen'
      <3>1. \A i \in DOMAIN toolRows' : toolRows'[i].calls \in Nat
        BY <1>1, <2>0, <2>7, AppendRow DEF RowsSeen, n
      <3>2. QED
        BY <1>1, <1>2, <2>1, <3>1 DEF RowsSeen
    <2>10. ToolTotals'
      BY <1>1, <2>1, <2>4, <2>5, <2>6, <2>7 DEF ToolTotals
    <2>11. FlowTotals'
      <3>1. LoginsSeen(flowRows)' = LoginsSeen(flowRows)
        BY <1>1 DEF LoginsSeen
      <3>2. ASSUME NEW x \in Name \cup {0}
            PROVE  /\ Entry(flows, x, NoBucket)' = Entry(flows, x, NoBucket)
                   /\ EventsSeen(flowRows, x)' = EventsSeen(flowRows, x)
                   /\ FailuresListed(snapshot.failures, x)' = FailuresListed(snapshot.failures, x)
        BY <1>1, <2>1, <2>6 DEF Entry, EventsSeen, FailuresListed
      <3>3. QED
        BY <1>1, <2>6, <3>1, <3>2 DEF FlowTotals
    <2>12. Parts'
      <3>1. snapshot'.failed <= snapshot'.total
        BY <1>1, <2>0, <2>6 DEF Parts
      <3>2. ASSUME NEW t \in DOMAIN tools'
            PROVE  tools'[t].failures <= tools'[t].calls /\ tools'[t].calls <= snapshot'.total
        <4>1. ASSUME t \in DOMAIN tools
              PROVE  /\ tools[t].calls \in Nat /\ tools[t].failures \in Nat
                     /\ tools[t].failures <= tools[t].calls /\ tools[t].calls <= snapshot.total
          BY <1>1, <4>1 DEF Parts, Figures, MapOf, ToolCounts
        <4>2. CASE t = row.tool
          <5>1. e.failures <= e.calls /\ e.calls <= snapshot.total
            BY <2>5, <2>6, <4>1, <4>2
          <5>2. /\ tools'[t].calls = e.calls + n /\ tools'[t].failures = e.failures + d
                /\ snapshot'.total = snapshot.total + n
                /\ e.calls \in Nat /\ e.failures \in Nat /\ snapshot.total \in Nat
            BY <2>5, <2>6, <4>2
          <5>3. QED
            BY <2>0, <5>1, <5>2
        <4>3. CASE t # row.tool
          <5>1. t \in DOMAIN tools /\ tools'[t] = tools[t]
            BY <2>5, <4>3
          <5>2. tools[t].calls <= snapshot.total + n
            BY <2>0, <2>6, <4>1, <5>1
          <5>3. QED
            BY <2>6, <4>1, <5>1, <5>2
        <4>4. QED
          BY <4>2, <4>3
      <3>3. PartsWithinWhole'
        BY <1>1, <2>1 DEF Parts, PartsWithinWhole
      <3>4. QED
        BY <3>1, <3>2, <3>3 DEF Parts
    <2>13. PercentileNearest'
      BY <1>1, <2>1 DEF PercentileNearest
    <2>14. QED
      BY <1>1, <2>1, <2>8, <2>9, <2>10, <2>11, <2>12, <2>13 DEF SnapshotInv
  <1>5. QED
    BY <1>3, <1>4

\* The latency row.
LEMMA LatencyStep ==
    ASSUME SnapshotInv, NEW v \in P95 \cup {NoPercentile}, ReadLatency(v) PROVE SnapshotInv'
  <1>1. /\ Figures /\ RowsSeen /\ Parts /\ pc = "tools" /\ ToolTotals /\ FlowTotals
        /\ latencyRow' = v /\ toolRows' = toolRows /\ flowRows' = flowRows
    BY DEF SnapshotInv, ReadLatency
  <1>2. timeBuckets' = timeBuckets /\ tools' = tools /\ flows' = flows /\ response' = response
    BY DEF ReadLatency, ReturnError
  <1>3. CASE ReturnError
    <2>1. pc' = "error" /\ snapshot' = snapshot
      BY <1>3 DEF ReturnError
    <2>2. Figures'
      BY <1>1, <1>2, <2>1 DEF Figures
    <2>3. RowsSeen'
      BY <1>1, <2>1 DEF RowsSeen
    <2>4. Parts' /\ PercentileNearest'
      BY <1>1, <1>2, <2>1 DEF Parts, PartsWithinWhole, PercentileNearest
    <2>5. QED
      BY <2>1, <2>2, <2>3, <2>4 DEF SnapshotInv
  <1>4. CASE ~ReturnError
    <2> DEFINE p == IF v = NoPercentile THEN 0 ELSE Rounded(v)
    <2>1. /\ v = NoPercentile \/ v \in Nat
          /\ pc' = "flows" /\ snapshot' = [snapshot EXCEPT !.p95 = p]
      BY <1>4 DEF ReadLatency, ValidInt
    <2>2. p \in Nat /\ (v # NoPercentile => 2 * p - v \in {0, 1})
      BY <2>1 DEF Rounded
    <2> HIDE DEF p
    <2>3. /\ snapshot' \in [total : Nat, failed : Nat, p95 : Nat, logins : Nat, failures : Seq(Failure)]
          /\ snapshot'.p95 = p
          /\ snapshot'.total = snapshot.total /\ snapshot'.failed = snapshot.failed
          /\ snapshot'.failures = snapshot.failures /\ snapshot'.logins = snapshot.logins
      BY <1>1, <2>1, <2>2 DEF Figures
    <2>4. Figures'
      BY <1>1, <1>2, <2>1, <2>3 DEF Figures
    <2>5. RowsSeen'
      BY <1>1, <2>1 DEF RowsSeen
    <2>6. ToolTotals'
      <3>1. /\ CallsSeen(toolRows)' = CallsSeen(toolRows)
            /\ BucketCalls(timeBuckets)' = BucketCalls(timeBuckets)
            /\ BucketFailures(timeBuckets)' = BucketFailures(timeBuckets)
            /\ ToolCalls(tools)' = ToolCalls(tools) /\ ToolFailures(tools)' = ToolFailures(tools)
        BY <1>1, <1>2 DEF CallsSeen, BucketCalls, BucketFailures, ToolCalls, ToolFailures
      <3>2. QED
        BY <1>1, <2>3, <3>1 DEF ToolTotals
    <2>7. FlowTotals'
      <3>1. LoginsSeen(flowRows)' = LoginsSeen(flowRows)
        BY <1>1 DEF LoginsSeen
      <3>2. ASSUME NEW e \in Name \cup {0}
            PROVE  /\ Entry(flows, e, NoBucket)' = Entry(flows, e, NoBucket)
                   /\ EventsSeen(flowRows, e)' = EventsSeen(flowRows, e)
                   /\ FailuresListed(snapshot.failures, e)' = FailuresListed(snapshot.failures, e)
        BY <1>1, <1>2, <2>3 DEF Entry, EventsSeen, FailuresListed
      <3>3. QED
        BY <1>1, <2>3, <3>1, <3>2 DEF FlowTotals
    <2>8. Parts'
      BY <1>1, <1>2, <2>3 DEF Parts, PartsWithinWhole
    <2>9. PercentileNearest'
      BY <1>1, <2>1, <2>2, <2>3 DEF PercentileNearest
    <2>10. QED
      BY <2>1, <2>4, <2>5, <2>6, <2>7, <2>8, <2>9 DEF SnapshotInv
  <1>5. QED
    BY <1>3, <1>4

\* A row of the flow query.
LEMMA FlowRowStep == ASSUME SnapshotInv, NEW row \in FlowRow, ReadFlowRow(row) PROVE SnapshotInv'
  <1>1. /\ Figures /\ RowsSeen /\ Parts /\ PercentileNearest
        /\ pc = "flows" /\ ToolTotals /\ FlowTotals
        /\ latencyRow' = latencyRow /\ toolRows' = toolRows
        /\ flowRows' = Append(flowRows, row)
    BY DEF SnapshotInv, ReadFlowRow
  <1>2. timeBuckets' = timeBuckets /\ tools' = tools /\ response' = response
    BY DEF ReadFlowRow, ReturnError
  <1>3. flowRows' \in Seq(FlowRow)
    BY <1>1, AppendRow DEF RowsSeen
  <1>4. CASE ReturnError
    <2>1. pc' = "error" /\ snapshot' = snapshot /\ flows' = flows
      BY <1>4 DEF ReturnError
    <2>2. Figures'
      BY <1>1, <1>2, <2>1 DEF Figures
    <2>3. RowsSeen'
      BY <1>1, <1>3, <2>1 DEF RowsSeen
    <2>4. Parts' /\ PercentileNearest'
      BY <1>1, <1>2, <2>1 DEF Parts, PartsWithinWhole, PercentileNearest
    <2>5. QED
      BY <2>1, <2>2, <2>3, <2>4 DEF SnapshotInv
  <1>5. CASE ~ReturnError
    <2> DEFINE n == row.events
               login == row.event = Session /\ row.outcome = "success"
               failed == row.event # Session /\ row.outcome = "failure"
               x == [event |-> row.event, reason |-> row.reason, count |-> row.events]
    <2>1. n \in Nat /\ (row.event # Session => row.event \in Name \cup {0})
      BY <1>1, <1>5 DEF ReadFlowRow, ValidFlowRow, ValidInt, FlowRow
    <2>2. /\ pc' = pc
          /\ flows' = IF row.event = Session THEN flows ELSE AddToFlow(flows, row)
          /\ snapshot' = IF row.event = Session THEN AddLogin(snapshot, row)
                         ELSE IF row.outcome = "failure" THEN AddFailure(snapshot, row) ELSE snapshot
      BY <1>1, <1>5 DEF ReadFlowRow
    <2>3. snapshot' = IF login THEN [snapshot EXCEPT !.logins = snapshot.logins + n]
                      ELSE IF failed
                      THEN [snapshot EXCEPT !.failures = Append(snapshot.failures, x)]
                      ELSE snapshot
      BY <2>2 DEF AddLogin, AddFailure
    <2>4. failed => x \in Failure /\ x.event = row.event /\ x.count = n
      BY <2>1 DEF Failure, FlowRow
    <2> HIDE DEF n, login, failed, x
    <2>5. snapshot \in [total : Nat, failed : Nat, p95 : Nat, logins : Nat, failures : Seq(Failure)]
      BY <1>1 DEF Figures
    <2>6. /\ snapshot'.total = snapshot.total /\ snapshot'.failed = snapshot.failed
          /\ snapshot'.p95 = snapshot.p95
          /\ snapshot'.logins = snapshot.logins + (IF login THEN n ELSE 0)
          /\ snapshot'.failures = IF failed THEN Append(snapshot.failures, x) ELSE snapshot.failures
          /\ snapshot' \in [total : Nat, failed : Nat, p95 : Nat, logins : Nat, failures : Seq(Failure)]
      <3>1. ~(login /\ failed)
        BY DEF login, failed
      <3>2. CASE login
        BY <2>1, <2>3, <2>5, <3>1, <3>2
      <3>3. CASE failed
        <4>1. Append(snapshot.failures, x) \in Seq(Failure)
          BY <2>4, <2>5, <3>3
        <4> DEFINE y == Append(snapshot.failures, x)
                   F == Seq(Failure)
        <4> HIDE DEF y, F
        <4>2. snapshot' = [snapshot EXCEPT !.failures = y] /\ y \in F /\ snapshot.logins \in Int
          BY <2>3, <2>5, <3>1, <3>3, <4>1 DEF y, F
        <4>3. snapshot \in [total : Nat, failed : Nat, p95 : Nat, logins : Nat, failures : F]
          BY <2>5 DEF F
        <4>4. /\ snapshot'.total = snapshot.total /\ snapshot'.failed = snapshot.failed
              /\ snapshot'.p95 = snapshot.p95 /\ snapshot'.logins = snapshot.logins
              /\ snapshot'.failures = y
              /\ snapshot' \in [total : Nat, failed : Nat, p95 : Nat, logins : Nat, failures : F]
          BY <4>2, <4>3
        <4>5. QED
          BY <3>1, <3>3, <4>2, <4>4 DEF y, F
      <3>4. CASE ~login /\ ~failed
        BY <2>3, <2>5, <3>4
      <3>5. QED
        BY <3>2, <3>3, <3>4
    <2>7. ASSUME row.event # Session
          PROVE  flows' = Put(flows, row.event,
                                AddOutcome(Entry(flows, row.event, NoBucket), row.outcome, n))
      BY <2>2, <2>7 DEF AddToFlow, n
    <2>8. MapOf(flows, Name \cup {0}, Counts)
      BY <1>1 DEF Figures
    <2>9. \A e \in Name \cup {0} : Entry(flows, e, NoBucket) \in Counts
      <3>1. NoBucket \in Counts
        BY DEF NoBucket, Counts
      <3>2. QED
        BY <2>8, <3>1, EntryIn
    <2>10. MapOf(flows', Name \cup {0}, Counts)
      <3>1. CASE row.event = Session
        BY <2>2, <2>8, <3>1
      <3>2. CASE row.event # Session
        <4> DEFINE v == AddOutcome(Entry(flows, row.event, NoBucket), row.outcome, n)
                   K == Name \cup {0}
        <4>1. v \in Counts /\ row.event \in K
          BY <2>1, <2>9, <3>2, Outcomes
        <4>2. flows' = Put(flows, row.event, v) /\ MapOf(flows, K, Counts)
          BY <2>7, <2>8, <3>2
        <4> HIDE DEF v, K
        <4>3. MapOf(Put(flows, row.event, v), K, Counts)
          BY <4>1, <4>2, PutEntry
        <4>4. QED
          BY <4>2, <4>3 DEF K
      <3>3. QED
        BY <3>1, <3>2
    <2>11. Figures'
      BY <1>1, <1>2, <2>2, <2>6, <2>10 DEF Figures
    <2>12. flowRows \in Seq(FlowRow) /\ \A i \in DOMAIN flowRows : flowRows[i].events \in Nat
      BY <1>1 DEF RowsSeen
    <2>13. RowsSeen'
      <3>1. \A i \in DOMAIN flowRows' : flowRows'[i].events \in Nat
        BY <1>1, <2>1, <2>12, AppendRow DEF n
      <3>2. QED
        BY <1>1, <1>3, <2>2, <3>1 DEF RowsSeen
    <2>14. ToolTotals'
      <3>1. /\ CallsSeen(toolRows)' = CallsSeen(toolRows)
            /\ BucketCalls(timeBuckets)' = BucketCalls(timeBuckets)
            /\ BucketFailures(timeBuckets)' = BucketFailures(timeBuckets)
            /\ ToolCalls(tools)' = ToolCalls(tools) /\ ToolFailures(tools)' = ToolFailures(tools)
        BY <1>1, <1>2 DEF CallsSeen, BucketCalls, BucketFailures, ToolCalls, ToolFailures
      <3>2. QED
        BY <1>1, <2>6, <3>1 DEF ToolTotals
    <2>15. ASSUME NEW e \in Name \cup {0}
           PROVE  /\ Entry(flows', e, NoBucket).failure = FailuresListed(snapshot'.failures, e)
                  /\ Entry(flows', e, NoBucket).success + Entry(flows', e, NoBucket).failure
                        = EventsSeen(flowRows', e)
      <3> DEFINE b == Entry(flows, e, NoBucket)
                 c == Entry(flows', e, NoBucket)
      <3>1. /\ b.failure = FailuresListed(snapshot.failures, e)
            /\ b.success + b.failure = EventsSeen(flowRows, e)
        BY <1>1 DEF FlowTotals
      <3>2. b.success \in Nat /\ b.failure \in Nat
        BY <2>9 DEF Counts
      <3>3. c = IF row.event = e THEN AddOutcome(b, row.outcome, n) ELSE b
        <4>1. CASE row.event = Session
          BY <2>2, <4>1, SnapshotAssumption
        <4>2. CASE row.event # Session
          BY <2>7, <4>2 DEF Entry, Put
        <4>3. QED
          BY <4>1, <4>2
      <3>4. EventsSeen(flowRows', e) = EventsSeen(flowRows, e) + (IF row.event = e THEN n ELSE 0)
        BY <1>1, <2>1, <2>12, EventsAppend DEF n
      <3>5. FailuresListed(snapshot'.failures, e)
              = FailuresListed(snapshot.failures, e) + (IF failed /\ row.event = e THEN n ELSE 0)
        <4>1. CASE failed
          <5>1. /\ snapshot.failures \in Seq(Failure)
                /\ \A i \in DOMAIN snapshot.failures : snapshot.failures[i].count \in Int
            <6>1. snapshot.failures \in Seq(Failure)
              BY <2>5
            <6> DEFINE list == snapshot.failures
            <6> HIDE DEF list
            <6>2. list \in Seq(Failure)
              BY <6>1 DEF list
            <6>3. \A i \in DOMAIN list : list[i].count \in Int
              <7>1. \A i \in DOMAIN list : list[i] \in Failure
                BY <6>2
              <7>2. QED
                BY <7>1 DEF Failure
            <6>4. QED
              BY <6>1, <6>3 DEF list
          <5> x \in Failure /\ x.count \in Int
            BY <2>1, <2>4, <4>1
          <5>2. FailuresListed(Append(snapshot.failures, x), e)
                  = FailuresListed(snapshot.failures, e) + (IF x.event = e THEN x.count ELSE 0)
            BY <5>1, FailuresAppend
          <5>3. QED
            BY <2>4, <2>6, <4>1, <5>2
        <4>2. CASE ~failed
          BY <2>6, <3>1, <3>2, <4>2
        <4>3. QED
          BY <4>1, <4>2
      <3>6. row.event = e => (failed <=> row.outcome = "failure")
        BY SnapshotAssumption DEF failed
      <3>7. AddOutcome(b, row.outcome, n).success + AddOutcome(b, row.outcome, n).failure
                = b.success + b.failure + n
            /\ AddOutcome(b, row.outcome, n).failure
                = b.failure + (IF row.outcome = "failure" THEN n ELSE 0)
        BY <2>1, <2>9, <3>2, Outcomes
      <3> HIDE DEF b, c
      <3>8. c.success + c.failure = EventsSeen(flowRows', e)
        BY <3>1, <3>2, <3>3, <3>4, <3>7
      <3>9. c.failure = FailuresListed(snapshot'.failures, e)
        BY <3>1, <3>2, <3>3, <3>5, <3>6, <3>7
      <3>10. QED
        BY <3>8, <3>9 DEF c
    <2>16. snapshot'.logins = LoginsSeen(flowRows')
      <3>1. LoginsSeen(Append(flowRows, row))
              = LoginsSeen(flowRows) + (IF login THEN row.events ELSE 0)
        BY <2>1, <2>12, LoginsAppend DEF n, login
      <3>2. QED
        BY <1>1, <2>6, <3>1 DEF FlowTotals, n
    <2>17. FlowTotals'
      <3>1. LoginsSeen(flowRows)' = LoginsSeen(flowRows')
        BY DEF LoginsSeen
      <3>2. ASSUME NEW e \in Name \cup {0}
            PROVE  /\ Entry(flows, e, NoBucket)' = Entry(flows', e, NoBucket)
                   /\ EventsSeen(flowRows, e)' = EventsSeen(flowRows', e)
                   /\ FailuresListed(snapshot.failures, e)' = FailuresListed(snapshot'.failures, e)
        BY DEF Entry, EventsSeen, FailuresListed
      <3>3. QED
        BY <2>15, <2>16, <3>1, <3>2 DEF FlowTotals
    <2>18. Parts'
      BY <1>1, <1>2, <2>6 DEF Parts, PartsWithinWhole
    <2>19. PercentileNearest'
      BY <1>1, <2>2, <2>6 DEF PercentileNearest
    <2>20. QED
      BY <1>1, <2>2, <2>11, <2>13, <2>14, <2>17, <2>18, <2>19 DEF SnapshotInv
  <1>6. QED
    BY <1>4, <1>5

\* Saturation keeps the order of counts.
LEMMA CountsOrdered ==
    ASSUME NEW a \in Nat, NEW b \in Nat, a <= b PROVE int32Count(a) <= int32Count(b)
  BY SnapshotAssumption DEF int32Count

\* The response.
LEMMA RespondStep == ASSUME SnapshotInv, Respond PROVE SnapshotInv'
  <1>1. /\ Figures /\ RowsSeen /\ Parts /\ PercentileNearest
        /\ pc = "flows" /\ pc' = "done" /\ ToolTotals /\ FlowTotals
        /\ latencyRow' = latencyRow /\ toolRows' = toolRows /\ flowRows' = flowRows
        /\ snapshot' = snapshot /\ timeBuckets' = timeBuckets /\ tools' = tools /\ flows' = flows
    BY DEF SnapshotInv, Respond, input
  <1>2. Figures'
    BY <1>1 DEF Figures
  <1>3. RowsSeen'
    BY <1>1 DEF RowsSeen
  <1>4. ToolTotals'
    BY <1>1 DEF ToolTotals, CallsSeen, BucketCalls, BucketFailures, ToolCalls, ToolFailures
  <1>5. FlowTotals'
    BY <1>1 DEF FlowTotals, Entry, EventsSeen, FailuresListed, LoginsSeen
  <1>6. PercentileNearest'
    BY <1>1 DEF PercentileNearest
  <1>7. Parts'
    <2>1. PICK t \in SortedTools : /\ response'.total = int32Count(snapshot.total)
                                   /\ response'.failed = int32Count(snapshot.failed)
                                   /\ response'.tools = Listed(tools, t)
      BY DEF Respond
    <2>2. snapshot.failed \in Nat /\ snapshot.total \in Nat /\ snapshot.failed <= snapshot.total
      BY <1>1 DEF Figures, Parts
    <2>3. response'.failed <= response'.total
      BY <2>1, <2>2, CountsOrdered
    <2>4. ASSUME NEW i \in DOMAIN response'.tools
          PROVE  /\ response'.tools[i].val.failures <= response'.tools[i].val.calls
                 /\ response'.tools[i].val.calls <= response'.total
      <3> DEFINE m == tools[t[i]]
      <3>1. i \in DOMAIN t /\ response'.tools[i].val = [f \in DOMAIN m |-> int32Count(m[f])]
        BY <2>1, <2>4 DEF Listed
      <3>2. t[i] \in DOMAIN tools
        BY <3>1 DEF SortedTools, SetToSeqs
      <3>3. m \in ToolCounts
        BY <1>1, <3>2 DEF Figures, MapOf
      <3>4. m.failures <= m.calls /\ m.calls <= snapshot.total
        BY <1>1, <3>2 DEF Parts
      <3> HIDE DEF m
      <3>5. /\ response'.tools[i].val.failures = int32Count(m.failures)
            /\ response'.tools[i].val.calls = int32Count(m.calls)
            /\ m.failures \in Nat /\ m.calls \in Nat
        BY <3>1, <3>3 DEF ToolCounts
      <3>6. QED
        BY <2>1, <2>2, <3>4, <3>5, CountsOrdered
    <2>5. PartsWithinWhole'
      BY <2>3, <2>4 DEF PartsWithinWhole
    <2>6. QED
      BY <1>1, <2>5 DEF Parts
  <1>8. QED
    BY <1>1, <1>2, <1>3, <1>4, <1>5, <1>6, <1>7 DEF SnapshotInv

\* Every step keeps the invariant.
LEMMA FiguresStep == SnapshotInv /\ [SnapshotNext]_snapshotVars => SnapshotInv'
  <1> SUFFICES ASSUME SnapshotInv, [SnapshotNext]_snapshotVars PROVE SnapshotInv'
    OBVIOUS
  <1>1. ASSUME NEW row \in ToolRow, ReadToolRow(row) PROVE SnapshotInv'
    BY <1>1, ToolRowStep
  <1>2. ASSUME NEW v \in P95 \cup {NoPercentile}, ReadLatency(v) PROVE SnapshotInv'
    BY <1>2, LatencyStep
  <1>3. ASSUME NEW row \in FlowRow, ReadFlowRow(row) PROVE SnapshotInv'
    BY <1>3, FlowRowStep
  <1>4. CASE Respond
    BY <1>4, RespondStep
  <1>5. CASE UNCHANGED snapshotVars
    <2>1. /\ pc' = pc /\ toolRows' = toolRows /\ latencyRow' = latencyRow /\ flowRows' = flowRows
          /\ snapshot' = snapshot /\ timeBuckets' = timeBuckets /\ tools' = tools /\ flows' = flows
          /\ response' = response
      BY <1>5 DEF snapshotVars
    <2>2. ToolTotals' = ToolTotals
      BY <2>1 DEF ToolTotals, CallsSeen, BucketCalls, BucketFailures, ToolCalls, ToolFailures
    <2>3. FlowTotals' = FlowTotals
      BY <2>1 DEF FlowTotals, Entry, EventsSeen, FailuresListed, LoginsSeen
    <2>4. Figures' = Figures /\ RowsSeen' = RowsSeen
      BY <2>1 DEF Figures, RowsSeen
    <2>5. Parts' = Parts /\ PercentileNearest' = PercentileNearest
      BY <2>1 DEF Parts, PartsWithinWhole, PercentileNearest
    <2>6. QED
      BY <2>1, <2>2, <2>3, <2>4, <2>5 DEF SnapshotInv
  <1>6. QED
    BY <1>1, <1>2, <1>3, <1>4, <1>5 DEF SnapshotNext

\* After every row, the totals, the series, the tools, the flows and the failures of a
\* snapshot say the same of the rows seen, the percentile is the nearest, and saturation
\* in the response leaves no part larger than its whole: buildSnapshot and
\* operationsSnapshot, for any rows.
THEOREM FiguresHold == SnapshotSpec => []FiguresAgree
  <1>1. SnapshotInv /\ [SnapshotNext]_snapshotVars => SnapshotInv'
    BY FiguresStep
  <1>2. QED
    BY FiguresInit, FiguresSay, <1>1, PTL DEF SnapshotSpec

-----------------------------------------------------------------------------
(* Snapshots: the order of the listings *)

\* The numbers D have values in V, which O orders.
Ranking(D, V, F, O) == IsFiniteSet(D) /\ D \subseteq Int /\ F \in [D -> V] /\ Order(V, O)

SortedListings(D, F, O) == {p \in Listings(D) : Sorted(p, F, O)}

\* Sorted listings show the same values.
LEMMA SameOrder ==
    ASSUME NEW D, NEW V, NEW F, NEW O, Ranking(D, V, F, O),
           NEW p \in SortedListings(D, F, O), NEW q \in SortedListings(D, F, O),
           NEW i \in 1 .. Cardinality(D)
    PROVE  F[p[i]] = F[q[i]]
  <1> p \in Listings(D) /\ Sorted(p, F, O) /\ q \in Listings(D) /\ Sorted(q, F, O)
    BY DEF SortedListings
  <1> USE DEF Ranking
  <1>1. p[i] \in D /\ q[i] \in D
    BY DEF Listings, Bijection, Injection
  <1>2. <<F[p[i]], F[q[i]]>> \notin O
    BY SortedOnce
  <1>3. <<F[q[i]], F[p[i]]>> \notin O
    BY SortedOnce
  <1>4. F[p[i]] \in V /\ F[q[i]] \in V
    BY <1>1
  <1>5. QED
    BY <1>2, <1>3, <1>4 DEF Order

\* The sequences of a finite set's elements are its listings.
LEMMA SeqsAreListings == ASSUME NEW D, IsFiniteSet(D) PROVE SetToSeqs(D) = Listings(D)
  <1> DEFINE n == Cardinality(D)
  <1>1. n \in Nat /\ IsFiniteSet(1 .. n) /\ Cardinality(1 .. n) = n
    BY FS_CardinalityType, FS_Interval
  <1>2. SetToSeqs(D) = Injection(1 .. n, D)
    BY DEF SetToSeqs, Injection, IsInjective
  <1>3. ASSUME NEW f \in Injection(1 .. n, D) PROVE f \in Surjection(1 .. n, D)
    BY <1>1, FS_Injection
  <1>4. QED
    BY <1>2, <1>3 DEF Listings, Bijection

\* However the map is ranged, the tools are listed in one order.
LEMMA ToolsOnce == ASSUME Figures PROVE Cardinality(SortedTools) = 1
  <1> DEFINE D == DOMAIN tools
             O == {ab \in D \X D : ToolLess(ab[1], ab[2])}
             F == [d \in D |-> d]
             S == SortedTools
  <1>1. IsFiniteSet(D) /\ D \subseteq Int
    BY SnapshotAssumption DEF Figures, MapOf
  <1>2. \A d \in D : tools[d].calls \in Nat
    BY DEF Figures, MapOf, ToolCounts
  <1>3. \A a, b \in D : <<a, b>> \in O <=> \/ tools[a].calls > tools[b].calls
                                           \/ tools[a].calls = tools[b].calls /\ a < b
    BY DEF ToolLess
  <1>4. \A a, b \in D : <<a, b>> \in O <=> ToolLess(a, b)
    OBVIOUS
  <1>5. F \in [D -> D] /\ \A d \in D : F[d] = d
    OBVIOUS
  <1> HIDE DEF D, O, F
  <1>6. Order(D, O)
    <2>1. ASSUME NEW a \in D PROVE <<a, a>> \notin O
      BY <1>1, <1>2, <1>3
    <2>2. ASSUME NEW a \in D, NEW b \in D, NEW c \in D, <<a, b>> \in O, <<b, c>> \in O
          PROVE  <<a, c>> \in O
      <3>1. /\ a \in Int /\ b \in Int /\ c \in Int /\ tools[a].calls \in Int
            /\ tools[b].calls \in Int /\ tools[c].calls \in Int
        BY <1>1, <1>2
      <3>2. /\ \/ tools[a].calls > tools[b].calls
               \/ tools[a].calls = tools[b].calls /\ a < b
            /\ \/ tools[b].calls > tools[c].calls
               \/ tools[b].calls = tools[c].calls /\ b < c
        BY <1>3, <2>2
      <3>3. \/ tools[a].calls > tools[c].calls
            \/ tools[a].calls = tools[c].calls /\ a < c
        BY <3>1, <3>2
      <3>4. QED
        BY <1>3, <3>3
    <2>3. ASSUME NEW a \in D, NEW b \in D PROVE a = b \/ <<a, b>> \in O \/ <<b, a>> \in O
      <3>1. a \in Int /\ b \in Int /\ tools[a].calls \in Int /\ tools[b].calls \in Int
        BY <1>1, <1>2
      <3>2. QED
        BY <1>3, <3>1
    <2>4. QED
      BY <2>1, <2>2, <2>3 DEF Order
  <1>7. \A s : s \in S <=> s \in Listings(D) /\ Sorted(s, F, O)
    <2>1. \A s : s \in S <=> /\ s \in Listings(D)
                             /\ \A i, j \in DOMAIN s : i < j => ~ToolLess(s[j], s[i])
      BY <1>1, SeqsAreListings DEF SortedTools, D
    <2>2. ASSUME NEW s \in Listings(D), NEW i \in DOMAIN s, NEW j \in DOMAIN s
          PROVE  ToolLess(s[j], s[i]) <=> <<F[s[j]], F[s[i]]>> \in O
      <3>1. s[i] \in D /\ s[j] \in D
        BY DEF Listings, Bijection, Injection
      <3>2. QED
        BY <1>4, <1>5, <3>1
    <2>3. QED
      BY <2>1, <2>2 DEF Sorted
  <1> HIDE DEF S
  <1>8. PICK p \in Listings(D) : Sorted(p, F, O)
    BY <1>1, <1>5, <1>6, SortedExists
  <1>9. ASSUME NEW q \in S PROVE q = p
    <2>1. q \in Listings(D) /\ Sorted(q, F, O)
      BY <1>7
    <2> DEFINE N == 1 .. Cardinality(D)
    <2>2. ASSUME NEW i \in N PROVE F[p[i]] = F[q[i]]
      <3>1. p \in SortedListings(D, F, O) /\ q \in SortedListings(D, F, O)
        BY <1>8, <2>1 DEF SortedListings
      <3>2. Ranking(D, D, F, O)
        BY <1>1, <1>5, <1>6 DEF Ranking
      <3>3. QED
        BY <3>1, <3>2, SameOrder
    <2>3. p \in [N -> D] /\ q \in [N -> D]
      BY <2>1 DEF Listings, Bijection, Injection
    <2> HIDE DEF N
    <2>4. \A i \in N : p[i] = q[i]
      BY <1>5, <2>2, <2>3
    <2>5. QED
      BY <2>3, <2>4
  <1>10. S = {p}
    BY <1>7, <1>8, <1>9
  <1>11. QED
    BY <1>10, FS_Singleton DEF S

\* And the reasons of failures.
LEMMA FailuresOnce == ASSUME Figures PROVE Cardinality(SortedFailures(snapshot.failures)) = 1
  <1> DEFINE s == snapshot.failures
             D == DOMAIN s
             n == Len(s)
             O == {fg \in Failure \X Failure : FailureLess(fg[1], fg[2])}
             S == SortedFailures(s)
             Show(p) == [i \in D |-> s[p[i]]]
  <1>1. s \in Seq(Failure)
    BY DEF Figures
  <1>2. \A f, g \in Failure : <<f, g>> \in O <=> FailureLess(f, g)
    OBVIOUS
  <1>3. ASSUME NEW f \in Failure
        PROVE  f.count \in Int /\ f.event \in Int /\ f.reason \in Int
    <2>1. f.count \in Nat /\ f.event \in Name \cup {0} /\ f.reason \in FailureReason
      BY DEF Failure
    <2>2. \A x \in Name : x \in Int
      BY SnapshotAssumption
    <2>3. \A x \in FailureReason : x \in Int
      BY SnapshotAssumption
    <2>4. QED
      BY <2>1, <2>2, <2>3
  <1>4. ASSUME NEW f \in Failure, NEW g \in Failure, f.count = g.count, f.event = g.event,
               f.reason = g.reason
        PROVE  f = g
    BY <1>4 DEF Failure
  <1> HIDE DEF s, O
  <1>5. n \in Nat /\ D = 1 .. n /\ s \in [D -> Failure]
    BY <1>1
  <1>6. IsFiniteSet(D) /\ Cardinality(D) = n /\ D \subseteq Int
    BY <1>5, FS_Interval
  <1>7. Order(Failure, O)
    <2>1. ASSUME NEW f \in Failure PROVE <<f, f>> \notin O
      <3>1. ~FailureLess(f, f)
        BY <1>3 DEF FailureLess
      <3>2. QED
        BY <1>2, <3>1
    <2>2. ASSUME NEW f \in Failure, NEW g \in Failure, NEW h \in Failure,
                 <<f, g>> \in O, <<g, h>> \in O
          PROVE  <<f, h>> \in O
      <3>1. FailureLess(f, g) /\ FailureLess(g, h)
        BY <1>2, <2>2
      <3>2. /\ f.count \in Int /\ f.event \in Int /\ f.reason \in Int
            /\ g.count \in Int /\ g.event \in Int /\ g.reason \in Int
            /\ h.count \in Int /\ h.event \in Int /\ h.reason \in Int
        BY <1>3
      <3>3. FailureLess(f, h)
        BY <3>1, <3>2 DEF FailureLess
      <3>4. QED
        BY <1>2, <3>3
    <2>3. ASSUME NEW f \in Failure, NEW g \in Failure
          PROVE  f = g \/ <<f, g>> \in O \/ <<g, f>> \in O
      <3>1. /\ f.count \in Int /\ f.event \in Int /\ f.reason \in Int
            /\ g.count \in Int /\ g.event \in Int /\ g.reason \in Int
        BY <1>3
      <3>2. \/ f.count = g.count /\ f.event = g.event /\ f.reason = g.reason
            \/ FailureLess(f, g) \/ FailureLess(g, f)
        BY <3>1 DEF FailureLess
      <3>3. QED
        BY <1>2, <1>4, <3>2
    <2>4. QED
      BY <2>1, <2>2, <2>3 DEF Order
  <1>8. Listings(D) = Bijection(D, D)
    BY <1>5, <1>6 DEF Listings
  <1>9. ASSUME NEW p \in Listings(D)
        PROVE  /\ DOMAIN p = D /\ \A i \in D : p[i] \in D
               /\ Sorted(p, s, O) <=> \A i, j \in D : i < j => ~FailureLess(Show(p)[j], Show(p)[i])
    <2>1. DOMAIN p = D /\ \A i \in D : p[i] \in D
      BY <1>8 DEF Bijection, Injection
    <2>2. ASSUME NEW i \in D, NEW j \in D
          PROVE  FailureLess(Show(p)[j], Show(p)[i]) <=> <<s[p[j]], s[p[i]]>> \in O
      <3>1. Show(p)[i] = s[p[i]] /\ Show(p)[j] = s[p[j]]
        OBVIOUS
      <3> HIDE DEF Show
      <3>2. s[p[i]] \in Failure /\ s[p[j]] \in Failure
        BY <1>5, <2>1
      <3>3. QED
        BY <1>2, <3>1, <3>2
    <2> HIDE DEF Show
    <2>3. QED
      BY <2>1, <2>2 DEF Sorted
  <1>10. \A t : t \in S <=> \E p \in Listings(D) : t = Show(p) /\ Sorted(p, s, O)
    <2>1. \A t : t \in S <=> /\ \E p \in Bijection(D, D) : t = Show(p)
                             /\ \A i, j \in DOMAIN t : i < j => ~FailureLess(t[j], t[i])
      BY DEF SortedFailures
    <2>2. \A p : DOMAIN Show(p) = D
      OBVIOUS
    <2> HIDE DEF Show, S
    <2>3. QED
      BY <1>8, <1>9, <2>1, <2>2
  <1> HIDE DEF S
  <1>11. PICK p \in Listings(D) : Sorted(p, s, O)
    BY <1>5, <1>6, <1>7, SortedExists
  <1>12. ASSUME NEW t \in S PROVE t = Show(p)
    <2>1. PICK q \in Listings(D) : t = Show(q) /\ Sorted(q, s, O)
      BY <1>10
    <2>2. ASSUME NEW i \in 1 .. Cardinality(D) PROVE s[p[i]] = s[q[i]]
      <3>1. p \in SortedListings(D, s, O) /\ q \in SortedListings(D, s, O)
        BY <1>11, <2>1 DEF SortedListings
      <3>2. Ranking(D, Failure, s, O)
        BY <1>5, <1>6, <1>7 DEF Ranking
      <3>3. QED
        BY <3>1, <3>2, SameOrder
    <2>3. \A i \in D : s[p[i]] = s[q[i]]
      BY <1>5, <1>6, <2>2
    <2>4. QED
      BY <2>1, <2>3
  <1>13. Show(p) \in S
    BY <1>10, <1>11
  <1> DEFINE t == Show(p)
  <1> HIDE DEF t, Show
  <1>14. S = {t}
    BY <1>12, <1>13 DEF t
  <1>15. QED
    BY <1>14, FS_Singleton DEF S, s

\* Whatever order Go ranges the maps in, sort.Slice, though not stable, leaves one
\* listing of the tools and one of the failures: sortSnapshot breaks every tie.
THEOREM ListingsHold == SnapshotSpec => []ListingsDetermined
  <1>1. SnapshotInv => ListingsDetermined
    BY ToolsOnce, FailuresOnce DEF SnapshotInv, ListingsDetermined
  <1>2. QED
    BY FiguresInit, FiguresStep, <1>1, PTL DEF SnapshotSpec
=============================================================================

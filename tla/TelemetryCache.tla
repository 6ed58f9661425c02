--------------------------- MODULE TelemetryCache ---------------------------
(***************************************************************************)
(* The operations telemetry of internal/operations/telemetry.go: callers   *)
(* of CloudWatch.Get share a snapshot behind a mutex, and the one that     *)
(* finds it too old refreshes it with parallel Logs Insights queries while *)
(* the others wait.                                                        *)
(*                                                                         *)
(* A call of Get happens once.  Its goroutines, one per query, may outlive *)
(* it: the first error returns, and the others notice the cancelled        *)
(* context later.  The channel of results is buffered for all of them, so  *)
(* a goroutine whose result nobody receives still ends.                    *)
(*                                                                         *)
(* Time.  Calls of the AWS client heed their context, so the clock does    *)
(* not pass a deadline before those it concerns have reacted.  The clock   *)
(* is not set back: Get compares wall-clock times (its .UTC() drops the    *)
(* monotonic reading), so a clock set back by d lets a snapshot live d     *)
(* longer.  Deadlines of contexts are monotonic.                           *)
(*                                                                         *)
(* Data abstraction.  A snapshot is the time of its Get; what is computed  *)
(* from the rows is module TelemetrySnapshot.                              *)
(***************************************************************************)
EXTENDS Integers, FiniteSets

CONSTANTS
    Call,          \* calls of Get
    Query,         \* the queries of a refresh
    None,          \* no call, no snapshot
    Error,         \* the answer of a call that failed
    CacheTTL,      \* cacheTTL
    QueryTimeout,  \* queryTimeout
    StopTimeout,   \* the timeout of StopQuery
    MaxTime        \* bound: the last instant

ASSUME TelemetryAssumption ==
    /\ None \notin Call \cup Nat
    /\ Error \notin Nat
    /\ CacheTTL \in Nat \ {0}
    /\ QueryTimeout \in Nat \ {0}
    /\ StopTimeout \in Nat
    /\ MaxTime \in Nat

VARIABLES
    now,        \* the clock
    mu,         \* the call that holds the mutex
    cached,     \* the time of the cached snapshot
    expires,    \* when it expires
    stage,      \* where each call is
    at,         \* the time a call read once it held the mutex
    cancelled,  \* calls whose caller went away
    answer,     \* what a call returned: a snapshot, Error, or None
    received,   \* results a call has taken from its channel
    worker,     \* the goroutines
    stopBy,     \* when a goroutine's StopQuery times out
    result,     \* what a goroutine has put into the channel
    remote      \* the queries as CloudWatch knows them

vars == <<now, mu, cached, expires, stage, at, cancelled, answer, received,
          worker, stopBy, result, remote>>

cache == <<cached, expires>>

goroutines == <<worker, stopBy, result, remote>>

callers == <<stage, at, cancelled, answer, received>>

-----------------------------------------------------------------------------
(* Helpers *)

\* Mutant: the refresh runs under the caller's context only.
CtxDone_NoTimeout(c) == c \in cancelled \/ stage[c] = "returned"

\* The context of a refresh ends with its caller, its timeout or its Get.
CtxDone(c) ==
    \/ c \in cancelled
    \/ now >= at[c] + QueryTimeout
    \/ stage[c] = "returned"

\* Mutant: an unbuffered channel: the send waits for Get to receive.
Send_Unbuffered(c, q, r) ==
    /\ stage[c] = "refresh"
    /\ worker' = [worker EXCEPT ![c][q] = "ended"]
    /\ result' = [result EXCEPT ![c][q] = r]
    /\ remote' = [remote EXCEPT ![c][q] = "none"]
    /\ stopBy' = [stopBy EXCEPT ![c][q] = 0]

\* A goroutine puts its result into the buffered channel and ends; nobody asks
\* for its query again.
Send(c, q, r) ==
    /\ worker' = [worker EXCEPT ![c][q] = "ended"]
    /\ result' = [result EXCEPT ![c][q] = r]
    /\ remote' = [remote EXCEPT ![c][q] = "none"]
    /\ stopBy' = [stopBy EXCEPT ![c][q] = 0]

\* runQuery returns early: its deferred function tries to stop the query.
BeginStop(c, q) ==
    /\ worker' = [worker EXCEPT ![c][q] = "stopping"]
    /\ stopBy' = [stopBy EXCEPT ![c][q] = now + StopTimeout]
    /\ UNCHANGED <<result, remote>>

\* Get returns a, and its deferred functions cancel the context and unlock.
Return(c, a) ==
    /\ stage' = [stage EXCEPT ![c] = "returned"]
    /\ answer' = [answer EXCEPT ![c] = a]
    /\ received' = [received EXCEPT ![c] = {}]
    /\ cancelled' = cancelled \ {c}
    /\ mu' = None

-----------------------------------------------------------------------------
(* Get *)

\* The service calls Get for an operator whose session it resolved.
\* Bound: calls begin early enough for every refresh to end before MaxTime.
CallGet(c) ==
    /\ stage[c] = "idle"
    /\ now + Cardinality(Call) * (QueryTimeout + StopTimeout) <= MaxTime
    /\ stage' = [stage EXCEPT ![c] = "lock"]
    /\ UNCHANGED <<now, mu, cache, at, cancelled, answer, received, goroutines>>

\* The caller's request ends while Get waits or refreshes.
CallerLeaves(c) ==
    /\ stage[c] \in {"lock", "refresh"}
    /\ c \notin cancelled
    /\ cancelled' = cancelled \cup {c}
    /\ UNCHANGED <<now, mu, cache, stage, at, answer, received, goroutines>>

\* The mutex is taken whether or not the caller is still there, and a snapshot
\* that has not expired is returned.
ServeCached(c) ==
    /\ stage[c] = "lock"
    /\ mu = None
    /\ cached # None /\ now < expires
    /\ at' = [at EXCEPT ![c] = now]
    /\ Return(c, cached)
    /\ UNCHANGED <<now, cache, goroutines>>

\* Otherwise the mutex is kept and a goroutine started for each query.
StartRefresh(c) ==
    /\ stage[c] = "lock"
    /\ mu = None
    /\ cached = None \/ now >= expires
    /\ mu' = c
    /\ at' = [at EXCEPT ![c] = now]
    /\ stage' = [stage EXCEPT ![c] = "refresh"]
    /\ worker' = [worker EXCEPT ![c] = [q \in Query |-> "starting"]]
    /\ UNCHANGED <<now, cache, cancelled, answer, received, stopBy, result, remote>>

\* Mutant: an error counts as an empty result.
Receive_IgnoresError(c, q) ==
    /\ stage[c] = "refresh"
    /\ q \notin received[c]
    /\ result[c][q] # "none"
    /\ received' = [received EXCEPT ![c] = @ \cup {q}]
    /\ UNCHANGED <<now, mu, stage, answer, cancelled, cache, at, goroutines>>

\* Mutant: the unlock is not deferred and an early return skips it.
Receive_KeepsLock(c, q) ==
    /\ stage[c] = "refresh"
    /\ q \notin received[c]
    /\ \/ /\ result[c][q] = "rows"
          /\ received' = [received EXCEPT ![c] = @ \cup {q}]
          /\ UNCHANGED <<stage, answer, cancelled>>
       \/ /\ result[c][q] = "error"
          /\ stage' = [stage EXCEPT ![c] = "returned"]
          /\ answer' = [answer EXCEPT ![c] = Error]
          /\ UNCHANGED <<received, cancelled>>
    /\ UNCHANGED <<now, mu, cache, at, goroutines>>

\* Rows are collected; the first error ends the refresh and caches nothing.
Receive(c, q) ==
    /\ stage[c] = "refresh"
    /\ q \notin received[c]
    /\ \/ /\ result[c][q] = "rows"
          /\ received' = [received EXCEPT ![c] = @ \cup {q}]
          /\ UNCHANGED <<mu, stage, answer, cancelled>>
       \/ /\ result[c][q] = "error"
          /\ Return(c, Error)
    /\ UNCHANGED <<now, cache, at, goroutines>>

\* Mutant: the lifetime is counted from when the refresh ended.
CacheSnapshot_FromEnd(c) ==
    /\ stage[c] = "refresh"
    /\ received[c] = Query
    /\ \/ /\ cached' = at[c]
          /\ expires' = now + CacheTTL
          /\ Return(c, at[c])
       \/ /\ Return(c, Error)
          /\ UNCHANGED cache
    /\ UNCHANGED <<now, at, goroutines>>

\* The snapshot is built from all rows and cached, for CacheTTL from when its
\* refresh began; rows that cannot be parsed are an error.
CacheSnapshot(c) ==
    /\ stage[c] = "refresh"
    /\ received[c] = Query
    /\ \/ /\ cached' = at[c]
          /\ expires' = at[c] + CacheTTL
          /\ Return(c, at[c])
       \/ /\ Return(c, Error)
          /\ UNCHANGED cache
    /\ UNCHANGED <<now, at, goroutines>>

-----------------------------------------------------------------------------
(* runQuery *)

\* StartQuery returns an id, or an error.
StartQuery(c, q) ==
    /\ worker[c][q] = "starting"
    /\ \/ /\ remote' = [remote EXCEPT ![c][q] = "running"]
          /\ worker' = [worker EXCEPT ![c][q] = "polling"]
          /\ UNCHANGED <<result, stopBy>>
       \/ Send(c, q, "error")
    /\ UNCHANGED <<now, mu, cache, callers>>

\* A poll finds the query ended, or running and goes on until the context is done.
\* An answer that arrives as the context ends is still used.
Poll(c, q) ==
    /\ worker[c][q] = "polling"
    /\ \/ /\ remote[c][q] = "complete"
          /\ Send(c, q, "rows")
       \/ /\ remote[c][q] = "failed" \/ CtxDone(c)
          /\ BeginStop(c, q)
    /\ UNCHANGED <<now, mu, cache, callers>>

\* GetQueryResults returns an error.
PollFails(c, q) ==
    /\ worker[c][q] = "polling"
    /\ BeginStop(c, q)
    /\ UNCHANGED <<now, mu, cache, callers>>

\* StopQuery is answered, fails, or times out; then the error is sent.
StopQuery(c, q) ==
    /\ worker[c][q] = "stopping"
    /\ Send(c, q, "error")
    /\ UNCHANGED <<now, mu, cache, callers>>

\* CloudWatch completes or fails a query.
RemoteEnds(c, q) ==
    /\ remote[c][q] = "running"
    /\ \E s \in {"complete", "failed"} : remote' = [remote EXCEPT ![c][q] = s]
    /\ UNCHANGED <<now, mu, cache, callers, worker, stopBy, result>>

\* Nobody is past a deadline it has to react to, and nobody waits for a free mutex.
InTime ==
    /\ mu = None => \A c \in Call : stage[c] # "lock"
    /\ \A c \in Call :
        /\ stage[c] = "refresh" =>
            /\ \A q \in Query \ received[c] : result[c][q] = "none"
            /\ received[c] # Query
        /\ \A q \in Query :
            /\ worker[c][q] \in {"starting", "polling"} => ~CtxDone(c)
            /\ worker[c][q] = "stopping" => now < stopBy[c][q]

Tick ==
    /\ now < MaxTime
    /\ InTime
    /\ now' = now + 1
    /\ UNCHANGED <<mu, cache, callers, goroutines>>

-----------------------------------------------------------------------------
(* Specification *)

Init ==
    /\ now = 0
    /\ mu = None
    /\ cached = None
    /\ expires = 0
    /\ stage = [c \in Call |-> "idle"]
    /\ at = [c \in Call |-> 0]
    /\ cancelled = {}
    /\ answer = [c \in Call |-> None]
    /\ received = [c \in Call |-> {}]
    /\ worker = [c \in Call |-> [q \in Query |-> "none"]]
    /\ stopBy = [c \in Call |-> [q \in Query |-> 0]]
    /\ result = [c \in Call |-> [q \in Query |-> "none"]]
    /\ remote = [c \in Call |-> [q \in Query |-> "none"]]

Lock(c) == ServeCached(c) \/ StartRefresh(c)

Work(c, q) == StartQuery(c, q) \/ Poll(c, q) \/ StopQuery(c, q)

Next ==
    \/ Tick
    \/ \E c \in Call :
        \/ CallGet(c) \/ CallerLeaves(c) \/ Lock(c) \/ CacheSnapshot(c)
        \/ \E q \in Query : Receive(c, q) \/ Work(c, q)
                             \/ PollFails(c, q) \/ RemoteEnds(c, q)

Spec == Init /\ [][Next]_vars

\* Goroutines run, the AWS client answers or heeds its context, and the mutex is
\* fair to its waiters.  CloudWatch need not end a query.
FairSpec ==
    /\ Spec
    /\ WF_vars(Tick)
    /\ \A c \in Call : SF_vars(Lock(c)) /\ WF_vars(CacheSnapshot(c))
    /\ \A c \in Call, q \in Query : WF_vars(Receive(c, q)) /\ WF_vars(Work(c, q))

-----------------------------------------------------------------------------
(* Properties *)

TypeOK ==
    /\ now \in Nat
    /\ mu \in Call \cup {None}
    /\ cached \in Nat \cup {None}
    /\ expires \in Nat
    /\ stage \in [Call -> {"idle", "lock", "refresh", "returned"}]
    /\ at \in [Call -> Nat]
    /\ cancelled \subseteq Call
    /\ answer \in [Call -> Nat \cup {Error, None}]
    /\ received \in [Call -> SUBSET Query]
    /\ worker \in [Call -> [Query -> {"none", "starting", "polling", "stopping", "ended"}]]
    /\ stopBy \in [Call -> [Query -> Nat]]
    /\ result \in [Call -> [Query -> {"none", "rows", "error"}]]
    /\ remote \in [Call -> [Query -> {"none", "running", "complete", "failed"}]]

\* A caller never gets a snapshot older than CacheTTL when it got the mutex, even
\* if the refresh that built it took long.
AnswersFresh ==
    \A c \in Call : answer[c] \in Nat => at[c] < answer[c] + CacheTTL

\* The mutex, and with it every other caller, is held no longer than the timeout
\* of the queries and that of stopping them.
RefreshBounded ==
    \A c \in Call : stage[c] = "refresh" => now <= at[c] + QueryTimeout + StopTimeout

\* A snapshot is complete: it is cached or returned only after a refresh in which
\* every query delivered its rows, whatever the goroutines of other calls do.
SnapshotsComplete ==
    /\ cached # None =>
        \E c \in Call : at[c] = cached /\ \A q \in Query : result[c][q] = "rows"
    /\ \A c \in Call : answer[c] \in Nat =>
        \E d \in Call : at[d] = answer[c] /\ \A q \in Query : result[d][q] = "rows"

\* Every call returns although its callers wait for the mutex without a timeout,
\* queries hang, and callers go away.
GetReturns == \A c \in Call : stage[c] = "lock" ~> stage[c] = "returned"

\* No goroutine is left behind, not even one whose result nobody receives.
GoroutinesEnd ==
    \A c \in Call, q \in Query : worker[c][q] # "none" ~> worker[c][q] = "ended"

\* What is cached is complete, and it is refreshed in bounded time.
CacheSound ==
    /\ TypeOK
    /\ SnapshotsComplete
    /\ RefreshBounded

\* Nothing a call of Get started goes on for ever.
RefreshesEnd == GetReturns /\ GoroutinesEnd
=============================================================================

------------------------- MODULE TelemetrySnapshot -------------------------
(***************************************************************************)
(* buildSnapshot of internal/operations/telemetry.go: the rows of the      *)
(* queries of a refresh (module TelemetryCache) are folded into totals,    *)
(* hourly buckets, aggregates per tool and per OAuth flow, and failures,   *)
(* one row per step; the maps are then listed in whatever order Go's range *)
(* visits them and sorted with sort.Slice, which is not stable, and the    *)
(* service saturates the counts to 32 bits for the response.               *)
(*                                                                         *)
(* The rows are chosen one by one, so every sequence of at most MaxRows    *)
(* rows is an input.                                                       *)
(*                                                                         *)
(* Data abstraction.  Strings are ordered numbers, 0 the empty one; Bad is *)
(* a field that does not parse; a time is its hour; the 95th percentile is *)
(* in half milliseconds.                                                   *)
(***************************************************************************)
EXTENDS Integers, Sequences, FiniteSets, Functions, SequencesExt

CONSTANTS
    Window,         \* the hours of the window
    Hour,           \* hours a row may carry, inside and outside the window
    Name,           \* tools and event names
    Session,        \* the event name ui.session.created
    FailureReason,  \* reasons of OAuth failures
    RowCount,       \* counts a row may carry
    P95,            \* percentiles a row may carry, in half milliseconds
    Bad,            \* a field that does not parse
    NoPercentile,   \* no latency row, or an empty field
    MaxInt32,       \* math.MaxInt32
    MaxRows         \* bound: rows in all

ASSUME SnapshotAssumption ==
    /\ Window \subseteq Hour \ {Bad} /\ IsFiniteSet(Window)
    /\ Hour \subseteq Int \cup {Bad}
    /\ Name \subseteq Nat \ {0}
    /\ Session \in Nat \ (Name \cup {0})
    /\ FailureReason \subseteq Nat
    /\ RowCount \subseteq Int \cup {Bad}
    /\ P95 \subseteq Int \cup {Bad}
    /\ NoPercentile \notin Int \cup {Bad}
    /\ MaxInt32 \in Nat

VARIABLES
    pc,           \* the loop buildSnapshot is in
    toolRows,     \* the rows of the tool query it has seen
    latencyRow,   \* the first row of the latency query
    flowRows,     \* the rows of the flow query it has seen
    snapshot,     \* the totals and the failures of the snapshot
    timeBuckets,  \* the map of hourly buckets
    tools,        \* the map of tools
    flows,        \* the map of OAuth flows
    response      \* the answer of the service

snapshotVars == <<pc, toolRows, latencyRow, flowRows, snapshot, timeBuckets, tools, flows,
          response>>

input == <<toolRows, latencyRow, flowRows>>

-----------------------------------------------------------------------------
(* Data *)

Outcome == {"success", "failure", "other"}

ToolRow == [calls : RowCount, bucket : Hour, tool : Name \cup {0}, outcome : Outcome]

FlowRow == [events : RowCount, event : Name \cup {0, Session}, outcome : Outcome,
            reason : FailureReason]

\* requiredInt: a number that is not negative.
ValidInt(v) == v \in Nat

\* A map entry is created when a row needs it.
Entry(map, key, new) == IF key \in DOMAIN map THEN map[key] ELSE new

Put(map, key, value) ==
    [k \in DOMAIN map \cup {key} |-> IF k = key THEN value ELSE map[k]]

NoBucket == [success |-> 0, failure |-> 0]

NoTool == [calls |-> 0, failures |-> 0]

\* The counts of a row, by its outcome.
AddOutcome(e, outcome, n) ==
    [success |-> e.success + (IF outcome = "failure" THEN 0 ELSE n),
     failure |-> e.failure + (IF outcome = "failure" THEN n ELSE 0)]

\* Mutant: rows outside the window are left out of the series.
AddToBucket_WindowOnly(map, row) ==
    IF row.bucket \in DOMAIN map
    THEN Put(map, row.bucket, AddOutcome(map[row.bucket], row.outcome, row.calls))
    ELSE map

\* A bucket outside the window gets an entry of its own.
AddToBucket(map, row) ==
    Put(map, row.bucket,
        AddOutcome(Entry(map, row.bucket, NoBucket), row.outcome, row.calls))

AddToTool(map, row) ==
    LET e == Entry(map, row.tool, NoTool)
    IN  Put(map, row.tool,
            [calls    |-> e.calls + row.calls,
             failures |-> e.failures + (IF row.outcome = "failure" THEN row.calls ELSE 0)])

AddToFlow(map, row) ==
    Put(map, row.event,
        AddOutcome(Entry(map, row.event, NoBucket), row.outcome, row.events))

-----------------------------------------------------------------------------
(* buildSnapshot *)

ReturnError ==
    /\ pc' = "error"
    /\ UNCHANGED <<snapshot, timeBuckets, tools, flows, response>>

\* parseBucket: one of three layouts fits.
ValidBucket(v) == v # Bad

ValidToolRow(row) ==
    /\ ValidInt(row.calls)
    /\ ValidBucket(row.bucket)
    /\ row.tool # 0 /\ row.outcome \in {"success", "failure"}

\* One iteration over toolRows.
ReadToolRow(row) ==
    /\ pc = "tools"
    /\ Len(toolRows) + Len(flowRows) < MaxRows
    /\ toolRows' = Append(toolRows, row)
    /\ UNCHANGED <<latencyRow, flowRows>>
    /\ \/ ~ValidToolRow(row) /\ ReturnError
       \/ /\ ValidToolRow(row)
          /\ snapshot' = [snapshot EXCEPT !.total = @ + row.calls,
                            !.failed = @ + (IF row.outcome = "failure" THEN row.calls ELSE 0)]
          /\ timeBuckets' = AddToBucket(timeBuckets, row)
          /\ tools' = AddToTool(tools, row)
          /\ UNCHANGED <<pc, flows, response>>

\* Mutant: the percentile is cut off.
Rounded_Down(v) == v \div 2

\* int64(value + 0.5)
Rounded(v) == (v + 1) \div 2

\* The first row of the latency query, if it has one and its field is set.
ReadLatency(v) ==
    /\ pc = "tools"
    /\ latencyRow' = v
    /\ UNCHANGED <<toolRows, flowRows>>
    /\ \/ v # NoPercentile /\ ~ValidInt(v) /\ ReturnError
       \/ /\ v = NoPercentile \/ ValidInt(v)
          /\ pc' = "flows"
          /\ snapshot' = [snapshot EXCEPT !.p95 = IF v = NoPercentile THEN 0 ELSE Rounded(v)]
          /\ UNCHANGED <<timeBuckets, tools, flows, response>>

\* Rows of dashboard logins are accepted whatever their outcome.
ValidFlowRow(row) ==
    /\ ValidInt(row.events)
    /\ row.event = Session \/ (row.event # 0 /\ row.outcome \in {"success", "failure"})

\* Only logins that succeeded are counted.
AddLogin(snap, row) ==
    IF row.outcome = "success" THEN [snap EXCEPT !.logins = @ + row.events] ELSE snap

\* Mutant: one failure per event name, the last one.
AddFailure_Overwrites(snap, row) ==
    [snap EXCEPT !.failures =
        Append(SelectSeq(@, LAMBDA f : f.event # row.event),
               [event |-> row.event, reason |-> row.reason, count |-> row.events])]

AddFailure(snap, row) ==
    [snap EXCEPT !.failures =
        Append(@, [event |-> row.event, reason |-> row.reason, count |-> row.events])]

\* One iteration over flowRows.
ReadFlowRow(row) ==
    /\ pc = "flows"
    /\ Len(toolRows) + Len(flowRows) < MaxRows
    /\ flowRows' = Append(flowRows, row)
    /\ UNCHANGED <<toolRows, latencyRow>>
    /\ \/ ~ValidFlowRow(row) /\ ReturnError
       \/ /\ ValidFlowRow(row)
          /\ row.event = Session
          /\ snapshot' = AddLogin(snapshot, row)
          /\ UNCHANGED <<pc, timeBuckets, tools, flows, response>>
       \/ /\ ValidFlowRow(row)
          /\ row.event # Session
          /\ flows' = AddToFlow(flows, row)
          /\ snapshot' = IF row.outcome = "failure" THEN AddFailure(snapshot, row) ELSE snapshot
          /\ UNCHANGED <<pc, timeBuckets, tools, response>>

-----------------------------------------------------------------------------
(* sortSnapshot and the response *)

\* Mutant: equal counts are left in the order of the map.
ToolLess_CallsOnly(a, b) == tools[a].calls > tools[b].calls

ToolLess(a, b) ==
    \/ tools[a].calls > tools[b].calls
    \/ tools[a].calls = tools[b].calls /\ a < b

FailureLess(f, g) ==
    \/ f.count > g.count
    \/ f.count = g.count /\ f.event < g.event
    \/ f.count = g.count /\ f.event = g.event /\ f.reason < g.reason

\* What sort.Slice may make of a listing, which Go's range fills in any order: nothing
\* later is less than something earlier.
SortedTools ==
    {s \in SetToSeqs(DOMAIN tools) :
        \A i, j \in DOMAIN s : i < j => ~ToolLess(s[j], s[i])}

SortedKeys(S) == {s \in SetToSeqs(S) : \A i, j \in DOMAIN s : i < j => s[i] < s[j]}

SortedFailures(s) ==
    {t \in {[i \in DOMAIN s |-> s[p[i]]] : p \in Bijection(DOMAIN s, DOMAIN s)} :
        \A i, j \in DOMAIN t : i < j => ~FailureLess(t[j], t[i])}

\* Mutant: the conversion wraps around.
int32Count_Wraps(n) == n % (MaxInt32 + 1)

\* Saturates at both ends.
int32Count(n) ==
    CASE n > MaxInt32 -> MaxInt32
      [] n < 0 -> 0
      [] OTHER -> n

\* A map as the response lists it, in the order of s.
Listed(map, s) ==
    [i \in DOMAIN s |->
        [key |-> s[i],
         val |-> [f \in DOMAIN map[s[i]] |-> int32Count(map[s[i]][f])]]]

Respond ==
    /\ pc = "flows"
    /\ \E b \in SortedKeys(DOMAIN timeBuckets) :
       \E t \in SortedTools :
       \E o \in SortedKeys(DOMAIN flows) :
       \E f \in SortedFailures(snapshot.failures) :
            response' = [total  |-> int32Count(snapshot.total),
                         failed |-> int32Count(snapshot.failed),
                         logins |-> int32Count(snapshot.logins),
                         p95    |-> snapshot.p95,
                         series |-> Listed(timeBuckets, b),
                         tools  |-> Listed(tools, t),
                         flows  |-> Listed(flows, o),
                         failures |-> [i \in DOMAIN f |-> [f[i] EXCEPT !.count = int32Count(@)]]]
    /\ pc' = "done"
    /\ UNCHANGED <<input, snapshot, timeBuckets, tools, flows>>

-----------------------------------------------------------------------------
(* Specification *)

NoResponse == [total |-> 0, failed |-> 0, logins |-> 0, p95 |-> 0, series |-> <<>>,
               tools |-> <<>>, flows |-> <<>>, failures |-> <<>>]

SnapshotInit ==
    /\ pc = "tools"
    /\ toolRows = <<>> /\ latencyRow = NoPercentile /\ flowRows = <<>>
    /\ snapshot = [total |-> 0, failed |-> 0, p95 |-> 0, logins |-> 0, failures |-> <<>>]
    /\ timeBuckets = [h \in Window |-> NoBucket]
    /\ tools = <<>>
    /\ flows = <<>>
    /\ response = NoResponse

SnapshotNext ==
    \/ \E row \in ToolRow : ReadToolRow(row)
    \/ \E v \in P95 \cup {NoPercentile} : ReadLatency(v)
    \/ \E row \in FlowRow : ReadFlowRow(row)
    \/ Respond

SnapshotSpec == SnapshotInit /\ [][SnapshotNext]_snapshotVars

-----------------------------------------------------------------------------
(* Properties *)

SnapshotTypeOK ==
    /\ pc \in {"tools", "flows", "done", "error"}
    /\ snapshot.total \in Nat /\ snapshot.failed \in Nat
    /\ snapshot.p95 \in Nat /\ snapshot.logins \in Nat
    /\ \A h \in DOMAIN timeBuckets : timeBuckets[h] \in [success : Nat, failure : Nat]
    /\ \A t \in DOMAIN tools : tools[t] \in [calls : Nat, failures : Nat]
    /\ \A e \in DOMAIN flows : flows[e] \in [success : Nat, failure : Nat]

\* The sum of a field over the rows with P, from the rows alone.
SumRows(rows, Value(_), P(_)) ==
    SumFunction([i \in {j \in DOMAIN rows : P(rows[j])} |-> Value(rows[i])])

SumMap(map, Value(_)) == SumFunction([k \in DOMAIN map |-> Value(map[k])])

\* The three ways the dashboard shows tool calls agree, after every row and with
\* rows outside the window: total, series and tools.
ToolTotalsAgree ==
    pc # "error" =>
        /\ snapshot.total = SumRows(toolRows, LAMBDA r : r.calls, LAMBDA r : TRUE)
        /\ snapshot.total = SumMap(timeBuckets, LAMBDA b : b.success + b.failure)
        /\ snapshot.total = SumMap(tools, LAMBDA t : t.calls)
        /\ snapshot.failed = SumMap(timeBuckets, LAMBDA b : b.failure)
        /\ snapshot.failed = SumMap(tools, LAMBDA t : t.failures)

\* The flows and the list of failure reasons agree, and dashboard logins, counted
\* apart, are those that succeeded.
FlowTotalsAgree ==
    pc # "error" =>
        /\ \A e \in DOMAIN flows :
            /\ flows[e].failure =
                SumRows(snapshot.failures, LAMBDA f : f.count, LAMBDA f : f.event = e)
            /\ flows[e].success + flows[e].failure =
                SumRows(flowRows, LAMBDA r : r.events, LAMBDA r : r.event = e)
        /\ snapshot.logins = SumRows(flowRows, LAMBDA r : r.events,
                                LAMBDA r : r.event = Session /\ r.outcome = "success")

\* Counts that exceed 32 bits are shown saturated, so no part is shown larger than
\* its whole.
PartsWithinWhole ==
    /\ response.failed <= response.total
    /\ \A i \in DOMAIN response.tools :
        /\ response.tools[i].val.failures <= response.tools[i].val.calls
        /\ response.tools[i].val.calls <= response.total

\* The response is determined by the rows, whatever order the maps are ranged in and
\* although the sort is not stable: every ranking breaks its ties.
ListingsDetermined ==
    pc = "flows" =>
        /\ Cardinality(SortedTools) = 1
        /\ Cardinality(SortedFailures(snapshot.failures)) = 1

\* The percentile shown is the nearest whole millisecond, a half counted up.
PercentileNearest ==
    pc \in {"flows", "done"} /\ latencyRow # NoPercentile =>
        2 * snapshot.p95 - latencyRow \in {0, 1}

\* The figures of a snapshot agree with the rows and with each other.
FiguresAgree ==
    /\ SnapshotTypeOK
    /\ ToolTotalsAgree
    /\ FlowTotalsAgree
    /\ PartsWithinWhole
    /\ PercentileNearest
=============================================================================

------------------------------ MODULE MCRemote ------------------------------
(* Model-checking instance of the two parts that wait for a remote service   *)
(* which may never answer: the telemetry cache for CloudWatch, the reports   *)
(* of requests for EventBridge.  They share no state, and a behaviour of the *)
(* instance is one of one of them, while the other stays as it begins.       *)
EXTENDS TelemetryCache, WideEvents

VARIABLE part    \* the part that runs

remoteVars == <<vars, eventVars, part>>

Cache == part = "cache"

Events == part = "events"

RemoteInit == part \in {"cache", "events"} /\ Init /\ EventsInit

RemoteNext ==
    \/ Cache /\ Next /\ UNCHANGED <<eventVars, part>>
    \/ Events /\ EventsNext /\ UNCHANGED <<vars, part>>

\* Each part with its own fairness.
RemoteFairSpec ==
    /\ RemoteInit /\ [][RemoteNext]_remoteVars
    /\ WF_vars(Cache /\ Tick)
    /\ \A c \in Call : SF_vars(Cache /\ Lock(c)) /\ WF_vars(Cache /\ CacheSnapshot(c))
    /\ \A c \in Call, q \in Query :
        WF_vars(Cache /\ Receive(c, q)) /\ WF_vars(Cache /\ Work(c, q))
    /\ \A r \in Request : WF_eventVars(Events /\ Proceed(r))
=============================================================================

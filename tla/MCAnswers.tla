------------------------------ MODULE MCAnswers ------------------------------
(* Model-checking instance of the two parts that put an answer together from *)
(* several reads: the detail of an insight and the dashboard from statements *)
(* with writers between them, the telemetry snapshot from rows.  They share  *)
(* no state, and a behaviour of the instance is one of one of them, while    *)
(* the other stays as it begins.  The snapshot has a window of two hours and *)
(* one outside it, two tools or events, and counts of which two exceed       *)
(* MaxInt32.                                                                 *)
EXTENDS InsightDetail, TelemetrySnapshot

VARIABLE part    \* the part that runs

MCHour == {1, 2, 3, Bad}

MCWindow == {1, 2}

MCCount == {Bad, -1, 1, 2}

MCP95 == {Bad, -1, 4, 5}

answersVars == <<detailVars, snapshotVars, part>>

AnswersInit ==
    /\ part \in {"detail", "snapshot"}
    /\ DetailInit /\ SnapshotInit
    /\ part = "snapshot" => versions = <<[i \in Insight |-> None]>>

AnswersNext ==
    \/ part = "detail" /\ DetailNext /\ UNCHANGED <<snapshotVars, part>>
    \/ part = "snapshot" /\ SnapshotNext /\ UNCHANGED <<detailVars, part>>

AnswersSpec == AnswersInit /\ [][AnswersNext]_answersVars
=============================================================================

---------------------------- MODULE InsightLedger ---------------------------
(***************************************************************************)
(* What the insights of a project promise (spec/insight_revisions.md): an  *)
(* append-only ledger of complete snapshots.  Each accepted change appends *)
(* the next revision of one insight; only a live insight is updated or     *)
(* deleted; a restore brings back the key and body of a recorded revision; *)
(* and a key names at most one live insight.  There are no rows, locks or  *)
(* transactions here: every change is one step.                            *)
(***************************************************************************)
EXTENDS Naturals

CONSTANTS
    Id,      \* insight ids
    Key,     \* insight keys
    NoKey,   \* no key
    Body     \* contents with tags, category and source

VARIABLE ledger   \* the snapshots

\* A snapshot of insight i.
Entry(i, n, operation, k, b, d) ==
    [insight_id |-> i, revision |-> n, operation |-> operation,
     key |-> k, body |-> b, deleted |-> d]

\* The newest snapshot of each insight.
Heads ==
    {e \in ledger :
        \A f \in ledger : f.insight_id = e.insight_id => f.revision <= e.revision}

\* No live insight other than i has the key k.
KeyFree(k, i) ==
    k = NoKey \/ \A e \in Heads : e.key = k => e.deleted \/ e.insight_id = i

Create(i, k, b) ==
    /\ \A e \in ledger : e.insight_id # i
    /\ ledger' = ledger \cup {Entry(i, 1, "create", k, b, FALSE)}
    /\ KeyFree(k, i)

\* Appends the revision after e.
Append(e, operation, b, d) ==
    ledger' = ledger \cup
        {Entry(e.insight_id, e.revision + 1, operation, e.key, b, d)}

Update(e, b) == ~e.deleted /\ Append(e, "update", b, FALSE)

Delete(e) == ~e.deleted /\ Append(e, "delete", e.body, TRUE)

\* The insight whose newest snapshot is e returns to its snapshot f.
Restore(e, f) ==
    /\ f.insight_id = e.insight_id
    /\ ledger' = ledger \cup
          {Entry(e.insight_id, e.revision + 1, "restore", f.key, f.body, FALSE)}
    /\ KeyFree(f.key, e.insight_id)

\* The baseline: one snapshot of each insight migration 19 carries over, with
\* the keys of the live ones distinct.
Init ==
    /\ \A e \in ledger :
          \E i \in Id, k \in Key \cup {NoKey}, b \in Body, d \in BOOLEAN :
             e = Entry(i, 1, "baseline", k, b, d)
    /\ \A e, f \in ledger : e.insight_id = f.insight_id => e = f
    /\ \A e \in ledger : ~e.deleted => KeyFree(e.key, e.insight_id)

Next ==
    \/ \E i \in Id, k \in Key \cup {NoKey}, b \in Body : Create(i, k, b)
    \/ \E e \in Heads :
          \/ \E b \in Body : Update(e, b)
          \/ Delete(e)
          \/ \E f \in ledger : Restore(e, f)

Spec == Init /\ [][Next]_ledger
=============================================================================

--------------------------- MODULE ExecutionLedger ---------------------------
(***************************************************************************)
(* What the execution ledger of an optimizer run promises to a reader      *)
(* (src/src/rca/optimizer/execution.py): entries are only added, keep the  *)
(* task they stand for, and move forward through the task lifecycle; a     *)
(* terminal entry never changes again except that its outcome is applied   *)
(* once; applications are numbered 1, 2, 3, ...; a closed ledger has no    *)
(* open entry and is frozen until the next run opens a new one.            *)
(*                                                                         *)
(* The code's mark_* methods check none of this: the coordinator does it.  *)
(***************************************************************************)
EXTENDS Naturals, Sequences, FiniteSets

VARIABLES entries,   \* sequence of [task, status, order]; order 0: not applied
          closed     \* no run is using the ledger

\* The lifecycle drawn by ExecutionStatus and its mark_* methods.
Successors ==
    [PLANNED   |-> {"ADMITTED", "SKIPPED", "BLOCKED"},
     ADMITTED  |-> {"SUBMITTED", "SKIPPED", "CANCELLED", "BLOCKED"},
     SUBMITTED |-> {"RUNNING", "FAILED", "BLOCKED"},
     RUNNING   |-> {"COMPLETED", "FAILED", "BLOCKED"}]

IsOpen(e) == e.status \in DOMAIN Successors

NextOrder == 1 + Cardinality({i \in DOMAIN entries : entries[i].order > 0})

Forward(e, f) ==
    /\ f.task = e.task
    /\ f.status = e.status \/ (IsOpen(e) /\ f.status \in Successors[e.status])
    /\ f.order = e.order \/ (e.order = 0 /\ f.order = NextOrder /\ ~IsOpen(f))

AllClosed(s) == \A i \in DOMAIN s : ~IsOpen(s[i])

Init == entries = <<>> /\ closed = TRUE

\* A run opens a new ledger with the baseline; if optimization is disabled it
\* is blocked and applied at once.
Open ==
    /\ closed
    /\ Len(entries') = 1
    /\ \/ ~closed' /\ entries'[1].status = "RUNNING" /\ entries'[1].order = 0
       \/ closed' /\ entries'[1].status = "BLOCKED" /\ entries'[1].order = 1

Plan ==
    /\ ~closed /\ ~closed'
    /\ Len(entries') = Len(entries) + 1
    /\ \A i \in DOMAIN entries : entries'[i] = entries[i]
    /\ entries'[Len(entries')].status \in {"ADMITTED", "RUNNING", "SKIPPED"}
    /\ entries'[Len(entries')].order = 0

Advance ==
    /\ ~closed
    /\ Len(entries') = Len(entries)
    /\ \A i \in DOMAIN entries : Forward(entries[i], entries'[i])
    /\ \A i, j \in DOMAIN entries :
          entries'[i].order # entries[i].order /\ entries'[j].order # entries[j].order
              => i = j
    /\ closed' => AllClosed(entries')

Next == Open \/ Plan \/ Advance
Spec == Init /\ [][Next]_<<entries, closed>>
=============================================================================

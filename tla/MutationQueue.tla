--------------------------- MODULE MutationQueue ---------------------------
(***************************************************************************)
(* What kog agent-queue promises: one queue per repository whose commands  *)
(* are atomic.  The processes that share the queue through a lock          *)
(* directory and a state file are in AgentQueue, which implements this.    *)
(***************************************************************************)
EXTENDS QueueRules

VARIABLES
    queue,       \* the state: pending items, active batch, receipts
    admissions,  \* number of admissions so far, the order of admittedAt
    drains       \* number of drains so far, the order of the batch ids

qvars == <<queue, admissions, drains>>

-----------------------------------------------------------------------------
QInit == queue = EmptyState /\ admissions = 0 /\ drains = 0

\* An id may not repeat among the pending items.
QAdmit(id, head, intent) ==
    /\ \A i \in DOMAIN queue.pending : queue.pending[i].id # id
    /\ queue' = [queue EXCEPT !.pending =
                    Append(@, [at |-> admissions + 1, id |-> id,
                               baseHead |-> head, intent |-> intent])]
    /\ admissions' = admissions + 1
    /\ UNCHANGED drains

\* All of the pending items become the active batch, or none.
QDrain(head) ==
    /\ queue.active = NoBatch /\ queue.pending # <<>>
    /\ CanBatch(queue.pending, head)
    /\ queue' = [queue EXCEPT !.pending = <<>>,
                              !.active = [id |-> drains + 1, baseHead |-> head,
                                          items |-> queue.pending]]
    /\ drains' = drains + 1
    /\ UNCHANGED admissions

QComplete(status) ==
    /\ queue.active # NoBatch
    /\ queue' = [queue EXCEPT !.active = NoBatch,
                              !.receipts = AddReceipt(@,
                                  [id |-> queue.active.id,
                                   baseHead |-> queue.active.baseHead,
                                   items |-> queue.active.items,
                                   status |-> status])]
    /\ UNCHANGED <<admissions, drains>>

QNext ==
    \/ \E id \in ItemId, head \in Commit, intent \in Intent :
           QAdmit(id, head, intent)
    \/ \E head \in Commit : QDrain(head)
    \/ \E status \in {"succeeded", "failed", "cancelled"} : QComplete(status)

QSpec == QInit /\ [][QNext]_qvars
=============================================================================

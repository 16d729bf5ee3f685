----------------------------- MODULE QueueRules -----------------------------
(***************************************************************************)
(* The data of kog agent-queue and the rules its commands share.           *)
(***************************************************************************)
EXTENDS Integers, Sequences

CONSTANTS
    ItemId,      \* the --id of an admission
    Intent,      \* what an admission declares: files, chunks, postconditions
    Commit,      \* commit ids, the values of HEAD
    ReceiptCap   \* how many receipts the state keeps (100 in the code)

ASSUME ReceiptCapAssumption == ReceiptCap \in Nat \ {0}

Item == [at : Nat, id : ItemId, baseHead : Commit, intent : Intent]
Batch == [id : Nat, baseHead : Commit, items : Seq(Item)]
Receipt == [id : Nat, baseHead : Commit, items : Seq(Item),
            status : {"succeeded", "failed", "cancelled"}]
NoBatch == [id |-> 0]

\* EmptyState(): what LoadState gives when there is no state file.
EmptyState == [pending |-> <<>>, active |-> NoBatch, receipts |-> <<>>]

-----------------------------------------------------------------------------
\* Mutant: chunk ends are taken as exclusive.
ChunksExclusive(A, B) ==
    A # {} /\ B # {} /\ \A c \in A, d \in B : c[2] <= d[1] \/ d[2] <= c[1]

\* Inclusive line ranges <<start, end>>; no range at all proves nothing.
ChunksDoNotOverlap(A, B) ==
    A # {} /\ B # {} /\ \A c \in A, d \in B : c[2] < d[1] \/ d[2] < c[1]

\* Two intents may be in one batch.
Compatible(a, b) ==
    \A f \in a.files \cap b.files :
        \/ a.post[f] # "" /\ a.post[f] = b.post[f]
        \/ ChunksDoNotOverlap(a.chunks[f], b.chunks[f])

\* BuildBatch succeeds: every item is planned on head, all pairs fit.
CanBatch(pending, head) ==
    /\ \A i \in DOMAIN pending : pending[i].baseHead = head
    /\ \A i, j \in DOMAIN pending : i < j =>
           Compatible(pending[i].intent, pending[j].intent)

\* Mutant: the newest receipt is dropped when the list is full.
DropNewest(receipts, r) ==
    IF Len(receipts) + 1 > ReceiptCap THEN receipts ELSE Append(receipts, r)

\* Completion keeps the newest ReceiptCap receipts.
AddReceipt(receipts, r) ==
    LET all == Append(receipts, r)
    IN  IF Len(all) > ReceiptCap THEN Tail(all) ELSE all
=============================================================================

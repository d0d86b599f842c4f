------------------------- MODULE TransactionQueue -------------------------
(***************************************************************************)
(* The queue of transactions that still have to reach the backend          *)
(* (transaction_queue.cpp), in memory and as /queue.bin on flash.  Its     *)
(* operations are called by the layers above inside their own steps, so    *)
(* they are given here as operators on the queue and as one step, Store,   *)
(* that replaces the queue and writes it out.                              *)
(***************************************************************************)
EXTENDS Naturals, Sequences

CONSTANT MaxQueued      \* settings::max_queued_transactions

ASSUME MaxQueuedAssumption == MaxQueued \in Nat \ {0}

VARIABLES
    queue,      \* g_items, oldest first
    dirty,      \* g_dirty
    file,       \* what /queue.bin decodes to; a missing file decodes to <<>>
    up          \* the terminal has power

queueVars == <<queue, dirty, file, up>>

QueueInit ==
    /\ queue = <<>>
    /\ dirty = FALSE
    /\ file = <<>>
    /\ up = TRUE

----------------------------------------------------------------------------
\* Mutant: one entry more than the array holds.
FullTooLate(q) == Len(q) > MaxQueued

Full(q) == Len(q) >= MaxQueued

Purchase(t) == [kind |-> "purchase", tx |-> t]
Void(t) == [kind |-> "void", tx |-> t]

\* The queue without position i: the entries behind it move up by one.
Without(q, i) == [j \in 1 .. (Len(q) - 1) |-> IF j < i THEN q[j] ELSE q[j + 1]]

\* Mutant: drops the newest entry instead of the head.
PoppedNewest(q) == IF q = <<>> THEN q ELSE Without(q, Len(q))

\* pop(): without the head, or nothing on an empty queue.
Popped(q) == IF q = <<>> THEN q ELSE Without(q, 1)

\* remove_purchase() looks for the first queued purchase with this id.
HoldsPurchase(q, t) == \E i \in DOMAIN q : q[i] = Purchase(t)

FirstPurchase(q, t) ==
    CHOOSE i \in DOMAIN q : q[i] = Purchase(t) /\ \A j \in 1 .. (i - 1) : q[j] # Purchase(t)

WithoutPurchase(q, t) == Without(q, FirstPurchase(q, t))

----------------------------------------------------------------------------
(***************************************************************************)
(* flush() of a dirty queue whose entries are q: device_storage::write     *)
(* writes a temporary file, removes the old file and renames.  A failed    *)
(* write leaves the old file; a failed rename leaves none; a power cut     *)
(* between remove and rename leaves none either (the temporary file is     *)
(* never read back).  The queue stays dirty unless everything succeeded.   *)
(***************************************************************************)
Flush(q, faults) ==
    \/ /\ file' = q
       /\ dirty' = FALSE
       /\ up' = up
    \/ /\ "write_fails" \in faults
       /\ file' \in {file, <<>>}
       /\ dirty' = TRUE
       /\ up' = up
    \/ /\ "cut_in_write" \in faults
       /\ file' = <<>>
       /\ dirty' = TRUE
       /\ up' = FALSE

\* Mutant: leaves the write to the end of the loop.
StoreLater(q, faults) == queue' = q /\ dirty' = TRUE /\ UNCHANGED <<file, up>>

\* The queue becomes q and is flushed at once, as enqueueing and undoing do.
Store(q, faults) == queue' = q /\ Flush(q, faults)

\* The queue becomes q and waits for the flush at the end of the loop.
ChangeInMemory(q) ==
    /\ queue' = q
    /\ dirty' = (dirty \/ q # queue)
    /\ UNCHANGED <<file, up>>

\* Mutant: a file that is there is not read back.
LoadQueueEmpty == queue' = <<>> /\ dirty' = FALSE /\ up' = TRUE /\ UNCHANGED file

\* begin(): after a restart the queue is what the file holds.
LoadQueue ==
    /\ queue' = file
    /\ dirty' = FALSE
    /\ up' = TRUE
    /\ UNCHANGED file

=============================================================================

----------------------------- MODULE RingBuffer -----------------------------
(***************************************************************************)
(* The ring buffer between a host thread that calls WriteInterleaved       *)
(* (ringbuffer_helpers.hpp) and the thread of a RingBuffer subcontroller   *)
(* (RingBuffer.hpp) that runs in a Loop (INTERFACE.hpp).                   *)
(*                                                                         *)
(* The two cursors are atomics, the slots are plain memory: an access to a *)
(* slot is a phase of its own, so that two overlapping accesses are a      *)
(* state. The k-th item written is the number k.                           *)
(***************************************************************************)
EXTENDS Integers, Sequences

CONSTANTS
  Size,       \* number of slots: distance of the ring's begin and end
  MaxWrites   \* bound: items the host writes

ASSUME RingAssumption == Size \in Nat /\ Size >= 2 /\ MaxWrites \in Nat

VARIABLES
  current, threadcurrent,  \* RingBufferTaskCable
  notify,                  \* the Notify flag is signalled
  slot,                    \* the ring's memory
  writer,                  \* phase of the host's WriteInterleaved
  reader,                  \* phase of the subcontroller's loop
  rThread, rCurrent,       \* threadcurrent and current of read_hook
  published,               \* history: items the host has stored current for
  received,                \* history: what transfer() was given
  stop,                    \* stop_token's Updated is signalled
  aborted                  \* the program has aborted

hostVars == <<current, slot, writer, published>>
taskVars == <<threadcurrent, reader, rThread, rCurrent, received>>
vars == <<hostVars, taskVars, notify, stop, aborted>>

Slots == 0 .. Size - 1

\* Faulty variant: the end is compared before the increment.
AdvanceLate(p) == IF p = Size THEN 0 ELSE p + 1

\* ++p, back to the start at the end.
Advance(p) == IF p + 1 = Size THEN 0 ELSE p + 1

Init ==
  /\ threadcurrent = 0 /\ current = 1
  /\ notify = FALSE
  /\ slot = [p \in Slots |-> 0]
  /\ writer = "idle" /\ reader = "loop"
  /\ rThread = 0 /\ rCurrent = 0
  /\ published = 0 /\ received = <<>>
  /\ stop = FALSE /\ aborted = FALSE

-----------------------------------------------------------------------------
(* The host thread: WriteInterleaved.                                      *)

\* Faulty variants: the check is dropped; the ring is called full with a slot still free.
FullNever == FALSE
FullEarly == Advance(current) = threadcurrent

Full == current = threadcurrent

\* Both cursors are loaded and compared: there is a free slot, or there is none.
WriteBegin ==
  /\ ~aborted /\ writer = "idle" /\ ~stop /\ published < MaxWrites
  /\ writer' = IF Full THEN "overwrite" ELSE "write"
  /\ UNCHANGED <<current, slot, published, taskVars, notify, stop, aborted>>

WriteSlot ==
  /\ ~aborted /\ writer = "write"
  /\ slot' = [slot EXCEPT ![current] = published + 1]
  /\ writer' = "advance"
  /\ UNCHANGED <<current, published, taskVars, notify, stop, aborted>>

\* Faulty variant: the reader is only notified of the first item in an empty ring.
StoreCurrentIfEmpty ==
  /\ ~aborted /\ writer = "advance"
  /\ current' = Advance(current)
  /\ published' = published + 1
  /\ writer' = IF current = Advance(threadcurrent) THEN "notify" ELSE "idle"
  /\ UNCHANGED <<slot, taskVars, notify, stop, aborted>>

StoreCurrent ==
  /\ ~aborted /\ writer = "advance"
  /\ current' = Advance(current)
  /\ published' = published + 1
  /\ writer' = "notify"
  /\ UNCHANGED <<slot, taskVars, notify, stop, aborted>>

Notify ==
  /\ ~aborted /\ writer = "notify"
  /\ notify' = TRUE
  /\ writer' = "idle"
  /\ UNCHANGED <<current, slot, published, taskVars, stop, aborted>>

\* No free slot: the slot current points at is written all the same, then runtime_error.
Overwrite ==
  /\ ~aborted /\ writer = "overwrite"
  /\ slot' = [slot EXCEPT ![current] = published + 1]
  /\ aborted' = TRUE
  /\ UNCHANGED <<current, writer, published, taskVars, notify, stop>>

-----------------------------------------------------------------------------
(* The subcontroller's thread: _stoppable_loop, event_loop, read_hook.     *)

\* is_running()
LoopTop ==
  /\ ~aborted /\ reader = "loop"
  /\ reader' = IF stop THEN "ended" ELSE "poll"
  /\ UNCHANGED <<threadcurrent, rThread, rCurrent, received, hostVars, notify, stop, aborted>>

\* event_loop: the notification is consumed before the cursors are looked at.
Poll ==
  /\ ~aborted /\ reader = "poll"
  /\ reader' = IF notify THEN "snapshot" ELSE "loop"
  /\ notify' = FALSE
  /\ UNCHANGED <<threadcurrent, rThread, rCurrent, received, hostVars, stop, aborted>>

Snapshot ==
  /\ ~aborted /\ reader = "snapshot"
  /\ rThread' = threadcurrent /\ rCurrent' = current
  /\ reader' = "step"
  /\ UNCHANGED <<threadcurrent, received, hostVars, notify, stop, aborted>>

\* Faulty variant: threadcurrent is stored before the slot is read.
StepStored ==
  LET p == Advance(rThread) IN
  /\ ~aborted /\ reader = "step"
  /\ rThread' = p
  /\ reader' = IF p # rCurrent THEN "transfer" ELSE "loop"
  /\ threadcurrent' = IF p # rCurrent THEN p ELSE threadcurrent
  /\ UNCHANGED <<rCurrent, received, hostVars, notify, stop, aborted>>

\* Faulty variant: the notification is consumed when the walk has ended, too.
StepForgets ==
  LET p == Advance(rThread) IN
  /\ ~aborted /\ reader = "step"
  /\ rThread' = p
  /\ reader' = IF p # rCurrent THEN "transfer" ELSE "loop"
  /\ notify' = (notify /\ p # rCurrent)
  /\ UNCHANGED <<threadcurrent, rCurrent, received, hostVars, stop, aborted>>

Step ==
  LET p == Advance(rThread) IN
  /\ ~aborted /\ reader = "step"
  /\ rThread' = p
  /\ reader' = IF p # rCurrent THEN "transfer" ELSE "loop"
  /\ UNCHANGED <<threadcurrent, rCurrent, received, hostVars, notify, stop, aborted>>

Transfer ==
  /\ ~aborted /\ reader = "transfer"
  /\ received' = Append(received, slot[rThread])
  /\ reader' = "store"
  /\ UNCHANGED <<threadcurrent, rThread, rCurrent, hostVars, notify, stop, aborted>>

\* Faulty variant: one item is read per notification.
StoreThreadOnce ==
  /\ ~aborted /\ reader = "store"
  /\ threadcurrent' = rThread
  /\ reader' = "loop"
  /\ UNCHANGED <<rThread, rCurrent, received, hostVars, notify, stop, aborted>>

StoreThread ==
  /\ ~aborted /\ reader = "store"
  /\ threadcurrent' = rThread
  /\ reader' = "step"
  /\ UNCHANGED <<rThread, rCurrent, received, hostVars, notify, stop, aborted>>

-----------------------------------------------------------------------------
\* The destructor's request_stop(), by the host thread between two writes.
RequestStop ==
  /\ ~aborted /\ writer = "idle" /\ ~stop
  /\ stop' = TRUE
  /\ UNCHANGED <<hostVars, taskVars, notify, aborted>>

\* The thread has been joined, or the program has aborted.
Terminated == (aborted \/ reader = "ended") /\ UNCHANGED vars

Host == WriteBegin \/ WriteSlot \/ StoreCurrent \/ Notify \/ Overwrite
Task == LoopTop \/ Poll \/ Snapshot \/ Step \/ Transfer \/ StoreThread

Next == Host \/ Task \/ RequestStop \/ Terminated

Spec == Init /\ [][Next]_vars

\* Both threads run; the host need neither start a write nor stop the loop.
Fairness == WF_vars(Task) /\ WF_vars(WriteSlot \/ StoreCurrent \/ Notify \/ Overwrite)

FairSpec == Spec /\ Fairness

-----------------------------------------------------------------------------
(* Properties.                                                             *)

\* The type invariant: both cursors stay inside the ring (the wrap of RingBuffer.hpp 54-56
\* and ringbuffer_helpers.hpp 22-24).
TypeOK ==
  /\ current \in Slots /\ threadcurrent \in Slots
  /\ notify \in BOOLEAN
  /\ slot \in [Slots -> Nat]
  /\ writer \in {"idle", "write", "advance", "notify", "overwrite"}
  /\ reader \in {"loop", "poll", "snapshot", "step", "transfer", "store", "ended"}
  /\ rThread \in Slots /\ rCurrent \in Slots
  /\ published \in Nat
  /\ received \in Seq(Nat)
  /\ stop \in BOOLEAN /\ aborted \in BOOLEAN

\* The host never writes a slot while the task reads it, not even when it finds no free slot
\* and writes "the last bit" (ringbuffer_helpers.hpp 27-32).
NoRace ==
  ~(writer \in {"write", "overwrite"} /\ reader = "transfer" /\ current = rThread)

\* transfer() is given the items in the order they were written, each once and none skipped.
Fifo == \A k \in 1 .. Len(received) : received[k] = k

\* The items the host may not overwrite: published, and threadcurrent not yet stored.
Unread == published - Len(received) + (IF reader = "store" THEN 1 ELSE 0)

\* An item the task has not been told of yet: it will look, or a notification is pending or
\* about to be given (store of current, then clear; test_and_set, then load of current).
NoLostWakeup ==
  (Unread > 0 /\ reader \in {"loop", "poll"}) => (notify \/ writer = "notify")

\* The program aborts only if every slot but one holds an unread item: a burst of Size - 1
\* items into an empty ring, as in test_ringbuffer.cpp, never fails.
AbortsOnlyWhenFull ==
  [][(writer # "overwrite" /\ writer' = "overwrite") => Unread = Size - 1]_vars

\* Every item is read, unless the loop is stopped or the program aborts first.
AllRead ==
  \A k \in 1 .. MaxWrites : (published >= k) ~> (Len(received) >= k \/ stop \/ aborted)

=============================================================================

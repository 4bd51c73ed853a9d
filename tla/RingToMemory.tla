---------------------------- MODULE RingToMemory ----------------------------
(***************************************************************************)
(* The ring buffer whose task writes what it reads to the memory           *)
(* controller (RingToMemory.cpp): RingBuffer and MemoryReader in one       *)
(* program. The task's transfer() is write(), which copies the Blink       *)
(* samples of a slot to the memory and guards both cursors with the        *)
(* Writing flag.                                                           *)
(***************************************************************************)
EXTENDS MemoryReader, Sequences

CONSTANTS
  RingSize,   \* slots of the ring
  MaxWrites   \* bound: items the host of the ring writes

VARIABLES
  current, threadcurrent, notify, slot, ringWriter, task,  \* RingBuffer
  rThread, rCurrent, published, received, stop,
  phase, pos   \* phase of write(), and the next sample it copies

ringVars == <<current, threadcurrent, notify, slot, ringWriter, task,
              rThread, rCurrent, published, received, stop>>
writeVars == <<phase, pos>>
vars == <<memVars, ringVars, writeVars>>

Ring == INSTANCE RingBuffer WITH Size <- RingSize, writer <- ringWriter, reader <- task

ASSUME RingToMemoryAssumption == RingSize \in Nat /\ RingSize >= 2 /\ MaxWrites \in Nat

Init == MemInit /\ Ring!Init /\ phase = "idle" /\ pos = 0

-----------------------------------------------------------------------------
(* The ring's threads; write() is a part of the task's transfer().         *)

memAlone == <<blockVars, writing, busVars, readerVars, hostVars, writeVars>>

RingHost == (Ring!Host \/ Ring!RequestStop) /\ UNCHANGED memAlone

RingTask ==
  /\ Ring!LoopTop \/ Ring!Poll \/ Ring!Snapshot \/ Ring!Step \/ Ring!StoreThread
  /\ UNCHANGED memAlone

-----------------------------------------------------------------------------
(* RingBufferTaskImpl::write                                               *)

\* Faulty variant: the room is checked for one sample.
FitsOne == bkStart + 1 <= Size

\* Blink <= distance(bk_start, end)
Fits == bkStart + Blink <= Size

WriteBegin ==
  /\ ~aborted /\ task = "transfer" /\ phase = "idle"
  /\ IF Fits
     THEN writing' = TRUE /\ phase' = "extend" /\ UNCHANGED aborted
     ELSE aborted' = TRUE /\ UNCHANGED <<writing, phase>>
  /\ UNCHANGED <<blockVars, busVars, readerVars, hostVars, ringVars, pos>>

Extend ==
  /\ ~aborted /\ phase = "extend"
  /\ bkEnd' = bkStart + Blink
  /\ phase' = "release"
  /\ UNCHANGED <<bkStart, memory, writing, busVars, readerVars, hostVars, ringVars, pos, aborted>>

ReleaseFirst ==
  /\ ~aborted /\ phase = "release"
  /\ writing' = FALSE
  /\ phase' = "copy" /\ pos' = 0
  /\ UNCHANGED <<blockVars, busVars, readerVars, hostVars, ringVars, aborted>>

\* Faulty variant: the copy takes the slot of threadcurrent.
ItemBefore == slot[threadcurrent]

\* The character transfer() is given.
Item == slot[rThread]

\* std::copy, one sample per step.
CopySample ==
  /\ ~aborted /\ phase = "copy" /\ pos < Blink
  /\ memory' = [memory EXCEPT ![bkStart + pos] = (Item - 1) * Blink + pos + 1]
  /\ pos' = pos + 1
  /\ UNCHANGED <<bkStart, bkEnd, writing, busVars, readerVars, hostVars, ringVars, phase, aborted>>

HoldAgain ==
  /\ ~aborted /\ phase = "copy" /\ pos = Blink
  /\ writing' = TRUE
  /\ phase' = "advance"
  /\ UNCHANGED <<blockVars, busVars, readerVars, hostVars, ringVars, pos, aborted>>

Advance ==
  /\ ~aborted /\ phase = "advance"
  /\ bkStart' = bkStart + Blink
  /\ phase' = "last"
  /\ UNCHANGED <<bkEnd, memory, writing, busVars, readerVars, hostVars, ringVars, pos, aborted>>

\* The second window ends.
ReleaseLast ==
  /\ ~aborted /\ phase = "last"
  /\ writing' = FALSE
  /\ phase' = "check"
  /\ UNCHANGED <<blockVars, busVars, readerVars, hostVars, ringVars, pos, aborted>>

\* The cursors have met, or "unexpected writes left"; transfer() returns.
WriteEnd ==
  /\ ~aborted /\ phase = "check"
  /\ phase' = "idle"
  /\ IF bkStart = bkEnd
     THEN Ring!Transfer
     ELSE aborted' = TRUE /\ UNCHANGED ringVars
  /\ UNCHANGED <<blockVars, writing, busVars, readerVars, hostVars, pos>>

Write ==
  \/ WriteBegin \/ Extend \/ ReleaseFirst \/ CopySample \/ HoldAgain \/ Advance \/ ReleaseLast
  \/ WriteEnd

-----------------------------------------------------------------------------
ReaderSide == (Reader \/ Host) /\ UNCHANGED <<ringVars, writeVars>>

\* The program has aborted, or its task was joined and the host has printed its blocks.
Terminated ==
  /\ aborted \/ (/\ task = "ended" /\ reads = MaxReads /\ host = "idle"
                 /\ ~updated /\ ~acknowledge /\ reader = "idle")
  /\ UNCHANGED vars

Next == RingHost \/ RingTask \/ Write \/ ReaderSide \/ Terminated

Spec == Init /\ [][Next]_vars

Fairness ==
  /\ WF_vars(RingTask \/ Write)
  /\ WF_vars((Ring!WriteSlot \/ Ring!StoreCurrent \/ Ring!Notify \/ Ring!Overwrite) /\ UNCHANGED memAlone)
  /\ WF_vars(Reader /\ UNCHANGED <<ringVars, writeVars>>)
  /\ WF_vars(Host /\ UNCHANGED <<ringVars, writeVars>>)

FairSpec == Spec /\ Fairness

-----------------------------------------------------------------------------
(* Properties.                                                             *)

\* The type invariant.
TypeOK ==
  /\ MemTypeOK /\ Ring!TypeOK
  /\ phase \in {"idle", "extend", "release", "copy", "advance", "last", "check"}
  /\ pos \in 0 .. Blink

\* The slot of the item is not overwritten while it is copied to the memory, sample by sample:
\* threadcurrent is stored after transfer() has returned (RingBuffer.hpp 58-59).
SlotKept == phase # "idle" => slot[rThread] = Len(received) + 1

\* Between two writes the memory holds the samples of every item the task has read, in order
\* and without a gap, up to bk_start, and nothing behind it; and the assertion behind a write
\* holds, both cursors have met (RingToMemory.cpp 94-95).
Stored ==
  /\ (phase = "idle" /\ ~aborted) =>
       /\ bkStart = Blink * Len(received) /\ bkEnd = bkStart
       /\ \A c \in Cells : memory[c] = IF c < bkStart THEN c + 1 ELSE 0
  /\ phase = "check" => bkStart = bkEnd

\* The busy samples of a block are those of one write and the one behind it: during a write
\* the flag is only up while a cursor changes, and the whole slot stays busy.
FewBusy ==
  acknowledge => \A i, j \in Places : randomread[i] = Busy /\ randomread[j] = Busy => j - i <= Blink

\* The reader delivers as good a block from behind the ring as from behind the simple writer,
\* although here the flag is up in two short windows of a write and not for all of it.
Delivered == BlockInOrder /\ Fresh /\ Placed /\ FewBusy

\* Every item the host has written is stored, unless the loop is stopped or the program aborts.
AllStored ==
  \A k \in 1 .. MaxWrites :
    (published >= k) ~> (bkStart >= k * Blink \/ stop \/ aborted)

=============================================================================

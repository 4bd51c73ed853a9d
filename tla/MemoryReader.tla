---------------------------- MODULE MemoryReader ----------------------------
(***************************************************************************)
(* The reading half of a memory controller (MemoryController.hpp): a host  *)
(* that asks for blocks over a ReaderBus, the thread of the Reader that    *)
(* copies a block out of the memory, and the BlockerBus on which a writer  *)
(* of another module says which samples it is writing.                     *)
(*                                                                         *)
(* Every atomic flag and cursor is accessed by a step of its own. The      *)
(* Reading flag of the BlockerBus is left out: nobody looks at it.         *)
(* A sample is the number of the write it came from, 0 before any.         *)
(***************************************************************************)
EXTENDS Integers

CONSTANTS
  Size,      \* STORAGE_SIZE: samples of the memory
  Block,     \* BLOCK_SIZE: samples of the host's buffer
  Blink,     \* samples per write
  Offsets,   \* the read offsets the host may ask for
  MaxReads   \* bound: blocks the host asks for

ASSUME ReaderAssumption ==
  /\ Size \in Nat /\ Block \in Nat /\ Blink \in Nat /\ Blink >= 1
  /\ Offsets \subseteq Int /\ MaxReads \in Nat

VARIABLES
  bkStart, bkEnd,        \* MemoryControllerWriteRange: the samples being written
  writing,               \* BlockerBus: the Writing flag is signalled
  memory,                \* memorycontroller
  updated, acknowledge,  \* ReaderBus: the flags of the handshake are signalled
  offset,                \* ReadOffset
  randomread,            \* the host's buffer, filled by the reader
  reader,                \* phase of the reader's event_loop and read()
  rOffset, rb, rEnd,     \* locals of read(): readOffset, samples left to read, bk_end
  host,                  \* phase of the host's thread
  hostPos,               \* next sample the host prints
  reads,                 \* blocks asked for
  known,                 \* history: bk_start when the block was asked for
  aborted                \* the program has aborted

blockVars == <<bkStart, bkEnd, memory>>
busVars == <<updated, acknowledge, offset>>
readerVars == <<randomread, reader, rOffset, rb, rEnd>>
hostVars == <<host, hostPos, reads, known>>
memVars == <<blockVars, writing, busVars, readerVars, hostVars, aborted>>

Cells == 0 .. Size - 1
Places == 0 .. Block - 1

\* What busy() stores: the character X.
Busy == -1

MemInit ==
  /\ bkStart = 0 /\ bkEnd = 0 /\ writing = FALSE
  /\ memory = [c \in Cells |-> 0]
  /\ updated = FALSE /\ acknowledge = FALSE /\ offset = 0
  /\ randomread = [i \in Places |-> 0]
  /\ reader = "idle" /\ rOffset = 0 /\ rb = 0 /\ rEnd = 0
  /\ host = "start" /\ hostPos = 0
  /\ reads = 0 /\ known = 0
  /\ aborted = FALSE

-----------------------------------------------------------------------------
(* The host thread: Functor.                                               *)

\* setOffset and Updated.clear().
Ask ==
  /\ reads < MaxReads /\ reads' = reads + 1
  /\ offset' \in Offsets
  /\ updated' = TRUE
  /\ known' = bkStart

AskFirst ==
  /\ ~aborted /\ host = "start"
  /\ Ask
  /\ host' = "idle"
  /\ UNCHANGED <<blockVars, writing, acknowledge, readerVars, hostPos, aborted>>

\* A block has been read. The next one is asked for before this one is printed; the tests keep
\* the offset, and name this as the place to change it.
TakeBlock ==
  /\ ~aborted /\ host = "idle" /\ acknowledge
  /\ acknowledge' = FALSE
  /\ IF reads < MaxReads THEN Ask ELSE UNCHANGED <<reads, offset, updated, known>>
  /\ host' = "print" /\ hostPos' = 0
  /\ UNCHANGED <<blockVars, writing, readerVars, aborted>>

PrintSample ==
  /\ ~aborted /\ host = "print"
  /\ IF hostPos = Block
     THEN host' = "idle" /\ UNCHANGED hostPos
     ELSE hostPos' = hostPos + 1 /\ UNCHANGED host
  /\ UNCHANGED <<blockVars, writing, busVars, readerVars, reads, known, aborted>>

-----------------------------------------------------------------------------
(* The reader's thread: Reader::event_loop and ReadTask::read, which copies *)
(* the block backwards.                                                    *)

\* Faulty variant: only the first sample of the range is checked.
OutOfBoundsFirst == offset < 0 \/ Size < offset

OutOfBounds == offset < 0 \/ Size < offset + Block

\* A block is asked for: its range is checked and read() starts behind its last sample.
StartRead ==
  /\ ~aborted /\ reader = "idle" /\ updated
  /\ updated' = FALSE
  /\ IF OutOfBounds
     THEN aborted' = TRUE /\ UNCHANGED readerVars
     ELSE /\ rOffset' = offset /\ rb' = Block
          /\ reader' = "wait"
          /\ UNCHANGED <<randomread, rEnd, aborted>>
  /\ UNCHANGED <<blockVars, writing, acknowledge, offset, hostVars>>

\* wait(): test_and_set() of the Writing flag. A signalled flag is put back by a second access.
Wait ==
  /\ ~aborted /\ reader = "wait" /\ rb # 0
  /\ writing' = FALSE
  /\ reader' = IF writing THEN "putBack" ELSE "loadEnd"
  /\ UNCHANGED <<blockVars, busVars, randomread, rOffset, rb, rEnd, hostVars, aborted>>

PutBack ==
  /\ ~aborted /\ reader = "putBack"
  /\ writing' = TRUE
  /\ reader' = "wait"
  /\ UNCHANGED <<blockVars, busVars, randomread, rOffset, rb, rEnd, hostVars, aborted>>

LoadEnd ==
  /\ ~aborted /\ reader = "loadEnd"
  /\ rEnd' = bkEnd
  /\ reader' = "loadStart"
  /\ UNCHANGED <<blockVars, writing, busVars, randomread, rOffset, rb, hostVars, aborted>>

\* Faulty variant: the sample before the range counts as busy too.
BetweenWide(mc, start, end) == mc + 1 >= start /\ mc <= end

\* Not outside of the range a write has announced, its end included.
Between(mc, start, end) == mc >= start /\ mc <= end

\* Faulty variant: the block is read forwards.
PlaceForwards(k) == Block - 1 - k

\* The place that is read when k samples are left after it.
Place(k) == k

\* The next sample is busy, or it will be copied.
LoadStart ==
  /\ ~aborted /\ reader = "loadStart"
  /\ rb' = rb - 1
  /\ IF Between(rOffset + Place(rb - 1), bkStart, rEnd)
     THEN /\ randomread' = [randomread EXCEPT ![Place(rb - 1)] = Busy]
          /\ reader' = "wait"
     ELSE /\ reader' = "copy"
          /\ UNCHANGED randomread
  /\ UNCHANGED <<blockVars, writing, busVars, rOffset, rEnd, hostVars, aborted>>

\* Faulty variant: the place in the memory is one ahead of the place in the block.
CopyAhead ==
  /\ ~aborted /\ reader = "copy"
  /\ randomread' = [randomread EXCEPT ![rb] = memory[(rOffset + rb + 1) % Size]]
  /\ reader' = "wait"
  /\ UNCHANGED <<blockVars, writing, busVars, rOffset, rb, rEnd, hostVars, aborted>>

Copy ==
  /\ ~aborted /\ reader = "copy"
  /\ randomread' = [randomread EXCEPT ![Place(rb)] = memory[rOffset + Place(rb)]]
  /\ reader' = "wait"
  /\ UNCHANGED <<blockVars, writing, busVars, rOffset, rb, rEnd, hostVars, aborted>>

\* Faulty variant: the host is not told.
FinishSilently ==
  /\ ~aborted /\ reader = "wait" /\ rb = 0
  /\ reader' = "idle"
  /\ UNCHANGED <<blockVars, writing, busVars, randomread, rOffset, rb, rEnd, hostVars, aborted>>

\* The whole block is read.
Finish ==
  /\ ~aborted /\ reader = "wait" /\ rb = 0
  /\ acknowledge' = TRUE
  /\ reader' = "idle"
  /\ UNCHANGED <<blockVars, writing, updated, offset, randomread, rOffset, rb, rEnd, hostVars, aborted>>

-----------------------------------------------------------------------------
Reader == StartRead \/ Wait \/ PutBack \/ LoadEnd \/ LoadStart \/ Copy \/ Finish
Host == AskFirst \/ TakeBlock \/ PrintSample

-----------------------------------------------------------------------------
(* Properties.                                                             *)

\* The types of the BlockerBus with the memory, of the ReaderBus, of the reader and of the host.
BlockTypeOK ==
  /\ bkStart \in 0 .. Size /\ bkEnd \in 0 .. Size /\ writing \in BOOLEAN
  /\ memory \in [Cells -> Nat]

BusTypeOK == updated \in BOOLEAN /\ acknowledge \in BOOLEAN /\ offset \in Offsets \cup {0}

ReaderTypeOK ==
  /\ randomread \in [Places -> Nat \cup {Busy}]
  /\ reader \in {"idle", "wait", "putBack", "loadEnd", "loadStart", "copy"}
  /\ rOffset \in Nat /\ rb \in 0 .. Block /\ rEnd \in 0 .. Size
  /\ reader # "idle" => rOffset + Block <= Size

HostTypeOK ==
  /\ host \in {"start", "idle", "print"} /\ hostPos \in 0 .. Block
  /\ reads \in 0 .. MaxReads /\ known \in 0 .. Size

MemTypeOK == BlockTypeOK /\ BusTypeOK /\ ReaderTypeOK /\ HostTypeOK /\ aborted \in BOOLEAN

\* No sample is missing in the middle: below a sample that is busy or written there is none
\* that looks unwritten, and below a written one every sample of an earlier write is there.
\* The reader walks backwards while the writer walks forwards (MemoryController.hpp 325-336).
BlockInOrder ==
  acknowledge => \A i, j \in Places : i < j =>
    /\ randomread[j] # 0 => randomread[i] # 0
    /\ randomread[j] > 0 /\ i + Blink <= j => randomread[i] > 0

\* A sample that was written before the block was asked for is delivered, and never as busy.
Fresh ==
  acknowledge => \A i \in Places : offset + i < known => randomread[i] = offset + i + 1

\* What is delivered as written is the sample of that place, from the host's offset on.
Placed ==
  acknowledge => \A i \in Places : randomread[i] \in {0, Busy, offset + i + 1}

\* The reading of a block comes to an end: its waits are "intermittent" (MemoryController.hpp 364).
ReadEnds == (reader = "wait") ~> (reader = "idle" \/ aborted)

=============================================================================

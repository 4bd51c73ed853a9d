-------------------------- MODULE MemoryController --------------------------
(***************************************************************************)
(* The memory controller with the writer of NonBlockingWriteTask           *)
(* (MemoryController.hpp), called by the event_loop of WritePriorityImpl   *)
(* (MemoryController.cpp). A write is one sample.                          *)
(***************************************************************************)
EXTENDS MemoryReader

VARIABLE writer  \* phase of write()

vars == <<memVars, writer>>

Init == MemInit /\ writer = "idle"

-----------------------------------------------------------------------------
(* The writer's thread.                                                    *)

\* A write begins with the Writing flag; there is no memory left, or there is.
WriteBegin ==
  /\ ~aborted /\ writer = "idle"
  /\ IF bkStart = Size
     THEN aborted' = TRUE /\ UNCHANGED <<writing, writer>>
     ELSE writing' = TRUE /\ writer' = "extend" /\ UNCHANGED aborted
  /\ UNCHANGED <<blockVars, busVars, readerVars, hostVars>>

Extend ==
  /\ ~aborted /\ writer = "extend"
  /\ bkEnd' = bkEnd + 1
  /\ writer' = "store"
  /\ UNCHANGED <<bkStart, memory, writing, busVars, readerVars, hostVars, aborted>>

Store ==
  /\ ~aborted /\ writer = "store"
  /\ memory' = [memory EXCEPT ![bkStart] = bkStart + 1]
  /\ writer' = "advance"
  /\ UNCHANGED <<bkStart, bkEnd, writing, busVars, readerVars, hostVars, aborted>>

Advance ==
  /\ ~aborted /\ writer = "advance"
  /\ bkStart' = bkStart + 1
  /\ writer' = "release"
  /\ UNCHANGED <<bkEnd, memory, writing, busVars, readerVars, hostVars, aborted>>

Release ==
  /\ ~aborted /\ writer = "release"
  /\ writing' = FALSE
  /\ writer' = "idle"
  /\ UNCHANGED <<blockVars, busVars, readerVars, hostVars, aborted>>

-----------------------------------------------------------------------------
Writer == WriteBegin \/ Extend \/ Store \/ Advance \/ Release

\* The program has aborted, or every block was printed; the writer may have stopped before.
Terminated ==
  /\ aborted \/ (reads = MaxReads /\ host = "idle" /\ ~updated /\ ~acknowledge /\ reader = "idle")
  /\ UNCHANGED vars

Next ==
  \/ Writer
  \/ (Reader \/ Host) /\ UNCHANGED writer
  \/ Terminated

Spec == Init /\ [][Next]_vars

\* All threads run; the writer's loop can be stopped between two writes.
Fairness ==
  /\ WF_vars(Extend \/ Store \/ Advance \/ Release)
  /\ WF_vars(Reader /\ UNCHANGED writer)
  /\ WF_vars(Host /\ UNCHANGED writer)

FairSpec == Spec /\ Fairness

-----------------------------------------------------------------------------
(* Properties.                                                             *)

\* The type invariant.
TypeOK == MemTypeOK /\ writer \in {"idle", "extend", "store", "advance", "release"}

\* At most one sample of a block is busy. While a write goes on the reader waits, so a write
\* can only overtake the one sample it has looked at; bk_end and bk_start are loaded one after
\* the other (MemoryController.hpp 326-331), and that must not widen the gap.
OneBusy ==
  acknowledge => \A i, j \in Places : randomread[i] = Busy /\ randomread[j] = Busy => i = j

\* The Writing flag is up although nobody writes.
FlagLeft == writer = "idle" /\ (writing \/ reader = "putBack")

\* Every block that is asked for is delivered, unless the program aborts or the Writing flag
\* is left up for ever.
Answered == updated ~> (acknowledge \/ aborted \/ []FlagLeft)

=============================================================================

----------------------------- MODULE SerialLink -----------------------------
(***************************************************************************)
(* The serial link between the FPGA and the MCU: the event loop of         *)
(* Protocol::Serial (Serial.hpp) with its block transfer                   *)
(* (ByteWiseTransfer.hpp), the signal bits of the two crossovers           *)
(* (MCUFPGA.hpp), the shutdown conditions and destructors of FPGA and MCU  *)
(* (impl/MCUFPGA.cpp), the flags the resolver thread exchanges with the    *)
(* event loop (SerialNotifier.hpp), and the thread of test_mcufpga.cpp     *)
(* that carries a byte from one side's output to the other's input.        *)
(*                                                                         *)
(* A byte on the wire has a request bit (7), an acknowledge bit (6) and a  *)
(* 6-bit body: a state code, an object id, or a sextet of object data.     *)
(* Three bytes of an object travel as four sextets. An object is Triples   *)
(* groups of three bytes; what an application wrote is a version number,   *)
(* held by the first group, since the resolver writes the first byte only. *)
(***************************************************************************)
EXTENDS Integers, FiniteSets

CONSTANTS
  NumIds,      \* number of mirrored objects: descriptors.size()
  Triples,     \* length of every object, in groups of three bytes
  MaxWrites,   \* bound: writes the applications make in all
  FirstOwner,  \* the side that may write an object first
  FreeWrites,  \* TRUE: an application writes without waiting for its turn
  DeleteWhen   \* when the FPGA may be destroyed: "never", "poweredOn", "anytime"

Ids == 0 .. NumIds - 1
NoId == NumIds               \* NUM_IDS of the code: no object
Sides == {"fpga", "mcu"}
Peer(s) == IF s = "fpga" THEN "mcu" ELSE "fpga"

ASSUME LinkAssumption ==
  /\ NumIds \in Nat \ {0} /\ Triples \in Nat \ {0} /\ MaxWrites \in Nat
  /\ FirstOwner \in [Ids -> Sides]
  /\ FreeWrites \in BOOLEAN
  /\ DeleteWhen \in {"never", "poweredOn", "anytime"}

VARIABLES
  flagUpdated, flagAck,   \* the handshake flags of each side's ComBus
  inBuf, outBuf,          \* the one-byte buffers of each side's ComBus
  wireFirst,              \* firstrun of client_funct
  pc,                     \* where each event loop is
  scan,                   \* the j of getFirstTransfer
  firstRun, incoming, waiting,       \* first_run, incomingRequest, waitingConfirmation
  com,                    \* com_vars
  requesting,             \* fpga_updated of the FPGA, mcu_updated of the MCU
  acknowledging,          \* mcu_acknowledge of the FPGA, fpga_acknowledge of the MCU
  readLock, transfer,     \* the ids whose flag is set
  recv, send,             \* receive_lock, readDestination, ...; send_lock, writeOrigin, ...
  readStarted,            \* read_started_id
  syncMe, pending,        \* sync_me signalled; pending_write_request
  readAck, readFault, writeAck, writeFault,  \* signalled flags of ResolverSwitch
  obj,                    \* version held by each object's first byte
  turn,                   \* the ids each application may write
  writes,                 \* writes made so far
  tx, rx,                 \* tx_counter, rx_counter
  life,                   \* of the FPGA and MCU object: "alive", "deleting", "gone"
  aborted                 \* the error code the program aborted with

lineVars == <<flagUpdated, flagAck, inBuf, outBuf, wireFirst>>
loopVars == <<pc, scan, firstRun, incoming, waiting>>
signalVars == <<com, requesting, acknowledging>>
blockVars == <<readLock, transfer, recv, send, tx, rx>>
switchVars == <<readStarted, syncMe, pending, readAck, readFault, writeAck, writeFault>>
appVars == <<obj, turn, writes, life>>
vars == <<lineVars, loopVars, signalVars, blockVars, switchVars, appVars, aborted>>

-----------------------------------------------------------------------------
(* Bytes.                                                                  *)

States == {"poweron", "idle", "shutdown", "sighup"}
Kinds == States \cup {"request", "data"}
Bytes == [request : BOOLEAN, acknowledge : BOOLEAN, kind : Kinds, id : 0 .. NumIds,
          pos : 0 .. Triples - 1, count : 0 .. 3, val : 0 .. MaxWrites]

\* What write_bits and write_byte send after send_request, with a state code or an id.
Control(s, kind, id) ==
  [request |-> TRUE, acknowledge |-> acknowledging[s], kind |-> kind, id |-> id,
   pos |-> 0, count |-> 0, val |-> 0]

\* What write(w) sends: the sextet's place in the object, and the version it carries.
Sextet(s, origin, pos, count, val) ==
  [request |-> requesting[s], acknowledge |-> acknowledging[s], kind |-> "data",
   id |-> origin, pos |-> pos, count |-> count, val |-> val]

BlankByte == [request |-> FALSE, acknowledge |-> FALSE, kind |-> "data", id |-> NoId,
              pos |-> 0, count |-> 0, val |-> 0]

\* What read_hook can take a byte with the request bit for: a state code or an id as it
\* was sent; of a data sextet, any six bits, ids past the last object included.
Meanings(b) ==
  IF b.kind = "data" THEN ({"poweron", "idle", "shutdown", "sighup"} \X {NoId})
                          \cup ({"request"} \X (0 .. NumIds))
  ELSE {<<b.kind, b.id>>}

-----------------------------------------------------------------------------
(* Initial state: both REST objects constructed, the wire not yet started. *)

ComVars == [received_com_shutdown |-> FALSE, sent_com_shutdown |-> FALSE,
            received_sighup |-> FALSE, sent_sighup |-> FALSE,
            acknowledgeRequested |-> FALSE, received_acknowledge |-> FALSE,
            descendants_notified |-> FALSE]

Init ==
  /\ flagUpdated = [s \in Sides |-> FALSE] /\ flagAck = [s \in Sides |-> FALSE]
  /\ inBuf = [s \in Sides |-> BlankByte] /\ outBuf = [s \in Sides |-> BlankByte]
  /\ wireFirst = TRUE
  /\ pc = [s \in Sides |-> "wait"] /\ scan = [s \in Sides |-> 0]
  /\ firstRun = [s \in Sides |-> TRUE]
  /\ incoming = [s \in Sides |-> NoId] /\ waiting = [s \in Sides |-> NoId]
  /\ com = [s \in Sides |-> ComVars]
  /\ requesting = [s \in Sides |-> FALSE] /\ acknowledging = [s \in Sides |-> FALSE]
  /\ readLock = [s \in Sides |-> {}] /\ transfer = [s \in Sides |-> {}]
  /\ recv = [s \in Sides |-> [lock |-> FALSE, dest |-> NoId, pos |-> 0, count |-> 0]]
  /\ send = [s \in Sides |-> [lock |-> FALSE, origin |-> NoId, pos |-> 0, count |-> 0, val |-> 0]]
  /\ readStarted = [s \in Sides |-> {}]
  /\ syncMe = [s \in Sides |-> {}] /\ pending = [s \in Sides |-> {}]
  /\ readAck = [s \in Sides |-> {}] /\ readFault = [s \in Sides |-> {}]
  /\ writeAck = [s \in Sides |-> {}] /\ writeFault = [s \in Sides |-> {}]
  /\ obj = [s \in Sides |-> [j \in Ids |-> 0]]
  /\ turn = [s \in Sides |-> {j \in Ids : FirstOwner[j] = s}]
  /\ writes = 0
  /\ tx = [s \in Sides |-> [j \in Ids |-> 0]] /\ rx = [s \in Sides |-> [j \in Ids |-> 0]]
  /\ life = [s \in Sides |-> "alive"]
  /\ aborted = "none"

-----------------------------------------------------------------------------
(* Helpers.                                                                *)

\* logic_error and runtime_error print and call abort(): the program ends there.
Abort(code) ==
  /\ aborted' = code
  /\ UNCHANGED <<lineVars, loopVars, signalVars, blockVars, switchVars, appVars>>

Lowest(S) == CHOOSE j \in S : \A k \in S : j <= k

\* handshake_query() of the FPGA; the MCU's is always true.
HandshakeQuery(s) == s = "fpga" => ~com[s].sent_sighup

\* The event loop of s is in phase p and its thread runs.
At(s, p) == aborted = "none" /\ life[s] # "gone" /\ pc[s] = p

TransfersPending(s) == syncMe[s] \ transfer[s] # {}
WritesPending(s) == transfer[s] # {}
ReadsPending(s) == readLock[s] # {}

\* incoming_shutdown_query()
ShutdownQuery(s) ==
  /\ s = "mcu" => com[s].received_com_shutdown
  /\ ~TransfersPending(s)
  /\ ~com[s].acknowledgeRequested /\ ~com[s].received_acknowledge
  /\ com[s].descendants_notified

\* Faulty variants: the MCU's hang-up follows the wrong signal; the FPGA's ignores open reads
\* and writes and the MCU's shutdown.
SighupQueryEarly(s) ==
  /\ IF s = "fpga" THEN com[s].sent_com_shutdown /\ com[s].received_com_shutdown
                   ELSE com[s].received_com_shutdown
  /\ ~ReadsPending(s) /\ ~WritesPending(s)

SighupQueryBlind(s) ==
  IF s = "fpga" THEN com[s].sent_com_shutdown ELSE com[s].received_sighup

\* outgoing_sighup_query()
SighupQuery(s) ==
  /\ IF s = "fpga" THEN com[s].sent_com_shutdown /\ com[s].received_com_shutdown
                   ELSE com[s].received_sighup
  /\ ~ReadsPending(s) /\ ~WritesPending(s)

\* The end of a cycle: the byte is written and handshake_ack() clears the Acknowledge flag.
EndCycle(s, b) ==
  /\ outBuf' = [outBuf EXCEPT ![s] = b]
  /\ flagAck' = [flagAck EXCEPT ![s] = TRUE]
  /\ pc' = [pc EXCEPT ![s] = "wait"]
  /\ UNCHANGED <<flagUpdated, inBuf, wireFirst>>

\* emit_interrupted(): every read that has started is reported as failed.
EmitInterrupted(s) ==
  /\ readFault' = [readFault EXCEPT ![s] = @ \cup readStarted[s]]
  /\ readAck' = [readAck EXCEPT ![s] = @ \cup readStarted[s]]
  /\ readStarted' = [readStarted EXCEPT ![s] = {}]
  /\ UNCHANGED <<syncMe, pending, writeAck, writeFault>>

-----------------------------------------------------------------------------
(* IN: one cycle starts when the side finds its Updated flag signalled.    *)

\* Faulty variant: a side runs a cycle whether or not it was signalled.
HandshakeUnchecked(s) == At(s, "wait") /\ HandshakeQuery(s)

Handshake(s) == At(s, "wait") /\ HandshakeQuery(s) /\ flagUpdated[s]

\* The first cycle reads no byte and sends the power-on code.
FirstCycle(s) ==
  /\ Handshake(s) /\ firstRun[s]
  /\ firstRun' = [firstRun EXCEPT ![s] = FALSE]
  /\ requesting' = [requesting EXCEPT ![s] = TRUE]
  /\ waiting' = [waiting EXCEPT ![s] = NoId]
  /\ pc' = pc
  /\ flagUpdated' = [flagUpdated EXCEPT ![s] = FALSE]
  /\ flagAck' = [flagAck EXCEPT ![s] = TRUE]
  /\ outBuf' = [outBuf EXCEPT ![s] = Control(s, "poweron", NoId)]
  /\ UNCHANGED <<inBuf, wireFirst, scan, incoming, com, acknowledging>>
  /\ UNCHANGED <<blockVars, switchVars, appVars, aborted>>

\* read_byte(), read_bits(), receive_signals(): an acknowledge ends this side's request.
ReadByte(s) ==
  /\ flagUpdated' = [flagUpdated EXCEPT ![s] = FALSE]
  /\ acknowledging' = [acknowledging EXCEPT ![s] = FALSE]
  /\ requesting' = [requesting EXCEPT ![s] = @ /\ ~inBuf[s].acknowledge]
  /\ pc' = [pc EXCEPT ![s] = "transfer"]
  /\ UNCHANGED <<flagAck, inBuf, outBuf, wireFirst, scan, firstRun, waiting>>

\* Faulty variant: bit 6 is not handed on by receive_signals().
ReceivedUnacknowledged(s) == [com[s] EXCEPT !.received_acknowledge = FALSE]

\* com_vars once receive_signals() has returned.
Received(s) == [com[s] EXCEPT !.received_acknowledge = inBuf[s].acknowledge]

SetCom(s, c) == com' = [com EXCEPT ![s] = c]
SetIncoming(s, id) == incoming' = [incoming EXCEPT ![s] = id]

\* The byte of s is taken for a state code or, with "request", for the id of an object.
Reads(s, kind, id) ==
  /\ Handshake(s) /\ ~firstRun[s]
  /\ inBuf[s].request /\ <<kind, id>> \in Meanings(inBuf[s])

\* read_hook, poweron: all of com_vars is reset, then clear_read_receive().
PoweronError(s) ==
  IF com[s].acknowledgeRequested \/ inBuf[s].acknowledge THEN "PreviousTransferRequestsWereNotCleared"
  ELSE IF recv[s].lock \/ recv[s].count # 0 THEN "HotplugAfterUnexpectedShutdown"
  ELSE "none"

ReadPoweron(s) ==
  /\ Reads(s, "poweron", NoId)
  /\ IF PoweronError(s) # "none" THEN Abort(PoweronError(s))
     ELSE /\ ReadByte(s) /\ SetCom(s, ComVars) /\ SetIncoming(s, NoId)
          /\ UNCHANGED <<blockVars, switchVars, appVars, aborted>>

ReadIdle(s) ==
  /\ Reads(s, "idle", NoId)
  /\ ReadByte(s) /\ SetCom(s, Received(s)) /\ SetIncoming(s, NoId)
  /\ UNCHANGED <<blockVars, switchVars, appVars, aborted>>

\* Faulty variant: com_shutdown_action() of the MCU forgets the notifier.
NobodyNotified(s) == {}

\* The sides whose com_shutdown_action() calls stop_notifier().
Notifies(s) == {s} \cap {"mcu"}

\* read_hook, shutdown: the MCU's com_shutdown_action() stops the notifier, the FPGA's is empty.
ShutdownError(s) ==
  IF com[s].received_sighup THEN "NotIdleAfterSighup"
  ELSE IF com[s].received_com_shutdown THEN "DuplicateComShutdown"
  ELSE "none"

ReadShutdown(s) ==
  /\ Reads(s, "shutdown", NoId)
  /\ IF ShutdownError(s) # "none" THEN Abort(ShutdownError(s))
     ELSE /\ ReadByte(s) /\ SetIncoming(s, NoId)
          /\ SetCom(s, [Received(s) EXCEPT !.received_com_shutdown = TRUE,
                                           !.descendants_notified = @ \/ Notifies(s) # {}])
          /\ IF Notifies(s) # {} THEN EmitInterrupted(s) ELSE UNCHANGED switchVars
          /\ UNCHANGED <<blockVars, appVars, aborted>>

ReadSighup(s) ==
  /\ Reads(s, "sighup", NoId)
  /\ IF com[s].received_sighup THEN Abort("DuplicateSighup")
     ELSE /\ ReadByte(s) /\ SetIncoming(s, NoId)
          /\ SetCom(s, [Received(s) EXCEPT !.received_sighup = TRUE])
          /\ UNCHANGED <<blockVars, switchVars, appVars, aborted>>

ReadRequest(s, id) ==
  /\ Reads(s, "request", id)
  /\ IF com[s].received_sighup THEN Abort("NotIdleAfterSighup")
     ELSE /\ ReadByte(s) /\ SetCom(s, Received(s)) /\ SetIncoming(s, id)
          /\ UNCHANGED <<blockVars, switchVars, appVars, aborted>>

\* read_object(): the receiver takes the lowest read-locked object as the destination,
\* counts four sextets, and stores three bytes; the last triple releases the read lock.
Taken(s, j) == [recv[s] EXCEPT !.lock = TRUE, !.dest = j]

\* Faulty variant: the search for a read-locked object does not stop at the first.
DestinationLast(s) ==
  IF recv[s].lock THEN recv[s]
  ELSE Taken(s, CHOOSE j \in readLock[s] : \A k \in readLock[s] : j >= k)

Destination(s) ==
  IF recv[s].lock THEN recv[s] ELSE Taken(s, Lowest(readLock[s]))

ReadObjectError(s) ==
  IF recv[s].lock THEN "none"
  ELSE IF readLock[s] = {} THEN "NoIdleReceivedAndNoReceivelockObtained"
  ELSE IF recv[s].pos # 0 THEN "PreviousReadobjectHasNotFinished"
  ELSE "none"

\* emit_received()
EmitReceived(s, j) ==
  /\ readStarted' = [readStarted EXCEPT ![s] = @ \ {j}]
  /\ readAck' = [readAck EXCEPT ![s] = @ \cup {j}]
  /\ UNCHANGED <<syncMe, pending, readFault, writeAck, writeFault>>

\* Faulty variant: the read lock is released after every flush, not at the object's end.
ReadEndsAlways(r) == r.count = 3

ReadEnds(r) == r.pos + 1 = Triples   \* readDestinationPos == obj_size after the store

StoreTriple(s, r) ==
  /\ obj' = IF r.pos = 0 THEN [obj EXCEPT ![s][r.dest] = inBuf[s].val] ELSE obj
  /\ IF ReadEnds(r)
     THEN /\ recv' = [recv EXCEPT ![s] = [r EXCEPT !.lock = FALSE, !.pos = 0, !.count = 0]]
          /\ readLock' = [readLock EXCEPT ![s] = @ \ {r.dest}]
          /\ rx' = [rx EXCEPT ![s][r.dest] = @ + 1]
          /\ EmitReceived(s, r.dest)
     ELSE /\ recv' = [recv EXCEPT ![s] = [r EXCEPT !.pos = @ + 1, !.count = 0]]
          /\ UNCHANGED <<readLock, rx, switchVars>>

ReadObject(s) ==
  LET r == Destination(s) IN
  /\ Handshake(s) /\ ~firstRun[s] /\ ~inBuf[s].request
  /\ IF ReadObjectError(s) # "none" THEN Abort(ReadObjectError(s))
     ELSE /\ ReadByte(s) /\ SetCom(s, Received(s)) /\ SetIncoming(s, NoId)
          /\ IF r.count < 3
             THEN /\ recv' = [recv EXCEPT ![s] = [r EXCEPT !.count = @ + 1]]
                  /\ UNCHANGED <<readLock, rx, switchVars, obj>>
             ELSE StoreTriple(s, r)
          /\ UNCHANGED <<transfer, send, tx, turn, writes, life, aborted>>

\* transfer_hook(): the peer's request is granted with an acknowledge and a read lock.
\* emit_readlocked() withdraws this side's own request for the object and fails its write.
TransferError(s, j) ==
  IF j \in readLock[s] THEN "DuplicateReadlockRequest"
  ELSE IF j \in transfer[s] THEN "SyncedObjectsAreNotSupposedToHaveaTransfer"
  ELSE "none"

EmitReadlocked(s, j) ==
  LET canceled == syncMe[s] \cap {j} IN
  /\ syncMe' = [syncMe EXCEPT ![s] = @ \ {j}]
  /\ writeFault' = [writeFault EXCEPT ![s] = @ \cup canceled]
  /\ writeAck' = [writeAck EXCEPT ![s] = @ \cup canceled]
  /\ readStarted' = [readStarted EXCEPT ![s] = @ \cup {j}]
  /\ UNCHANGED <<pending, readAck, readFault>>

TransferHook(s) ==
  LET j == incoming[s] IN
  /\ At(s, "transfer")
  /\ IF j \in Ids /\ j # waiting[s]
     THEN IF TransferError(s, j) # "none" THEN Abort(TransferError(s, j))
          ELSE /\ EmitReadlocked(s, j)
               /\ readLock' = [readLock EXCEPT ![s] = @ \cup {j}]
               /\ acknowledging' = [acknowledging EXCEPT ![s] = TRUE]
               /\ pc' = [pc EXCEPT ![s] = "acknowledge"]
               /\ UNCHANGED <<lineVars, scan, firstRun, incoming, waiting, com, requesting>>
               /\ UNCHANGED <<transfer, recv, send, tx, rx, appVars, aborted>>
     ELSE /\ pc' = [pc EXCEPT ![s] = "acknowledge"]
          /\ UNCHANGED <<lineVars, scan, firstRun, incoming, waiting, signalVars>>
          /\ UNCHANGED <<blockVars, switchVars, appVars, aborted>>

\* The acknowledge of the previous cycle's request, and acknowledge_hook(): the object
\* is in transfer and emit_transfer() withdraws sync_me.
AcknowledgeError(s) ==
  IF ~com[s].received_acknowledge
  THEN IF com[s].acknowledgeRequested THEN "PreviousTransferHasNotBeenAcknowledged" ELSE "none"
  ELSE IF ~com[s].acknowledgeRequested THEN "AcknowledgeReceivedWithoutAnyRequest"
  ELSE IF waiting[s] \in readLock[s] THEN "ReceivedATransferAcknowledgeOnReadlockedObject"
  ELSE IF waiting[s] \in transfer[s] THEN "ReceivedADuplicateTransferAcknowledgeOnObjectInTransfer"
  ELSE "none"

AcknowledgeHook(s) ==
  LET granted == IF com[s].received_acknowledge THEN {waiting[s]} \cap Ids ELSE {} IN
  /\ At(s, "acknowledge")
  /\ IF AcknowledgeError(s) # "none" THEN Abort(AcknowledgeError(s))
     ELSE /\ transfer' = [transfer EXCEPT ![s] = @ \cup granted]
          /\ syncMe' = [syncMe EXCEPT ![s] = @ \ granted]
          /\ com' = [com EXCEPT ![s].acknowledgeRequested = FALSE]
          /\ waiting' = [waiting EXCEPT ![s] = NoId]
          /\ scan' = [scan EXCEPT ![s] = 0]
          /\ pc' = [pc EXCEPT ![s] =
                      IF send[s].lock \/ com[s].sent_com_shutdown THEN "out" ELSE "scan"]
          /\ UNCHANGED <<lineVars, firstRun, incoming, requesting, acknowledging>>
          /\ UNCHANGED <<readLock, recv, send, tx, rx, readStarted, pending>>
          /\ UNCHANGED <<readAck, readFault, writeAck, writeFault, appVars, aborted>>

-----------------------------------------------------------------------------
(* OUT: write_hook() and write_object() choose the byte that ends the      *)
(* cycle. Every control byte raises this side's request bit, which stays   *)
(* up until an acknowledge arrives.                                        *)

Requested(s, j) == j \in syncMe[s] \ transfer[s]

\* getFirstTransfer(), one object per step, since the resolver may signal sync_me meanwhile.
Scan(s) ==
  LET j == scan[s] IN
  /\ At(s, "scan")
  /\ IF j = NumIds
     THEN /\ pc' = [pc EXCEPT ![s] = "out"] /\ scan' = [scan EXCEPT ![s] = 0]
          /\ UNCHANGED <<lineVars, firstRun, incoming, waiting, signalVars>>
          /\ UNCHANGED <<blockVars, switchVars, appVars, aborted>>
     ELSE IF ~Requested(s, j)
     THEN /\ scan' = [scan EXCEPT ![s] = j + 1]
          /\ UNCHANGED <<lineVars, pc, firstRun, incoming, waiting, signalVars>>
          /\ UNCHANGED <<blockVars, switchVars, appVars, aborted>>
     ELSE IF j \in readLock[s]
     THEN Abort("SyncedStatusHasNotBeenOverridenWhenReadlockWasAcquired")
     ELSE /\ waiting' = [waiting EXCEPT ![s] = j]
          /\ com' = [com EXCEPT ![s].acknowledgeRequested = TRUE]
          /\ requesting' = [requesting EXCEPT ![s] = TRUE]
          /\ EndCycle(s, Control(s, "request", j))
          /\ scan' = [scan EXCEPT ![s] = 0]
          /\ UNCHANGED <<firstRun, incoming, acknowledging>>
          /\ UNCHANGED <<blockVars, switchVars, appVars, aborted>>

Idle(s) == At(s, "out") /\ ~send[s].lock   \* the writer is between two objects

MaySendShutdown(s) == ShutdownQuery(s) /\ ~com[s].sent_com_shutdown

SendShutdown(s) ==
  /\ Idle(s) /\ MaySendShutdown(s)
  /\ com' = [com EXCEPT ![s].sent_com_shutdown = TRUE]
  /\ requesting' = [requesting EXCEPT ![s] = TRUE]
  /\ EndCycle(s, Control(s, "shutdown", NoId))
  /\ UNCHANGED <<scan, firstRun, incoming, waiting, acknowledging>>
  /\ UNCHANGED <<blockVars, switchVars, appVars, aborted>>

\* getFirstSyncObject() takes the lowest object in transfer; write_object() sends its first byte.
StartObjectError(s, j) ==
  IF j \in readLock[s] THEN "FoundATransferObjectWhichIsReadlocked"
  ELSE IF send[s].pos # 0 THEN "PreviousObjectWriteHasNotBeenCompleted"
  ELSE "none"

\* Faulty variant: the version assembled last is sent again.
CarriedStale(s, w) == w.val

Carried(s, w) == IF w.pos # 0 THEN 0 ELSE IF w.count = 0 THEN obj[s][w.origin] ELSE w.val

\* write_object() reads the first byte of the object when it sends the first sextet.
SendSextet(s, w) ==
  LET val == Carried(s, w) IN
  /\ send' = [send EXCEPT ![s] = [w EXCEPT !.count = @ + 1, !.val = val]]
  /\ EndCycle(s, Sextet(s, w.origin, w.pos, w.count, val))
  /\ UNCHANGED <<scan, firstRun, incoming, waiting, signalVars>>
  /\ UNCHANGED <<readLock, transfer, recv, tx, rx, switchVars, appVars, aborted>>

StartObject(s) ==
  LET j == Lowest(transfer[s]) IN
  /\ Idle(s) /\ ~MaySendShutdown(s) /\ WritesPending(s)
  /\ IF StartObjectError(s, j) # "none" THEN Abort(StartObjectError(s, j))
     ELSE SendSextet(s, [send[s] EXCEPT !.lock = TRUE, !.origin = j])

WriteObject(s) ==
  /\ At(s, "out") /\ send[s].lock /\ send[s].count < 3
  /\ SendSextet(s, send[s])

\* Faulty variants: the object's length is compared before the last byte is counted; the
\* object ends with its first triple.
WriteEndsLate(w) == w.pos = Triples
WriteEndsFirst(w) == w.count = 3

WriteEnds(w) == w.pos + 1 = Triples   \* writeOriginPos == obj_size

\* Faulty variant: emit_sent() does not signal the resolver.
EmitSentSilently(s, ids) == writeAck' = writeAck

EmitSent(s, ids) == writeAck' = [writeAck EXCEPT ![s] = @ \cup ids]

\* The fourth sextet carries the rest of the triple; the last one ends the transfer and
\* emit_sent() acknowledges the write to the resolver.
WriteFourth(s) ==
  LET w == send[s]
      j == w.origin
      last == WriteEnds(w) IN
  /\ At(s, "out") /\ w.lock /\ w.count = 3
  /\ send' = [send EXCEPT ![s] = IF last THEN [w EXCEPT !.lock = FALSE, !.pos = 0, !.count = 0, !.val = 0]
                                         ELSE [w EXCEPT !.pos = @ + 1, !.count = 0, !.val = 0]]
  /\ transfer' = [transfer EXCEPT ![s] = IF last THEN @ \ {j} ELSE @]
  /\ tx' = IF last THEN [tx EXCEPT ![s][j] = @ + 1] ELSE tx
  /\ EmitSent(s, IF last THEN {j} ELSE {})
  /\ EndCycle(s, Sextet(s, j, w.pos, 3, w.val))
  /\ UNCHANGED <<scan, firstRun, incoming, waiting, signalVars>>
  /\ UNCHANGED <<readLock, recv, rx, readStarted, syncMe, pending, readAck, readFault>>
  /\ UNCHANGED <<writeFault, appVars, aborted>>

MaySendSighup(s) == SighupQuery(s) /\ ~com[s].sent_sighup

SendSighup(s) ==
  /\ Idle(s) /\ ~MaySendShutdown(s) /\ ~WritesPending(s) /\ MaySendSighup(s)
  /\ com' = [com EXCEPT ![s].sent_sighup = TRUE]
  /\ requesting' = [requesting EXCEPT ![s] = TRUE]
  /\ EndCycle(s, Control(s, "sighup", NoId))
  /\ UNCHANGED <<scan, firstRun, incoming, waiting, acknowledging>>
  /\ UNCHANGED <<blockVars, switchVars, appVars, aborted>>

SendIdle(s) ==
  /\ Idle(s) /\ ~MaySendShutdown(s) /\ ~WritesPending(s) /\ ~MaySendSighup(s)
  /\ requesting' = [requesting EXCEPT ![s] = TRUE]
  /\ EndCycle(s, Control(s, "idle", NoId))
  /\ UNCHANGED <<scan, firstRun, incoming, waiting, com, acknowledging>>
  /\ UNCHANGED <<blockVars, switchVars, appVars, aborted>>

-----------------------------------------------------------------------------
(* The wire: one thread copies a byte when a side has acknowledged.        *)

\* client_funct, first run: the FPGA gets the first turn.
WireStart ==
  /\ aborted = "none" /\ wireFirst
  /\ wireFirst' = FALSE
  /\ flagUpdated' = [flagUpdated EXCEPT !["fpga"] = TRUE]
  /\ UNCHANGED <<flagAck, inBuf, outBuf>>
  /\ UNCHANGED <<loopVars, signalVars, blockVars, switchVars, appVars, aborted>>

\* host_funct for s = "mcu", client_funct for s = "fpga".
Wire(s) ==
  /\ aborted = "none" /\ ~wireFirst /\ flagAck[s]
  /\ flagAck' = [flagAck EXCEPT ![s] = FALSE]
  /\ inBuf' = [inBuf EXCEPT ![Peer(s)] = outBuf[s]]
  /\ flagUpdated' = [flagUpdated EXCEPT ![Peer(s)] = TRUE]
  /\ UNCHANGED <<outBuf, wireFirst>>
  /\ UNCHANGED <<loopVars, signalVars, blockVars, switchVars, appVars, aborted>>

-----------------------------------------------------------------------------
(* The resolver and the application above it.                              *)

MayWrite(s, j) == FreeWrites \/ j \in turn[s]

\* An application writes object j: the resolver copies it, marks the request pending and
\* signals sync_me. An application that takes turns writes only what it received last.
WriteStart(s, j) ==
  /\ aborted = "none" /\ life[s] = "alive" /\ writes < MaxWrites
  /\ MayWrite(s, j)
  /\ IF j \in pending[s] THEN Abort("PendingWriteRequest")
     ELSE /\ obj' = [obj EXCEPT ![s][j] = writes + 1]
          /\ writes' = writes + 1
          /\ pending' = [pending EXCEPT ![s] = @ \cup {j}]
          /\ syncMe' = [syncMe EXCEPT ![s] = @ \cup {j}]
          /\ turn' = [turn EXCEPT ![s] = @ \ {j}]
          /\ UNCHANGED <<readStarted, readAck, readFault, writeAck, writeFault, life>>
          /\ UNCHANGED <<lineVars, loopVars, signalVars, blockVars, aborted>>

\* resolve(j): a finished read gives the application its turn, a finished write is no
\* longer pending; an interrupted read or a canceled write is a runtime_error.
ResolveError(s, j) ==
  IF j \in readAck[s] \cap readFault[s] THEN "ServiceInterruptedByComShutdown"
  ELSE IF j \in writeAck[s] \cap writeFault[s] THEN "ObjectWriteCanceledByIncomingRead"
  ELSE "none"

Resolve(s, j) ==
  /\ aborted = "none" /\ life[s] = "alive" /\ j \in readAck[s] \cup writeAck[s]
  /\ IF ResolveError(s, j) # "none" THEN Abort(ResolveError(s, j))
     ELSE /\ readAck' = [readAck EXCEPT ![s] = @ \ {j}]
          /\ writeAck' = [writeAck EXCEPT ![s] = @ \ {j}]
          /\ turn' = [turn EXCEPT ![s] = @ \cup (readAck[s] \cap {j})]
          /\ pending' = [pending EXCEPT ![s] = @ \ (writeAck[s] \cap {j})]
          /\ UNCHANGED <<readStarted, syncMe, readFault, writeFault, obj, writes, life>>
          /\ UNCHANGED <<lineVars, loopVars, signalVars, blockVars, aborted>>

-----------------------------------------------------------------------------
(* Destruction. The REST and resolver threads of a side are joined first.  *)

\* The FPGA has read the MCU's power-on byte: that cycle is under way, or a byte of it is out.
PoweredOn == ~firstRun["fpga"] /\ (pc["fpga"] # "wait" \/ outBuf["fpga"].kind # "poweron")

\* ~FPGA: stop_notifier() runs in the deleting thread.
DeleteFpga ==
  /\ aborted = "none" /\ life["fpga"] = "alive"
  /\ DeleteWhen # "never" /\ (DeleteWhen = "poweredOn" => PoweredOn)
  /\ life' = [life EXCEPT !["fpga"] = "deleting"]
  /\ EmitInterrupted("fpga")
  /\ com' = [com EXCEPT !["fpga"].descendants_notified = TRUE]
  /\ UNCHANGED <<lineVars, loopVars, requesting, acknowledging, blockVars, obj, turn, writes, aborted>>

\* The test deletes the MCU only after the FPGA.
DeleteMcu ==
  /\ aborted = "none" /\ life = [fpga |-> "gone", mcu |-> "alive"]
  /\ life' = [life EXCEPT !["mcu"] = "deleting"]
  /\ UNCHANGED <<lineVars, loopVars, signalVars, blockVars, switchVars, obj, turn, writes, aborted>>

\* The destructor sees exit_query(), stops and joins the loop; ~Serial checks for open reads.
Destroy(s) ==
  /\ At(s, "wait") /\ life[s] = "deleting" /\ com[s].sent_sighup
  /\ IF ReadsPending(s) THEN Abort("ReadsPendingAfterComthreadDestruction")
     ELSE /\ life' = [life EXCEPT ![s] = "gone"]
          /\ UNCHANGED <<lineVars, loopVars, signalVars, blockVars, switchVars, obj, turn, writes, aborted>>

\* The program has aborted, or both objects are destroyed.
Terminated ==
  /\ aborted # "none" \/ \A s \in Sides : life[s] = "gone"
  /\ UNCHANGED vars

-----------------------------------------------------------------------------
(* The specification.                                                      *)

EventLoop(s) ==
  \/ FirstCycle(s)
  \/ ReadPoweron(s) \/ ReadIdle(s) \/ ReadShutdown(s) \/ ReadSighup(s)
  \/ \E id \in 0 .. NumIds : ReadRequest(s, id)
  \/ ReadObject(s)
  \/ TransferHook(s) \/ AcknowledgeHook(s)
  \/ Scan(s) \/ SendShutdown(s) \/ StartObject(s) \/ WriteObject(s) \/ WriteFourth(s)
  \/ SendSighup(s) \/ SendIdle(s)

Application == \E s \in Sides, j \in Ids : WriteStart(s, j)
Resolver(s) == \E j \in Ids : Resolve(s, j)

Next ==
  \/ \E s \in Sides : EventLoop(s) \/ Wire(s) \/ Resolver(s) \/ Destroy(s)
  \/ WireStart \/ Application \/ DeleteFpga \/ DeleteMcu \/ Terminated

Spec == Init /\ [][Next]_vars

\* Every thread spins and yields: each is scheduled again and again. Nothing is assumed of
\* the applications' writes and of the two delete signals.
Fairness ==
  /\ WF_vars(WireStart)
  /\ \A s \in Sides :
       WF_vars(EventLoop(s)) /\ WF_vars(Wire(s)) /\ WF_vars(Resolver(s)) /\ WF_vars(Destroy(s))

FairSpec == Spec /\ Fairness

-----------------------------------------------------------------------------
(* Properties.                                                             *)

Phases == {"wait", "transfer", "acknowledge", "scan", "out"}

ComType == [received_com_shutdown : BOOLEAN, sent_com_shutdown : BOOLEAN,
            received_sighup : BOOLEAN, sent_sighup : BOOLEAN,
            acknowledgeRequested : BOOLEAN, received_acknowledge : BOOLEAN,
            descendants_notified : BOOLEAN]

RecvType == [lock : BOOLEAN, dest : 0 .. NumIds, pos : 0 .. Triples - 1, count : 0 .. 3]
SendType == [lock : BOOLEAN, origin : 0 .. NumIds, pos : 0 .. Triples - 1, count : 0 .. 3,
             val : 0 .. MaxWrites]

ErrorCodes == {"none",
  "PreviousTransferRequestsWereNotCleared", "HotplugAfterUnexpectedShutdown",
  "NotIdleAfterSighup", "DuplicateComShutdown", "DuplicateSighup",
  "NoIdleReceivedAndNoReceivelockObtained", "PreviousReadobjectHasNotFinished",
  "DuplicateReadlockRequest", "SyncedObjectsAreNotSupposedToHaveaTransfer",
  "PreviousTransferHasNotBeenAcknowledged", "AcknowledgeReceivedWithoutAnyRequest",
  "ReceivedATransferAcknowledgeOnReadlockedObject",
  "ReceivedADuplicateTransferAcknowledgeOnObjectInTransfer",
  "SyncedStatusHasNotBeenOverridenWhenReadlockWasAcquired",
  "FoundATransferObjectWhichIsReadlocked", "PreviousObjectWriteHasNotBeenCompleted",
  "PendingWriteRequest", "ServiceInterruptedByComShutdown",
  "ObjectWriteCanceledByIncomingRead", "ReadsPendingAfterComthreadDestruction"}

\* The type invariant: buffers, loop state, lock sets and positions stay within the ranges
\* the arrays and counters of Serial.hpp and ByteWiseTransfer.hpp are declared for.
TypeOK ==
  /\ flagUpdated \in [Sides -> BOOLEAN] /\ flagAck \in [Sides -> BOOLEAN]
  /\ inBuf \in [Sides -> Bytes] /\ outBuf \in [Sides -> Bytes]
  /\ wireFirst \in BOOLEAN
  /\ pc \in [Sides -> Phases] /\ scan \in [Sides -> 0 .. NumIds]
  /\ firstRun \in [Sides -> BOOLEAN]
  /\ incoming \in [Sides -> 0 .. NumIds] /\ waiting \in [Sides -> 0 .. NumIds]
  /\ com \in [Sides -> ComType]
  /\ requesting \in [Sides -> BOOLEAN] /\ acknowledging \in [Sides -> BOOLEAN]
  /\ readLock \in [Sides -> SUBSET Ids] /\ transfer \in [Sides -> SUBSET Ids]
  /\ recv \in [Sides -> RecvType] /\ send \in [Sides -> SendType]
  /\ readStarted \in [Sides -> SUBSET Ids]
  /\ syncMe \in [Sides -> SUBSET Ids] /\ pending \in [Sides -> SUBSET Ids]
  /\ readAck \in [Sides -> SUBSET Ids] /\ readFault \in [Sides -> SUBSET Ids]
  /\ writeAck \in [Sides -> SUBSET Ids] /\ writeFault \in [Sides -> SUBSET Ids]
  /\ obj \in [Sides -> [Ids -> 0 .. MaxWrites]]
  /\ turn \in [Sides -> SUBSET Ids]
  /\ writes \in 0 .. MaxWrites
  /\ tx \in [Sides -> [Ids -> Nat]] /\ rx \in [Sides -> [Ids -> Nat]]
  /\ life \in [Sides -> {"alive", "deleting", "gone"}]
  /\ aborted \in ErrorCodes

\* Where the one byte of the link can be: in a running cycle, or signalled to the wire or
\* to a side.
Turns == {<<"cycle", s>> : s \in {x \in Sides : pc[x] # "wait"}}
         \cup {<<"updated", s>> : s \in {x \in Sides : flagUpdated[x]}}
         \cup {<<"ack", s>> : s \in {x \in Sides : flagAck[x]}}

\* The event loops and the wire take strict turns (the Updated and Acknowledge flags of
\* Serial.hpp 77-88 and the copying of the test's thread): there is never a second byte
\* under way and the one there is never gets lost.
OneByte ==
  IF wireFirst THEN Turns = {} ELSE \E t \in Turns : Turns = {t}

\* None of the errors the protocol, the resolver and the destructor check for occurs.
NoAbort == aborted = "none"

\* An object in transfer on one side is read-locked on the other, and neither side reads and
\* writes an object at once nor do both read it (read locks are granted in transfer_hook,
\* transfers start in acknowledge_hook, on different threads with only a byte between them).
TransfersAgree ==
  \A s \in Sides :
    /\ transfer[s] \subseteq readLock[Peer(s)]
    /\ readLock[s] \cap transfer[s] = {}
    /\ readLock[s] \cap readLock[Peer(s)] = {}

\* A data byte that reaches a side is a sextet of the very object, group and position its
\* block reader is at, although only a lock, never an id, is sent along with the data.
DeliveryOrder ==
  \A s \in Sides :
    LET b == inBuf[s] IN
    (aborted = "none" /\ flagUpdated[s] /\ ~firstRun[s] /\ b.kind = "data") =>
      /\ ~b.request
      /\ recv[s].lock \/ readLock[s] # {}
      /\ b.id = Destination(s).dest /\ b.pos = recv[s].pos /\ b.count = recv[s].count

\* The byte under way to s, if there is one.
UnderWay(s) ==
  IF flagUpdated[s] THEN {inBuf[s]} ELSE IF flagAck[Peer(s)] THEN {outBuf[Peer(s)]} ELSE {}

LastSextet(s, j) ==
  \E b \in UnderWay(s) : b.kind = "data" /\ b.id = j /\ b.pos = Triples - 1 /\ b.count = 3

\* Every object counted as sent is counted as received by the peer once its last sextet has
\* arrived: nothing is lost, duplicated or counted for another object.
Conservation ==
  aborted = "none" => \A s \in Sides, j \in Ids :
    tx[s][j] = rx[Peer(s)][j] + (IF LastSextet(Peer(s), j) THEN 1 ELSE 0)

\* Without turns among the applications, locks still agree and no data goes astray.
FreeSafe == TransfersAgree /\ DeliveryOrder

\* The FPGA's loop stops with its hang-up (handshake_query), so nothing may then be half
\* transferred in either direction, and both readers are between two objects; on the way
\* there no error the code checks for occurs.
SighupClean ==
  /\ NoAbort
  /\ com["fpga"].sent_sighup => \A s \in Sides :
       /\ readLock[s] = {} /\ transfer[s] = {}
       /\ ~recv[s].lock /\ recv[s].count = 0 /\ ~send[s].lock /\ send[s].count = 0

\* The shutdown handshake is a chain: each state code is sent only after the one before it
\* has been read on the other side.
ShutdownOrder ==
  LET f == com["fpga"]
      m == com["mcu"] IN
  /\ m.received_com_shutdown => f.sent_com_shutdown
  /\ m.sent_com_shutdown => m.received_com_shutdown
  /\ f.received_com_shutdown => m.sent_com_shutdown
  /\ f.sent_sighup => f.received_com_shutdown
  /\ m.received_sighup => f.sent_sighup
  /\ m.sent_sighup => m.received_sighup /\ ~f.received_sighup

\* The side whose write of j is requested, sent or being received.
Writers(j) == {s \in Sides : j \in syncMe[s] \cup transfer[s] \cup readLock[Peer(s)]}

\* The side that writes j, has received it, or has the turn to write it. (A read that is still
\* locked has been reported as interrupted.)
Owners(j) == Writers(j) \cup {s \in Sides : j \in (readAck[s] \ readLock[s]) \cup turn[s]}

MirrorOf ==
  INSTANCE ObjectMirror WITH
    copy <- obj,
    writer <- [j \in Ids |-> IF Writers(j) = {} THEN "none" ELSE CHOOSE s \in Writers(j) : TRUE],
    owner <- [j \in Ids |-> CHOOSE s \in Owners(j) : TRUE]

\* The link implements the mirror: byte by byte, lock by lock, applications that take turns
\* see nothing but writes, one copy following the other, and the turn passing on.
MirrorImplemented == MirrorOf!Spec

\* A write that was requested reaches the other side, and is reported back to the resolver,
\* so that it accepts the next one.
Mirrored ==
  \A s \in Sides, j \in Ids, v \in 1 .. MaxWrites :
    (j \in syncMe[s] /\ obj[s][j] = v) ~> (obj[Peer(s)][j] >= v /\ j \notin pending[s])

\* Destroying the FPGA comes to an end (delete client in test_mcufpga.cpp), and so does the
\* MCU's side of the hang-up its destructor waits for.
DestructionEnds ==
  /\ (life["fpga"] = "deleting") ~> (life["fpga"] = "gone")
  /\ (life["fpga"] = "gone") ~> com["mcu"].sent_sighup

=============================================================================

------------------------------ MODULE Resolver ------------------------------
(***************************************************************************)
(* The threads above one side's serial event loop: the resolver            *)
(* (SequentialResolverDSP), the REST interface that rewrites object 0 each *)
(* time a read of it has ended (REST, FPGARest, MCURest), and the thread   *)
(* that constructs and deletes the side. They share the flags of each      *)
(* object (ResolverSwitch), the trigger of the SwitchBoard and the command *)
(* flags and cells of BusSerialSequential (SerialNotifier.hpp).            *)
(*                                                                         *)
(* The event loop is reduced to what it reports, in the order it does:     *)
(* read, acknowledge, write, trigger. The peer is reduced to taking turns: *)
(* it reads what this side sent before it writes it again. SerialLink is   *)
(* the model of both. A set holds the ids whose flag is signalled.         *)
(***************************************************************************)
EXTENDS Integers

CONSTANTS
  NumIds,    \* number of mirrored objects: NUM_IDS
  PeerIds    \* the ids the peer writes

Ids == 0 .. NumIds - 1
NoId == NumIds
Written == 0                 \* the object of write<0>, and the index of read_event

ASSUME ResolverAssumption == NumIds \in Nat \ {0} /\ PeerIds \subseteq Ids

VARIABLES
  pc,                  \* where each thread is
  owner,               \* who may write each object next: "self" or "peer"
  reading, transfer,   \* ids being received, ids being sent
  syncMe, readAck, writeAck, writeFault,            \* ResolverSwitch
  trigger,                                          \* triggerResolve signalled
  rid, queued, pending,                             \* i, readend_command_queued, pending_write_request
  readEndId, readEndUpdated, readEndAck,            \* the read-end command
  writeStartId, writeStartUpdated, writeStartAck,   \* the write-start command
  ready,                                            \* read_status[..].ready
  stopped,                                          \* threads asked to stop
  aborted                                           \* the error the program ended with

linkVars == <<owner, reading, transfer>>
switchVars == <<syncMe, readAck, writeAck, writeFault, trigger>>
resolverVars == <<rid, queued, pending>>
endVars == <<readEndId, readEndUpdated, readEndAck>>
startVars == <<writeStartId, writeStartUpdated, writeStartAck>>
vars == <<pc, linkVars, switchVars, resolverVars, endVars, startVars, ready, stopped, aborted>>

Threads == {"loop", "resolver", "rest", "main"}

\* The FPGA owns object 0 first and its constructor ends with write<0>; on the MCU the
\* peer owns it.
Init ==
  /\ \E first \in {"self", "peer"} :
       /\ owner = [j \in Ids |-> IF j = Written THEN first ELSE "peer"]
       /\ pc = [t \in Threads |-> CASE t = "loop" -> "read"
                                    [] t = "main" -> IF first = "self" THEN "write" ELSE "built"
                                    [] OTHER -> "top"]
  /\ reading = {} /\ transfer = {}
  /\ syncMe = {} /\ readAck = {} /\ writeAck = {} /\ writeFault = {} /\ trigger = FALSE
  /\ rid = 0 /\ queued = FALSE /\ pending = {}
  /\ readEndId = NoId /\ readEndUpdated = FALSE /\ readEndAck = TRUE
  /\ writeStartId = NoId /\ writeStartUpdated = FALSE /\ writeStartAck = TRUE
  /\ ready = {} /\ stopped = {} /\ aborted = "none"

At(t, p) == aborted = "none" /\ pc[t] = p
Goto(t, p) == pc' = [pc EXCEPT ![t] = p]

Abort(code) ==
  /\ aborted' = code
  /\ UNCHANGED <<pc, linkVars, switchVars, resolverVars, endVars, startVars, ready, stopped>>

-----------------------------------------------------------------------------
(* The serial event loop.                                                  *)

\* emit_readlocked(): the peer starts an object; an own request for it fails.
Readlock(id) ==
  /\ At("loop", "read") /\ Goto("loop", "acknowledge")
  /\ id \in PeerIds \ reading /\ owner[id] = "peer"
  /\ reading' = reading \cup {id}
  /\ syncMe' = syncMe \ {id}
  /\ writeFault' = writeFault \cup (syncMe \cap {id})
  /\ writeAck' = writeAck \cup (syncMe \cap {id})
  /\ UNCHANGED <<owner, transfer, readAck, trigger>>
  /\ UNCHANGED <<resolverVars, endVars, startVars, ready, stopped, aborted>>

\* emit_received(): the object is complete, it is this side's turn.
Received(id) ==
  /\ At("loop", "read") /\ Goto("loop", "acknowledge")
  /\ id \in reading
  /\ reading' = reading \ {id}
  /\ owner' = [owner EXCEPT ![id] = "self"]
  /\ readAck' = readAck \cup {id}
  /\ UNCHANGED <<transfer, syncMe, writeAck, writeFault, trigger>>
  /\ UNCHANGED <<resolverVars, endVars, startVars, ready, stopped, aborted>>

\* emit_transfer(): the peer has granted a request, which is no longer one.
Granted(id) ==
  /\ At("loop", "acknowledge") /\ Goto("loop", "write")
  /\ id \in syncMe \ transfer
  /\ syncMe' = syncMe \ {id}
  /\ transfer' = transfer \cup {id}
  /\ UNCHANGED <<owner, reading, readAck, writeAck, writeFault, trigger>>
  /\ UNCHANGED <<resolverVars, endVars, startVars, ready, stopped, aborted>>

\* emit_sent(): the last byte is out, it is the peer's turn.
Sent(id) ==
  /\ At("loop", "write") /\ Goto("loop", "trigger")
  /\ id \in transfer
  /\ transfer' = transfer \ {id}
  /\ owner' = [owner EXCEPT ![id] = "peer"]
  /\ writeAck' = writeAck \cup {id}
  /\ UNCHANGED <<reading, syncMe, readAck, writeFault, trigger>>
  /\ UNCHANGED <<resolverVars, endVars, startVars, ready, stopped, aborted>>

\* A phase of the cycle that reports nothing: any other byte.
Quiet ==
  /\ \/ At("loop", "read") /\ Goto("loop", "acknowledge")
     \/ At("loop", "acknowledge") /\ Goto("loop", "write")
     \/ At("loop", "write") /\ Goto("loop", "trigger")
  /\ UNCHANGED <<linkVars, switchVars, resolverVars, endVars, startVars, ready, stopped, aborted>>

\* Faulty variant: handshake_ack() does not trigger the resolver.
NotTriggered == trigger

Triggered == TRUE

\* handshake_ack(): the end of every cycle.
TriggerResolve ==
  /\ At("loop", "trigger") /\ Goto("loop", "read")
  /\ trigger' = Triggered
  /\ UNCHANGED <<linkVars, syncMe, readAck, writeAck, writeFault>>
  /\ UNCHANGED <<resolverVars, endVars, startVars, ready, stopped, aborted>>

-----------------------------------------------------------------------------
(* The resolver: SequentialResolverDSP::event_loop.                        *)

PollTrigger ==
  /\ At("resolver", "top") /\ "resolver" \notin stopped
  /\ Goto("resolver", IF trigger THEN "resolve" ELSE "command")
  /\ trigger' = FALSE
  /\ rid' = 0
  /\ UNCHANGED <<linkVars, syncMe, readAck, writeAck, writeFault, queued, pending>>
  /\ UNCHANGED <<endVars, startVars, ready, stopped, aborted>>

\* First half of resolve(rid): a read that has ended is queued for the REST thread.
ResolveRead ==
  /\ At("resolver", "resolve") /\ Goto("resolver", "resolveWrite")
  /\ readAck' = readAck \ {rid}
  /\ queued' = (queued \/ rid \in readAck)
  /\ readEndId' = IF rid \in readAck THEN rid ELSE readEndId
  /\ UNCHANGED <<linkVars, syncMe, writeAck, writeFault, trigger, rid, pending>>
  /\ UNCHANGED <<readEndUpdated, readEndAck, startVars, ready, stopped, aborted>>

\* Faulty variants: one id too many; a written object stays pending.
IsLastOver(id) == id = NumIds
StillPending(id) == pending

IsLast(id) == id + 1 = NumIds
WriteEnded(id) == pending \ ({id} \cap writeAck)

\* Second half: a write that has ended is no longer pending, a failed one is an error.
ResolveWrite ==
  /\ At("resolver", "resolveWrite")
  /\ IF rid \in writeAck \cap writeFault THEN Abort("ObjectWriteCanceledByIncomingRead")
     ELSE /\ Goto("resolver", IF IsLast(rid) THEN "command" ELSE "resolve")
          /\ rid' = IF IsLast(rid) THEN rid ELSE rid + 1
          /\ writeAck' = writeAck \ {rid}
          /\ pending' = WriteEnded(rid)
          /\ UNCHANGED <<linkVars, syncMe, readAck, writeFault, trigger, queued>>
          /\ UNCHANGED <<endVars, startVars, ready, stopped, aborted>>

\* A queued read end waits for the acknowledge of the one before.
TakeReadEnd ==
  /\ At("resolver", "command")
  /\ \/ queued /\ readEndAck /\ readEndAck' = FALSE /\ Goto("resolver", "tell")
     \/ ~queued /\ Goto("resolver", "start") /\ UNCHANGED readEndAck
  /\ UNCHANGED <<linkVars, switchVars, resolverVars, readEndId, readEndUpdated>>
  /\ UNCHANGED <<startVars, ready, stopped, aborted>>

TellReadEnd ==
  /\ At("resolver", "tell") /\ Goto("resolver", "start")
  /\ readEndUpdated' = TRUE
  /\ queued' = FALSE
  /\ UNCHANGED <<linkVars, switchVars, rid, pending, readEndId, readEndAck>>
  /\ UNCHANGED <<startVars, ready, stopped, aborted>>

\* Faulty variant: the signal is looked at and stays.
WriteStartLeft == writeStartUpdated

WriteStartTaken == FALSE

PollWriteStart ==
  /\ At("resolver", "start")
  /\ Goto("resolver", IF writeStartUpdated THEN "accept" ELSE "top")
  /\ writeStartUpdated' = WriteStartTaken
  /\ UNCHANGED <<linkVars, switchVars, resolverVars, endVars, writeStartId, writeStartAck>>
  /\ UNCHANGED <<ready, stopped, aborted>>

\* The object is copied, its write is pending and sync_me signalled.
AcceptWrite ==
  /\ At("resolver", "accept")
  /\ IF writeStartId \notin Ids THEN Abort("IllegalWriteStartId")
     ELSE IF writeStartId \in pending THEN Abort("PendingWriteRequest")
     ELSE /\ Goto("resolver", "acknowledge")
          /\ pending' = pending \cup {writeStartId}
          /\ syncMe' = syncMe \cup {writeStartId}
          /\ UNCHANGED <<linkVars, readAck, writeAck, writeFault, trigger, rid, queued>>
          /\ UNCHANGED <<endVars, startVars, ready, stopped, aborted>>

AcknowledgeWrite ==
  /\ At("resolver", "acknowledge") /\ Goto("resolver", "top")
  /\ writeStartAck' = TRUE
  /\ UNCHANGED <<linkVars, switchVars, resolverVars, endVars, writeStartId, writeStartUpdated>>
  /\ UNCHANGED <<ready, stopped, aborted>>

-----------------------------------------------------------------------------
(* The REST thread, and write<0> in it and in the constructor.             *)

PollReadEnd ==
  /\ At("rest", "top") /\ "rest" \notin stopped
  /\ Goto("rest", IF readEndUpdated THEN "load" ELSE "event")
  /\ readEndUpdated' = FALSE
  /\ UNCHANGED <<linkVars, switchVars, resolverVars, readEndId, readEndAck, startVars, ready>>
  /\ UNCHANGED <<stopped, aborted>>

LoadReadEnd ==
  /\ At("rest", "load")
  /\ IF readEndId \notin Ids THEN Abort("IllegalReadEndId")
     ELSE /\ Goto("rest", "acknowledge")
          /\ ready' = ready \cup {readEndId}
          /\ UNCHANGED <<linkVars, switchVars, resolverVars, endVars, startVars, stopped, aborted>>

\* Faulty variant: REST takes the command and does not acknowledge it.
NotAcknowledged == readEndAck

Acknowledged == TRUE

AcknowledgeReadEnd ==
  /\ At("rest", "acknowledge") /\ Goto("rest", "event")
  /\ readEndAck' = Acknowledged
  /\ UNCHANGED <<linkVars, switchVars, resolverVars, readEndId, readEndUpdated, startVars>>
  /\ UNCHANGED <<ready, stopped, aborted>>

\* Faulty variant: the event is looked at and stays.
EventKept == ready

EventTaken == ready \ {Written}

\* read_event() and read_success(), which look at object 0 whatever id they are given.
ReadEvent ==
  /\ At("rest", "event")
  /\ Goto("rest", IF Written \in ready THEN "write" ELSE "top")
  /\ ready' = EventTaken
  /\ UNCHANGED <<linkVars, switchVars, resolverVars, endVars, startVars, stopped, aborted>>

\* write<0>(): the two threads that call it exclude each other by the acknowledge flag.
TakeWriteStart(t) ==
  /\ At(t, "write") /\ Goto(t, "post")
  /\ writeStartAck
  /\ writeStartAck' = FALSE
  /\ UNCHANGED <<linkVars, switchVars, resolverVars, endVars, writeStartId, writeStartUpdated>>
  /\ UNCHANGED <<ready, stopped, aborted>>

PostWriteStart(t) ==
  /\ At(t, "post") /\ Goto(t, IF t = "main" THEN "built" ELSE "top")
  /\ writeStartId' = Written
  /\ writeStartUpdated' = TRUE
  /\ UNCHANGED <<linkVars, switchVars, resolverVars, endVars, writeStartAck, ready, stopped, aborted>>

-----------------------------------------------------------------------------
(* Destruction: ~FPGARest stops and joins the REST thread, then its child's *)
(* destructor the resolver. The event loop runs on until ~FPGA.            *)

Joins == <<"rest", "resolver">>

Leave(t) ==
  /\ At(t, "top") /\ t \in stopped /\ Goto(t, "gone")
  /\ UNCHANGED <<linkVars, switchVars, resolverVars, endVars, startVars, ready, stopped, aborted>>

Stop(t) ==
  /\ stopped' = stopped \cup {t}
  /\ UNCHANGED <<linkVars, switchVars, resolverVars, endVars, startVars, ready, aborted>>

Delete == At("main", "built") /\ Goto("main", "joinFirst") /\ Stop(Joins[1])

JoinFirst ==
  At("main", "joinFirst") /\ pc[Joins[1]] = "gone" /\ Goto("main", "joinSecond") /\ Stop(Joins[2])

JoinSecond ==
  /\ At("main", "joinSecond") /\ pc[Joins[2]] = "gone" /\ Goto("main", "deleted")
  /\ UNCHANGED <<linkVars, switchVars, resolverVars, endVars, startVars, ready, stopped, aborted>>

-----------------------------------------------------------------------------
(* The specification.                                                      *)

EventLoop ==
  \/ \E id \in Ids : Readlock(id) \/ Received(id) \/ Granted(id) \/ Sent(id)
  \/ Quiet \/ TriggerResolve

ResolverThread ==
  \/ PollTrigger \/ ResolveRead \/ ResolveWrite \/ TakeReadEnd \/ TellReadEnd
  \/ PollWriteStart \/ AcceptWrite \/ AcknowledgeWrite \/ Leave("resolver")

RestThread ==
  \/ PollReadEnd \/ LoadReadEnd \/ AcknowledgeReadEnd \/ ReadEvent
  \/ TakeWriteStart("rest") \/ PostWriteStart("rest") \/ Leave("rest")

Main == TakeWriteStart("main") \/ PostWriteStart("main") \/ JoinFirst \/ JoinSecond

Next == EventLoop \/ ResolverThread \/ RestThread \/ Main \/ Delete

Spec == Init /\ [][Next]_vars

\* Every thread is scheduled again and again; a spinning thread yields. Nothing is assumed
\* of the peer, which may stay quiet, or of the delete signal.
FairSpec ==
  /\ Spec
  /\ WF_vars(EventLoop) /\ WF_vars(ResolverThread) /\ WF_vars(RestThread) /\ WF_vars(Main)

-----------------------------------------------------------------------------
(* Properties.                                                             *)

Places ==
  [loop : {"read", "acknowledge", "write", "trigger"},
   resolver : {"top", "resolve", "resolveWrite", "command", "tell", "start", "accept",
               "acknowledge", "gone"},
   rest : {"top", "load", "acknowledge", "event", "write", "post", "gone"},
   main : {"write", "post", "built", "joinFirst", "joinSecond", "deleted"}]

\* The type invariant: ids stay within NUM_IDS, the loop over the ids included.
TypeOK ==
  /\ pc \in Places
  /\ owner \in [Ids -> {"self", "peer"}]
  /\ reading \in SUBSET Ids /\ transfer \in SUBSET Ids
  /\ syncMe \in SUBSET Ids /\ readAck \in SUBSET Ids
  /\ writeAck \in SUBSET Ids /\ writeFault \in SUBSET Ids
  /\ trigger \in BOOLEAN
  /\ rid \in Ids /\ queued \in BOOLEAN /\ pending \in SUBSET Ids
  /\ readEndId \in 0 .. NumIds /\ readEndUpdated \in BOOLEAN /\ readEndAck \in BOOLEAN
  /\ writeStartId \in 0 .. NumIds /\ writeStartUpdated \in BOOLEAN /\ writeStartAck \in BOOLEAN
  /\ ready \in SUBSET Ids
  /\ stopped \in SUBSET {"rest", "resolver"}
  /\ aborted \in {"none", "ObjectWriteCanceledByIncomingRead", "IllegalWriteStartId",
                  "PendingWriteRequest", "IllegalReadEndId"}

\* None of the errors the resolver and REST check for occurs: in particular the REST thread,
\* which learns of a read on a path of its own, never writes again before the resolver has
\* taken note that the last write ended (SerialNotifier.hpp 498-507).
NoAbort == aborted = "none"

\* Where the write-start command is: free, with a writer, signalled, or with the resolver.
WriteStartAt ==
  [free |-> writeStartAck, posted |-> writeStartUpdated,
   main |-> pc["main"] = "post", rest |-> pc["rest"] = "post",
   resolver |-> pc["resolver"] \in {"accept", "acknowledge"}]

\* Where the read-end command is.
ReadEndAt ==
  [free |-> readEndAck, posted |-> readEndUpdated, resolver |-> pc["resolver"] = "tell",
   rest |-> pc["rest"] \in {"load", "acknowledge"}]

\* Each command is in one place only. The constructor and the REST thread both issue writes
\* without a lock (SerialNotifier.hpp 387-396), and the resolver never signals a read end
\* while the REST thread still reads the last one (338-347, 477-489).
CommandsOnce ==
  /\ \E p \in DOMAIN WriteStartAt : \A q \in DOMAIN WriteStartAt : WriteStartAt[q] <=> q = p
  /\ \E p \in DOMAIN ReadEndAt : \A q \in DOMAIN ReadEndAt : ReadEndAt[q] <=> q = p

\* Where the right to write the object is: with the peer, or on its way from the event loop
\* to the resolver, to the REST thread, back to the resolver and to the event loop.
RightAt ==
  [peer |-> owner[Written] = "peer", received |-> Written \in readAck, queued |-> queued,
   told |-> readEndUpdated, loaded |-> pc["rest"] = "load", ready |-> Written \in ready,
   rest |-> pc["rest"] \in {"write", "post"}, main |-> pc["main"] \in {"write", "post"},
   posted |-> writeStartUpdated, accepted |-> pc["resolver"] = "accept",
   requested |-> Written \in syncMe, transferred |-> Written \in transfer]

\* The right to write an object is neither lost nor doubled on its way through four threads:
\* an application on top of REST takes turns with the peer, which is what the runs of the
\* link that forbid errors assume of it.
OneRight ==
  aborted = "none" =>
    \E p \in DOMAIN RightAt : \A q \in DOMAIN RightAt : RightAt[q] <=> q = p

\* An object whose read has ended is made ready for the application (the notice of
\* SerialNotifier.hpp 349, "informs when getReadEnd"), unless the side is deleted or
\* the program aborts.
EndsTold ==
  \A id \in Ids : (id \in readAck) ~> (id \in ready \/ stopped # {} \/ aborted # "none")

\* A read of the object that has ended leads to the next write of it.
WrittenBack == (Written \in readAck) ~> (Written \in syncMe \/ stopped # {})

\* ~FPGARest and ~FPGAResolver join both threads, whatever the resolver and the REST thread
\* were waiting for from each other.
DestructionEnds == (pc["main"] = "joinFirst") ~> (pc["main"] = "deleted")

=============================================================================

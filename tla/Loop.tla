-------------------------------- MODULE Loop --------------------------------
(***************************************************************************)
(* The life cycle every threaded class of the library inherits from Loop   *)
(* (INTERFACE.hpp): a thread started by the constructor of the derived     *)
(* class, asked to stop through one flag of its HandShake, answering       *)
(* through the other. Where the thread is inside its event_loop() is the   *)
(* matter of the module that instantiates this one. A set holds the loops  *)
(* whose flag is signalled.                                                *)
(***************************************************************************)
CONSTANT Loops

VARIABLES
  thread,        \* where each thread is: "none", "check", "body", ..., "finish", "ended"
  stopUpdated,   \* stop_token.updated: asked to stop
  stopAck,       \* stop_token.acknowledge: has come out of the loop
  gone           \* loops whose destructor is through

LoopInit ==
  /\ thread = [l \in Loops |-> "none"]
  /\ stopUpdated = {} /\ stopAck = {} /\ gone = {}

MoveTo(l, p) == thread' = [thread EXCEPT ![l] = p]

\* start(): the flag is set before the thread exists.
Start(l) ==
  /\ MoveTo(l, "check")
  /\ stopUpdated' = stopUpdated \ {l}
  /\ UNCHANGED <<stopAck, gone>>

\* is_running(): no request to stop, one more event_loop().
KeepRunning(l) ==
  /\ thread[l] = "check" /\ l \notin stopUpdated
  /\ MoveTo(l, "body")
  /\ UNCHANGED <<stopUpdated, stopAck, gone>>

\* is_running() takes the request.
LeaveLoop(l) ==
  /\ thread[l] = "check" /\ l \in stopUpdated
  /\ MoveTo(l, "finish")
  /\ stopUpdated' = stopUpdated \ {l}
  /\ UNCHANGED <<stopAck, gone>>

\* Faulty variant: the thread comes out of the loop without a word.
FinishedSilently(l) == stopAck

Finished(l) == stopAck \cup {l}

\* finished(), the last thing the thread does.
Finish(l) ==
  /\ thread[l] = "finish"
  /\ MoveTo(l, "ended")
  /\ stopAck' = Finished(l)
  /\ UNCHANGED <<stopUpdated, gone>>

RequestStop(l) ==
  /\ stopUpdated' = stopUpdated \cup {l}
  /\ UNCHANGED <<thread, stopAck, gone>>

\* destroyme.join() returns.
Join(l) == thread[l] = "ended" /\ UNCHANGED <<thread, stopUpdated, stopAck, gone>>

\* The wait in ~Loop returns: the acknowledge is taken, and given again.
AwaitFinished(l) ==
  /\ l \in stopAck
  /\ gone' = gone \cup {l}
  /\ UNCHANGED <<thread, stopUpdated, stopAck>>

=============================================================================

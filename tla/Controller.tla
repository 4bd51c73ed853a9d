----------------------------- MODULE Controller -----------------------------
(***************************************************************************)
(* The controller example (impl/Controller.cpp, test_controller.cpp): a    *)
(* controller that owns a child thread and a timer thread, asked by main   *)
(* through a handshake, and the construction and destruction of the three  *)
(* loops. The child is either NotifyImpl, which blinks a flag the          *)
(* controller looks at, or ProcessorScheme, which shares the flag with the *)
(* controller as a lock around printing. In the event loop example         *)
(* (impl/EventLoop.cpp, test_eventloop.cpp) main itself does the           *)
(* controller's work with a blinking child, BlinkLoop; its turn is then    *)
(* the place of the "controller". Its timer is a SystemTimer that sleeps,  *)
(* or a TickTimer that counts as far as the command line says. A flag is   *)
(* TRUE when signalled.                                                    *)
(***************************************************************************)
EXTENDS Integers, Sequences

CONSTANTS
  Batch,       \* prints in one go; 3 in the code
  PauseTurns   \* how often the timer and the controller begin a turn in the 5 s of pause

ASSUME ControllerAssumption == Batch \in Nat \ {0}

\* A turn of a SystemTimer sleeps for 100 ms, one of the controller for 333 ms at most: the
\* 5 s are more than four of each.
ASSUME PauseAssumption == PauseTurns \in Nat /\ PauseTurns >= 4

Parts == {"child", "timer", "controller"}
Schemes == {"notify", "processor", "eventloop", "ticks"}

VARIABLES
  thread, stopUpdated, stopAck, gone,   \* the three loops, see Loop
  scheme,                    \* "notify" or "processor" child; "eventloop", and the same
                             \* with a TickTimer, "ticks": no controller
  step,                      \* main: index into Program
  busUpdated, busAck,        \* the handshake of main and controller
  waiterUpdated, waiterAck,  \* the handshake of controller and timer
  notify,                    \* the flag of controller and child
  round,                     \* prints made in this go, by child and controller
  turns, passed,             \* rounds of turns in main's pause, and who began one in this round
  stripped,                  \* ~SystemTimer is through: operator() is pure virtual
  aborted                    \* the program called a pure virtual function

INSTANCE Loop WITH Loops <- Parts

loopVars == <<thread, stopUpdated, stopAck, gone>>
busVars == <<busUpdated, busAck>>
waiterVars == <<waiterUpdated, waiterAck>>
pauseVars == <<turns, passed>>
vars ==
  <<loopVars, scheme, step, busVars, waiterVars, notify, round, pauseVars, stripped, aborted>>

MainTurns == scheme \in {"eventloop", "ticks"}

\* A step of a thread inside its event_loop().
Within(l, p, q) ==
  /\ ~aborted /\ thread[l] = p
  /\ MoveTo(l, q)
  /\ UNCHANGED <<stopUpdated, stopAck, gone, scheme, step, pauseVars, stripped, aborted>>

Init ==
  /\ LoopInit
  /\ scheme \in Schemes
  /\ step = 1
  /\ busUpdated = FALSE /\ busAck = FALSE /\ waiterUpdated = FALSE /\ waiterAck = FALSE
  /\ notify = FALSE
  /\ round = [l \in {"child", "controller"} |-> 0]
  /\ turns = 0 /\ passed = {}
  /\ stripped = FALSE /\ aborted = FALSE

-----------------------------------------------------------------------------
(* Timer::event_loop and SystemTimer::operator().                          *)

TimerPoll ==
  /\ Within("timer", "body", IF waiterUpdated THEN "operate" ELSE "check")
  /\ waiterUpdated' = FALSE
  /\ UNCHANGED <<busVars, waiterAck, notify, round>>

\* operator() is virtual; while ~Timer runs it is Timer's, which is pure.
TimerOperate ==
  IF stripped
  THEN /\ ~aborted /\ thread["timer"] = "operate" /\ aborted' = TRUE
       /\ UNCHANGED <<loopVars, scheme, step, busVars, waiterVars, notify, round, pauseVars,
                      stripped>>
  ELSE Within("timer", "operate", "slept") /\ UNCHANGED <<busVars, waiterVars, notify, round>>

TimerAnswer ==
  /\ Within("timer", "slept", "check")
  /\ waiterAck' = TRUE
  /\ UNCHANGED <<busVars, waiterUpdated, notify, round>>

-----------------------------------------------------------------------------
(* The child: event_loop() of NotifyImpl, BlinkLoop and ProcessorScheme.   *)

BlinkOn ==
  /\ scheme # "processor" /\ Within("child", "body", "on")
  /\ notify' = TRUE
  /\ UNCHANGED <<busVars, waiterVars, round>>

BlinkOff ==
  /\ Within("child", "on", "check")
  /\ notify' = FALSE
  /\ UNCHANGED <<busVars, waiterVars, round>>

\* Faulty variants: the flag is not waited for; one print too many.
FlagIgnored == TRUE
LastPrintLate(l) == round[l] = Batch

FlagFree == notify
LastPrint(l) == round[l] + 1 = Batch

Lock(l, p) ==
  /\ scheme = "processor" /\ Within(l, p, "print")
  /\ FlagFree /\ notify' = FALSE
  /\ UNCHANGED <<busVars, waiterVars, round>>

\* The flag is given back; the sleep that follows leaves it to the other thread.
Unlock(l, again, after) ==
  /\ Within(l, "print", IF LastPrint(l) THEN after ELSE again)
  /\ notify' = TRUE
  /\ round' = [round EXCEPT ![l] = IF LastPrint(l) THEN 0 ELSE @ + 1]
  /\ UNCHANGED <<busVars, waiterVars>>

-----------------------------------------------------------------------------
(* ControllerImpl::event_loop, or a turn of the loop in test_eventloop.    *)

ControllerPoll ==
  /\ Within("controller", "body", IF busUpdated THEN "ask" ELSE "check")
  /\ busUpdated' = FALSE
  /\ UNCHANGED <<busAck, waiterVars, notify, round>>

AskWaiter ==
  /\ Within("controller", "ask", "look")
  /\ waiterUpdated' = TRUE
  /\ UNCHANGED <<busVars, waiterAck, notify, round>>

LookWaiter ==
  /\ Within("controller", "look", IF waiterAck THEN "show" ELSE "answer")
  /\ waiterAck' = FALSE
  /\ UNCHANGED <<busVars, waiterUpdated, notify, round>>

\* The flag is looked at by taking it, and put back if it was signalled.
LookNotify ==
  /\ scheme # "processor"
  /\ Within("controller", "show", IF notify THEN "putBack" ELSE "answer")
  /\ notify' = FALSE
  /\ UNCHANGED <<busVars, waiterVars, round>>

PutBack ==
  /\ Within("controller", "putBack", "answer")
  /\ notify' = TRUE
  /\ UNCHANGED <<busVars, waiterVars, round>>

\* Faulty variant: the controller answers only when it has shown something.
AnsweredIfShown == busAck \/ waiterAck

AnswerGiven == TRUE

Answer ==
  /\ ~MainTurns /\ Within("controller", "answer", "check")
  /\ busAck' = AnswerGiven
  /\ UNCHANGED <<busUpdated, waiterVars, notify, round>>

EndTurn ==
  /\ MainTurns /\ Within("controller", "answer", "none")
  /\ UNCHANGED <<busVars, waiterVars, notify, round>>

-----------------------------------------------------------------------------
(* main() and the destructors it runs.                                     *)

Op(op, part) == [op |-> op, part |-> part]
Destroyed(l) == <<Op("request", l), Op("join", l)>>   \* Loop::destroy
Ended(l) == <<Op("request", l), Op("await", l)>>      \* ~Loop

StripTimer == <<Op("strip", "timer")>> \o Destroyed("timer") \o Ended("timer")

\* A child and a timer are parts of the controller: started before it.
Constructed ==
  IF MainTurns THEN <<Op("start", "timer"), Op("start", "child")>>
  ELSE <<Op("start", "child"), Op("start", "timer"), Op("start", "controller"), Op("ask", "main")>>

Used == <<Op("use", "main"), Op("settle", "main")>>

\* Faulty variant: ~ControllerImpl deletes the timer before it stops its own loop.
TeardownTimerFirst ==
  IF MainTurns THEN Destroyed("child") \o Ended("child") \o StripTimer
  ELSE StripTimer \o Destroyed("controller") \o Destroyed("child") \o Ended("child")
         \o Ended("controller")

\* The parts of the controller end after its thread and before its own ~Loop.
Teardown ==
  IF MainTurns THEN Destroyed("child") \o Ended("child") \o StripTimer
  ELSE Destroyed("controller") \o StripTimer \o Destroyed("child") \o Ended("child")
         \o Ended("controller")

Program == Constructed \o Used \o Teardown

At(op) == ~aborted /\ step <= Len(Program) /\ Program[step].op = op
Part == Program[step].part
Advance == step' = step + 1

MainLoops ==
  \/ At("start") /\ Start(Part)
  \/ At("request") /\ RequestStop(Part)
  \/ At("join") /\ Join(Part)
  \/ At("await") /\ AwaitFinished(Part)

\* ProcessorScheme's constructor gives the flag free.
MainLifeCycle ==
  /\ MainLoops /\ Advance
  /\ notify' = (notify \/ (At("start") /\ Part = "child" /\ scheme = "processor"))
  /\ UNCHANGED <<scheme, busVars, waiterVars, round, pauseVars, stripped, aborted>>

Ask ==
  /\ At("ask") /\ Advance
  /\ busUpdated' = TRUE
  /\ UNCHANGED <<loopVars, scheme, busAck, waiterVars, notify, round, pauseVars, stripped, aborted>>

\* For 5 s main asks again as soon as it is answered, or takes turns itself.
AskAgain ==
  /\ At("use") /\ busAck
  /\ busAck' = FALSE /\ busUpdated' = TRUE
  /\ UNCHANGED <<loopVars, scheme, step, waiterVars, notify, round, pauseVars, stripped, aborted>>

TakeTurn ==
  /\ MainTurns /\ At("use") /\ Within("controller", "none", "ask")
  /\ UNCHANGED <<busVars, waiterVars, notify, round>>

StopAsking ==
  /\ At("use") /\ Advance
  /\ MainTurns => thread["controller"] = "none"
  /\ UNCHANGED <<loopVars, scheme, busVars, waiterVars, notify, round, pauseVars, stripped,
                 aborted>>

\* The 5 s main then sleeps are at least PauseTurns rounds, in each of which the timer and the
\* controller come past the head of their loop. Of a TickTimer nothing can be said.
Timed == IF MainTurns THEN {"timer"} ELSE {"timer", "controller"}

CountTurn(l) ==
  IF At("settle") /\ turns < PauseTurns /\ l \in Timed
  THEN /\ turns' = IF passed \cup {l} = Timed THEN turns + 1 ELSE turns
       /\ passed' = IF passed \cup {l} = Timed THEN {} ELSE passed \cup {l}
  ELSE UNCHANGED pauseVars

Settle ==
  /\ At("settle") /\ (scheme = "ticks" \/ turns = PauseTurns) /\ Advance
  /\ UNCHANGED <<loopVars, scheme, busVars, waiterVars, notify, round, pauseVars, stripped,
                 aborted>>

\* ~SystemTimer: from here on the timer is only a Timer.
Strip ==
  /\ At("strip") /\ Advance
  /\ stripped' = TRUE
  /\ UNCHANGED <<loopVars, scheme, busVars, waiterVars, notify, round, pauseVars, aborted>>

Terminated == (aborted \/ step > Len(Program)) /\ UNCHANGED vars

-----------------------------------------------------------------------------
(* The specification.                                                      *)

LoopStep(l) ==
  /\ ~aborted
  /\ \/ KeepRunning(l) /\ CountTurn(l)
     \/ (LeaveLoop(l) \/ Finish(l)) /\ UNCHANGED pauseVars
  /\ UNCHANGED <<scheme, step, busVars, waiterVars, notify, round, stripped, aborted>>

Timer == LoopStep("timer") \/ TimerPoll \/ TimerOperate \/ TimerAnswer

Child == LoopStep("child") \/ BlinkOn \/ BlinkOff
           \/ Lock("child", "body") \/ Unlock("child", "body", "check")

ControllerLoop ==
  \/ LoopStep("controller") \/ ControllerPoll \/ AskWaiter \/ LookWaiter
  \/ LookNotify \/ PutBack \/ Answer \/ EndTurn
  \/ Lock("controller", "show") \/ Unlock("controller", "show", "answer")

Main == MainLifeCycle \/ Ask \/ AskAgain \/ TakeTurn \/ StopAsking \/ Settle \/ Strip

Next == Timer \/ Child \/ ControllerLoop \/ Main \/ Terminated

Spec == Init /\ [][Next]_vars

\* Each thread is scheduled again and again. The two that share the flag sleep 111 ms each
\* time they have given it back, so neither finds it taken for ever. The 5 s of asking pass,
\* and the pause after them ends.
FairSpec ==
  /\ Spec
  /\ WF_vars(Timer) /\ WF_vars(Child) /\ WF_vars(ControllerLoop)
  /\ SF_vars(Lock("child", "body")) /\ SF_vars(Lock("controller", "show"))
  /\ WF_vars(MainLifeCycle) /\ WF_vars(Ask) /\ WF_vars(AskAgain) /\ WF_vars(StopAsking)
  /\ WF_vars(Settle) /\ WF_vars(Strip)

-----------------------------------------------------------------------------
(* Properties.                                                             *)

LoopPlaces == {"none", "check", "body", "finish", "ended"}

PlacesOf(l) == LoopPlaces \cup
  CASE l = "timer" -> {"operate", "slept"}
    [] l = "child" -> {"on", "print"}
    [] l = "controller" -> {"ask", "look", "show", "print", "putBack", "answer"}

\* The type invariant: the prints of a go stay below Batch.
TypeOK ==
  /\ thread \in [Parts -> UNION {PlacesOf(l) : l \in Parts}]
  /\ \A l \in Parts : thread[l] \in PlacesOf(l)
  /\ stopUpdated \in SUBSET Parts /\ stopAck \in SUBSET Parts /\ gone \in SUBSET Parts
  /\ scheme \in Schemes /\ step \in 1 .. Len(Program) + 1
  /\ busUpdated \in BOOLEAN /\ busAck \in BOOLEAN
  /\ waiterUpdated \in BOOLEAN /\ waiterAck \in BOOLEAN
  /\ notify \in BOOLEAN /\ round \in [{"child", "controller"} -> 0 .. Batch - 1]
  /\ turns \in 0 .. PauseTurns /\ passed \in SUBSET Parts
  /\ stripped \in BOOLEAN /\ aborted \in BOOLEAN

\* Child and controller never print at once, and the flag they share is neither lost nor
\* given twice (Controller.cpp 53-63, 119-125).
Exclusive ==
  scheme = "processor" /\ thread["child"] # "none" =>
    LET where == [free |-> notify, child |-> thread["child"] = "print",
                  controller |-> thread["controller"] = "print"]
    IN \E p \in DOMAIN where : \A q \in DOMAIN where : where[q] <=> q = p

\* A SystemTimer is never taken down under its operator(): by the time main's pause is over
\* whatever was asked of the timer is done, also what the controller's last turns still asked.
\* A TickTimer may still be at it (simulation_helpers.hpp 27, 78-81).
OwnOperator == aborted => scheme = "ticks"

\* No loop is destroyed under its own running thread, none of the parts whose buses the
\* controller's event_loop() uses is destroyed before the controller's thread has ended, and
\* no timer whose turns the pause outlasts is stripped before it is through with them.
EndedFirst ==
  /\ \A l \in gone : thread[l] = "ended"
  /\ gone # {} => thread["controller"] \in {"none", "ended"}
  /\ OwnOperator

\* The controller answers whatever it is asked, also when it has to share the flag.
Answered == busUpdated ~> busAck

\* The three loops can always be taken down: each ~Loop gets the acknowledge it waits for,
\* after destroy() has already joined the thread that gave it. (A pure call ends the program.)
TeardownEnds == (step > Len(Constructed \o Used)) ~> (step > Len(Program) \/ aborted)

=============================================================================

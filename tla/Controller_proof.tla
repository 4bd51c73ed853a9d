-------------------------- MODULE Controller_proof --------------------------
(***************************************************************************)
(* The safety of the controller example for every number of prints in a    *)
(* go and every pause of at least four rounds of turns: the flag that is a *)
(* lock excludes, and the teardown ends each thread before what it uses.   *)
(* The invariant ties the places of the threads to how far main is in its  *)
(* program and in its pause.                                               *)
(***************************************************************************)
EXTENDS Controller, TLAPS

-----------------------------------------------------------------------------
(* The program of main, step by step.                                      *)

Ops == [op : {"start", "ask", "use", "settle", "request", "join", "await", "strip"},
        part : Parts \cup {"main"}]

\* What a concatenation of m and n operations is, entry by entry.
Joined(q, s, t, m, n) ==
  /\ q \in Seq(Ops) /\ Len(q) = m + n
  /\ \A i \in 1 .. m : q[i] = s[i]
  /\ \A i \in m + 1 .. m + n : q[i] = t[i - m]

LEMMA ConcatenationLaws ==
  ASSUME NEW s \in Seq(Ops), NEW t \in Seq(Ops)
  PROVE /\ s \o t \in Seq(Ops) /\ Len(s \o t) = Len(s) + Len(t)
        /\ \A i \in 1 .. Len(s) : (s \o t)[i] = s[i]
        /\ \A i \in Len(s) + 1 .. Len(s) + Len(t) : (s \o t)[i] = t[i - Len(s)]
OBVIOUS

LEMMA Concatenation ==
  ASSUME NEW s \in Seq(Ops), NEW t \in Seq(Ops), NEW q, q = s \o t,
         NEW m, NEW n, Len(s) = m, Len(t) = n
  PROVE Joined(q, s, t, m, n)
<1>1. /\ s \o t \in Seq(Ops) /\ Len(s \o t) = Len(s) + Len(t)
      /\ \A i \in 1 .. Len(s) : (s \o t)[i] = s[i]
      /\ \A i \in Len(s) + 1 .. Len(s) + Len(t) : (s \o t)[i] = t[i - Len(s)]
  BY ConcatenationLaws
<1> QED BY <1>1 DEF Joined

\* Two operations at the end.
Lengthened(q, s, n, a, b) ==
  /\ q \in Seq(Ops) /\ Len(q) = n + 2
  /\ \A i \in 1 .. n : q[i] = s[i]
  /\ q[n + 1] = a /\ q[n + 2] = b

LEMMA TwoMore ==
  ASSUME NEW s \in Seq(Ops), NEW a \in Ops, NEW b \in Ops, NEW q, q = s \o <<a, b>>,
         NEW n, Len(s) = n
  PROVE Lengthened(q, s, n, a, b)
<1>1. /\ s \o <<a, b>> \in Seq(Ops) /\ Len(s \o <<a, b>>) = Len(s) + 2
      /\ \A i \in 1 .. Len(s) : (s \o <<a, b>>)[i] = s[i]
      /\ (s \o <<a, b>>)[Len(s) + 1] = a /\ (s \o <<a, b>>)[Len(s) + 2] = b
  OBVIOUS
<1> QED BY <1>1 DEF Lengthened

LEMMA OpsKnown ==
  \A o \in {"start", "ask", "use", "settle", "request", "join", "await", "strip"} :
    \A l \in Parts \cup {"main"} : Op(o, l) \in Ops
BY DEF Op, Ops

LEMMA StripProgram ==
  /\ StripTimer \in Seq(Ops) /\ Len(StripTimer) = 5
  /\ StripTimer[1] = Op("strip", "timer") /\ StripTimer[2] = Op("request", "timer")
  /\ StripTimer[3] = Op("join", "timer") /\ StripTimer[4] = Op("request", "timer")
  /\ StripTimer[5] = Op("await", "timer")
BY OpsKnown, TwoMore DEF StripTimer, Destroyed, Ended, Lengthened, Parts

LEMMA EventLoopProgram ==
  ASSUME MainTurns
  PROVE /\ Len(Program) = 13
        /\ Program[1] = Op("start", "timer") /\ Program[2] = Op("start", "child")
        /\ Program[3] = Op("use", "main") /\ Program[4] = Op("settle", "main")
        /\ Program[5] = Op("request", "child") /\ Program[6] = Op("join", "child")
        /\ Program[7] = Op("request", "child") /\ Program[8] = Op("await", "child")
        /\ Program[9] = Op("strip", "timer") /\ Program[10] = Op("request", "timer")
        /\ Program[11] = Op("join", "timer") /\ Program[12] = Op("request", "timer")
        /\ Program[13] = Op("await", "timer")
<1> DEFINE first == Constructed \o Used
           stop == Destroyed("child") \o Ended("child")
<1>1. /\ first \in Seq(Ops) /\ Len(first) = 4
      /\ first[1] = Op("start", "timer") /\ first[2] = Op("start", "child")
      /\ first[3] = Op("use", "main") /\ first[4] = Op("settle", "main")
  BY OpsKnown, TwoMore DEF Constructed, Used, Parts, Lengthened
<1>2. /\ stop \in Seq(Ops) /\ Len(stop) = 4
      /\ stop[1] = Op("request", "child") /\ stop[2] = Op("join", "child")
      /\ stop[3] = Op("request", "child") /\ stop[4] = Op("await", "child")
  BY OpsKnown, TwoMore DEF Destroyed, Ended, Parts, Lengthened
<1>3. Teardown = stop \o StripTimer /\ Program = first \o Teardown
  BY DEF Teardown, Program
<1> HIDE DEF first, stop
<1>4. /\ Teardown \in Seq(Ops) /\ Len(Teardown) = 9
      /\ \A i \in 1 .. 4 : Teardown[i] = stop[i]
      /\ \A i \in 5 .. 9 : Teardown[i] = StripTimer[i - 4]
  <2>1. Joined(Teardown, stop, StripTimer, 4, 5)
    BY <1>2, <1>3, StripProgram, Concatenation
  <2> QED BY <2>1 DEF Joined
<1>5. /\ Len(Program) = 13
      /\ \A i \in 1 .. 4 : Program[i] = first[i]
      /\ \A i \in 5 .. 13 : Program[i] = Teardown[i - 4]
  <2>1. Joined(Program, first, Teardown, 4, 9)
    BY <1>1, <1>3, <1>4, Concatenation
  <2> QED BY <2>1 DEF Joined
<1>6. /\ Program[5] = stop[1] /\ Program[6] = stop[2] /\ Program[7] = stop[3]
      /\ Program[8] = stop[4]
  BY <1>4, <1>5
<1>7. /\ Program[9] = StripTimer[1] /\ Program[10] = StripTimer[2]
      /\ Program[11] = StripTimer[3] /\ Program[12] = StripTimer[4]
      /\ Program[13] = StripTimer[5]
  BY <1>4, <1>5
<1> QED BY <1>1, <1>2, <1>5, <1>6, <1>7, StripProgram

LEMMA ControllerProgram ==
  ASSUME ~MainTurns
  PROVE /\ Len(Program) = 19
        /\ Program[1] = Op("start", "child") /\ Program[2] = Op("start", "timer")
        /\ Program[3] = Op("start", "controller") /\ Program[4] = Op("ask", "main")
        /\ Program[5] = Op("use", "main") /\ Program[6] = Op("settle", "main")
        /\ Program[7] = Op("request", "controller") /\ Program[8] = Op("join", "controller")
        /\ Program[9] = Op("strip", "timer") /\ Program[10] = Op("request", "timer")
        /\ Program[11] = Op("join", "timer") /\ Program[12] = Op("request", "timer")
        /\ Program[13] = Op("await", "timer") /\ Program[14] = Op("request", "child")
        /\ Program[15] = Op("join", "child") /\ Program[16] = Op("request", "child")
        /\ Program[17] = Op("await", "child") /\ Program[18] = Op("request", "controller")
        /\ Program[19] = Op("await", "controller")
<1> DEFINE first == Constructed \o Used
           stop == Destroyed("controller") \o StripTimer
           joined == stop \o Destroyed("child")
           ended == joined \o Ended("child")
<1>1. /\ first \in Seq(Ops) /\ Len(first) = 6
      /\ first[1] = Op("start", "child") /\ first[2] = Op("start", "timer")
      /\ first[3] = Op("start", "controller") /\ first[4] = Op("ask", "main")
      /\ first[5] = Op("use", "main") /\ first[6] = Op("settle", "main")
  BY OpsKnown, TwoMore DEF Constructed, Used, Parts, Lengthened
<1>2. Teardown = ended \o Ended("controller") /\ Program = first \o Teardown
  BY DEF Teardown, Program
<1> HIDE DEF first
<1>3. /\ stop \in Seq(Ops) /\ Len(stop) = 7
      /\ stop[1] = Op("request", "controller") /\ stop[2] = Op("join", "controller")
      /\ stop[3] = Op("strip", "timer") /\ stop[4] = Op("request", "timer")
      /\ stop[5] = Op("join", "timer") /\ stop[6] = Op("request", "timer")
      /\ stop[7] = Op("await", "timer")
  <2> DEFINE head == Destroyed("controller")
  <2>1. /\ head \in Seq(Ops) /\ Len(head) = 2
        /\ head[1] = Op("request", "controller") /\ head[2] = Op("join", "controller")
    BY OpsKnown DEF Destroyed, Parts
  <2>2. stop = head \o StripTimer
    OBVIOUS
  <2> HIDE DEF head, stop
  <2>3. Joined(stop, head, StripTimer, 2, 5)
    BY <2>1, <2>2, StripProgram, Concatenation
  <2> QED BY <2>1, <2>3, StripProgram DEF Joined
<1>4. joined = stop \o <<Op("request", "child"), Op("join", "child")>>
  BY DEF Destroyed
<1> HIDE DEF stop, joined
<1>5. /\ joined \in Seq(Ops) /\ Len(joined) = 9
      /\ \A i \in 1 .. 7 : joined[i] = stop[i]
      /\ joined[8] = Op("request", "child") /\ joined[9] = Op("join", "child")
  <2>1. Op("request", "child") \in Ops /\ Op("join", "child") \in Ops
    BY OpsKnown DEF Parts
  <2>2. Lengthened(joined, stop, 7, Op("request", "child"), Op("join", "child"))
    BY <1>3, <1>4, <2>1, TwoMore
  <2> QED BY <2>2 DEF Lengthened
<1>6. ended = joined \o <<Op("request", "child"), Op("await", "child")>>
  BY DEF Ended
<1> HIDE DEF ended
<1>7. /\ ended \in Seq(Ops) /\ Len(ended) = 11
      /\ \A i \in 1 .. 9 : ended[i] = joined[i]
      /\ ended[10] = Op("request", "child") /\ ended[11] = Op("await", "child")
  <2>1. Op("request", "child") \in Ops /\ Op("await", "child") \in Ops
    BY OpsKnown DEF Parts
  <2>2. Lengthened(ended, joined, 9, Op("request", "child"), Op("await", "child"))
    BY <1>5, <1>6, <2>1, TwoMore
  <2> QED BY <2>2 DEF Lengthened
<1>8. Teardown = ended \o <<Op("request", "controller"), Op("await", "controller")>>
  BY <1>2 DEF Ended
<1>9. /\ Teardown \in Seq(Ops) /\ Len(Teardown) = 13
      /\ \A i \in 1 .. 11 : Teardown[i] = ended[i]
      /\ Teardown[12] = Op("request", "controller") /\ Teardown[13] = Op("await", "controller")
  <2>1. Op("request", "controller") \in Ops /\ Op("await", "controller") \in Ops
    BY OpsKnown DEF Parts
  <2>2. Lengthened(Teardown, ended, 11, Op("request", "controller"), Op("await", "controller"))
    BY <1>7, <1>8, <2>1, TwoMore
  <2> QED BY <2>2 DEF Lengthened
<1>10. /\ Len(Program) = 19
       /\ \A i \in 1 .. 6 : Program[i] = first[i]
       /\ \A i \in 7 .. 19 : Program[i] = Teardown[i - 6]
  <2>1. Joined(Program, first, Teardown, 6, 13)
    BY <1>1, <1>2, <1>9, Concatenation
  <2> QED BY <2>1 DEF Joined
<1>11. /\ Program[7] = stop[1] /\ Program[8] = stop[2] /\ Program[9] = stop[3]
       /\ Program[10] = stop[4] /\ Program[11] = stop[5] /\ Program[12] = stop[6]
       /\ Program[13] = stop[7]
  BY <1>5, <1>7, <1>9, <1>10
<1>12. /\ Program[14] = joined[8] /\ Program[15] = joined[9]
       /\ Program[16] = ended[10] /\ Program[17] = ended[11]
       /\ Program[18] = Teardown[12] /\ Program[19] = Teardown[13]
  BY <1>7, <1>9, <1>10
<1> QED BY <1>1, <1>3, <1>5, <1>7, <1>9, <1>10, <1>11, <1>12

-----------------------------------------------------------------------------
(* Where main is in its program says which threads there are.              *)

Length == IF MainTurns THEN 13 ELSE 19

Types ==
  /\ thread \in [Parts -> UNION {PlacesOf(l) : l \in Parts}]
  /\ thread["timer"] \in LoopPlaces \cup {"operate", "slept"}
  /\ thread["child"] \in LoopPlaces \cup {"on", "print"}
  /\ thread["controller"] \in
       LoopPlaces \cup {"ask", "look", "show", "print", "putBack", "answer"}
  /\ stopUpdated \in SUBSET Parts /\ stopAck \in SUBSET Parts /\ gone \in SUBSET Parts
  /\ scheme \in Schemes /\ step \in 1 .. Length + 1
  /\ busUpdated \in BOOLEAN /\ busAck \in BOOLEAN
  /\ waiterUpdated \in BOOLEAN /\ waiterAck \in BOOLEAN
  /\ notify \in BOOLEAN /\ round \in [{"child", "controller"} -> 0 .. Batch - 1]
  /\ turns \in 0 .. PauseTurns /\ passed \in SUBSET Parts
  /\ stripped \in BOOLEAN /\ aborted \in BOOLEAN

LEMMA TypesAreTypes == Types <=> TypeOK
<1>1. scheme \in Schemes => Len(Program) = Length
  BY EventLoopProgram, ControllerProgram DEF Length, MainTurns
<1>2. (\A l \in Parts : thread[l] \in PlacesOf(l)) <=>
        /\ thread["timer"] \in LoopPlaces \cup {"operate", "slept"}
        /\ thread["child"] \in LoopPlaces \cup {"on", "print"}
        /\ thread["controller"] \in
             LoopPlaces \cup {"ask", "look", "show", "print", "putBack", "answer"}
  BY DEF PlacesOf, Parts
<1> QED BY <1>1, <1>2 DEF Types, TypeOK

\* The program as a table: the operation and the part of each step.
EventLoopStep(o, l) ==
  \/ step = 1 /\ o = "start" /\ l = "timer"
  \/ step = 2 /\ o = "start" /\ l = "child"
  \/ step = 3 /\ o = "use" /\ l = "main"
  \/ step = 4 /\ o = "settle" /\ l = "main"
  \/ step = 5 /\ o = "request" /\ l = "child"
  \/ step = 6 /\ o = "join" /\ l = "child"
  \/ step = 7 /\ o = "request" /\ l = "child"
  \/ step = 8 /\ o = "await" /\ l = "child"
  \/ step = 9 /\ o = "strip" /\ l = "timer"
  \/ step = 10 /\ o = "request" /\ l = "timer"
  \/ step = 11 /\ o = "join" /\ l = "timer"
  \/ step = 12 /\ o = "request" /\ l = "timer"
  \/ step = 13 /\ o = "await" /\ l = "timer"

ControllerStep(o, l) ==
  \/ step = 1 /\ o = "start" /\ l = "child"
  \/ step = 2 /\ o = "start" /\ l = "timer"
  \/ step = 3 /\ o = "start" /\ l = "controller"
  \/ step = 4 /\ o = "ask" /\ l = "main"
  \/ step = 5 /\ o = "use" /\ l = "main"
  \/ step = 6 /\ o = "settle" /\ l = "main"
  \/ step = 7 /\ o = "request" /\ l = "controller"
  \/ step = 8 /\ o = "join" /\ l = "controller"
  \/ step = 9 /\ o = "strip" /\ l = "timer"
  \/ step = 10 /\ o = "request" /\ l = "timer"
  \/ step = 11 /\ o = "join" /\ l = "timer"
  \/ step = 12 /\ o = "request" /\ l = "timer"
  \/ step = 13 /\ o = "await" /\ l = "timer"
  \/ step = 14 /\ o = "request" /\ l = "child"
  \/ step = 15 /\ o = "join" /\ l = "child"
  \/ step = 16 /\ o = "request" /\ l = "child"
  \/ step = 17 /\ o = "await" /\ l = "child"
  \/ step = 18 /\ o = "request" /\ l = "controller"
  \/ step = 19 /\ o = "await" /\ l = "controller"

LEMMA MainStep ==
  ASSUME Types, NEW o, At(o)
  PROVE IF MainTurns THEN EventLoopStep(o, Part) ELSE ControllerStep(o, Part)
<1>1. step \in Int /\ step >= 1 /\ step <= Len(Program)
  BY DEF Types, At
<1>2. o = Program[step].op /\ Part = Program[step].part
  BY DEF At, Part
<1>3. \A x, y : Op(x, y).op = x /\ Op(x, y).part = y
  BY DEF Op
<1>4. CASE MainTurns
  <2>0. Len(Program) = 13
    BY <1>4, EventLoopProgram DEF MainTurns
  <2>1. step \in 1 .. 13
    BY <1>1, <2>0
  <2> QED BY <1>2, <1>3, <1>4, <2>1, EventLoopProgram DEF MainTurns, EventLoopStep
<1>5. CASE ~MainTurns
  <2>0. Len(Program) = 19
    BY <1>5, ControllerProgram DEF MainTurns
  <2>1. step \in 1 .. 19
    BY <1>1, <2>0
  <2> QED BY <1>2, <1>3, <1>5, <2>1, ControllerProgram DEF MainTurns, ControllerStep
<1> QED BY <1>4, <1>5

\* Where main is when it does what.
LEMMA EventLoopAt ==
  ASSUME Types, MainTurns
  PROVE /\ At("start") => /\ step \in {1, 2}
                          /\ step = 1 => Part = "timer"
                          /\ step = 2 => Part = "child"
        /\ ~At("ask")
        /\ At("use") => step = 3
        /\ At("settle") => step = 4
        /\ At("request") => Part \in Parts /\ step \in {5, 7, 10, 12}
        /\ At("join") => Part \in Parts /\ step \in {6, 11}
        /\ At("await") => Part \in Parts /\ step \in {8, 13}
        /\ At("strip") => step = 9
<1>1. /\ At("start") => EventLoopStep("start", Part)
      /\ At("ask") => EventLoopStep("ask", Part)
      /\ At("use") => EventLoopStep("use", Part)
      /\ At("settle") => EventLoopStep("settle", Part)
      /\ At("request") => EventLoopStep("request", Part)
      /\ At("join") => EventLoopStep("join", Part)
      /\ At("await") => EventLoopStep("await", Part)
      /\ At("strip") => EventLoopStep("strip", Part)
  BY MainStep
<1>2. EventLoopStep("start", Part) => /\ step \in {1, 2}
                                      /\ step = 1 => Part = "timer"
                                      /\ step = 2 => Part = "child"
  BY DEF EventLoopStep
<1>3. ~EventLoopStep("ask", Part)
  BY DEF EventLoopStep
<1>4. /\ EventLoopStep("use", Part) => step = 3
      /\ EventLoopStep("settle", Part) => step = 4
      /\ EventLoopStep("strip", Part) => step = 9
  BY DEF EventLoopStep
<1>5. /\ EventLoopStep("request", Part) => Part \in Parts /\ step \in {5, 7, 10, 12}
      /\ EventLoopStep("join", Part) => Part \in Parts /\ step \in {6, 11}
      /\ EventLoopStep("await", Part) => Part \in Parts /\ step \in {8, 13}
  BY DEF EventLoopStep, Parts
<1> QED BY <1>1, <1>2, <1>3, <1>4, <1>5

LEMMA ControllerAt ==
  ASSUME Types, ~MainTurns
  PROVE /\ At("start") => /\ step \in {1, 2, 3}
                          /\ step = 1 => Part = "child"
                          /\ step = 2 => Part = "timer"
                          /\ step = 3 => Part = "controller"
        /\ At("ask") => step = 4
        /\ At("use") => step = 5
        /\ At("settle") => step = 6
        /\ At("request") => Part \in Parts /\ step \in {7, 10, 12, 14, 16, 18}
        /\ At("join") => /\ Part \in Parts /\ step \in {8, 11, 15}
                         /\ step = 8 => Part = "controller"
        /\ At("await") => Part \in Parts /\ step \in {13, 17, 19}
        /\ At("strip") => step = 9
<1>1. /\ At("start") => ControllerStep("start", Part)
      /\ At("ask") => ControllerStep("ask", Part)
      /\ At("use") => ControllerStep("use", Part)
      /\ At("settle") => ControllerStep("settle", Part)
      /\ At("request") => ControllerStep("request", Part)
      /\ At("join") => ControllerStep("join", Part)
      /\ At("await") => ControllerStep("await", Part)
      /\ At("strip") => ControllerStep("strip", Part)
  BY MainStep
<1> QED BY <1>1 DEF ControllerStep, Parts

-----------------------------------------------------------------------------
(* The invariant.                                                          *)

\* A thread exists from its start on. The turns main takes in the event loop example last
\* as long as it uses the program; the controller's own thread is joined before the rest.
Lives ==
  /\ MainTurns => /\ thread["timer"] = "none" <=> step <= 1
                  /\ thread["child"] = "none" <=> step <= 2
                  /\ thread["controller"] \in {"none", "ask", "look", "show", "putBack", "answer"}
                  /\ step # 3 => thread["controller"] = "none"
  /\ ~MainTurns => /\ thread["child"] = "none" <=> step <= 1
                   /\ thread["timer"] = "none" <=> step <= 2
                   /\ thread["controller"] = "none" <=> step <= 3
                   /\ step >= 9 => thread["controller"] = "ended"

\* One of the three has the flag, and the others have not.
OneHolder ==
  scheme = "processor" /\ thread["child"] # "none" =>
    \/ notify /\ thread["child"] # "print" /\ thread["controller"] # "print"
    \/ ~notify /\ thread["child"] = "print" /\ thread["controller"] # "print"
    \/ ~notify /\ thread["child"] # "print" /\ thread["controller"] = "print"

\* The flag is a lock or a light, never both.
OneUse ==
  IF scheme = "processor"
  THEN thread["child"] # "on" /\ thread["controller"] # "putBack"
  ELSE thread["child"] # "print" /\ thread["controller"] # "print"

\* An acknowledge is the last word of a thread, and ~Loop waits for it.
Acknowledged ==
  /\ \A l \in stopAck : thread[l] = "ended"
  /\ gone \subseteq stopAck
  /\ gone # {} => step > (IF MainTurns THEN 8 ELSE 13)

\* Where main is when it pauses.
Pause == IF MainTurns THEN 4 ELSE 6

\* Part l has begun its n-th turn in the pause.
Begun(l, n) == turns >= n \/ (turns + 1 = n /\ l \in passed)

\* In the pause nobody asks any more. A controller that begins a turn looks at its request, and
\* in its second has none. After two rounds nobody asks the timer, and it is the same with it.
Calming ==
  /\ step < Pause => turns = 0 /\ passed = {}
  /\ passed \subseteq Timed /\ passed # Timed
  /\ step <= Pause => stopUpdated = {}
  /\ step = Pause =>
       /\ ~MainTurns /\ Begun("controller", 1) /\ busUpdated => thread["controller"] = "body"
       /\ ~MainTurns /\ Begun("controller", 2) =>
            ~busUpdated /\ thread["controller"] \in {"check", "body"}
       /\ Begun("timer", 3) /\ waiterUpdated => thread["timer"] = "body"
       /\ Begun("timer", 4) => ~waiterUpdated /\ thread["timer"] \in {"check", "body"}

\* After the pause nothing is under way but the ends of the threads.
Quiet ==
  step > Pause /\ scheme # "ticks" =>
    /\ ~MainTurns =>
         ~busUpdated /\ thread["controller"] \in {"check", "body", "finish", "ended"}
    /\ ~waiterUpdated /\ thread["timer"] \in {"check", "body", "finish", "ended"}

\* No pure virtual function is called, but of a TickTimer.
NeverPure == (stripped => step > 9) /\ (aborted => scheme = "ticks")

Safe ==
  Types /\ OneHolder /\ Lives /\ OneUse /\ Acknowledged /\ Calming /\ Quiet /\ NeverPure

\* A thread at another place.
LEMMA Moved ==
  ASSUME Types, NEW l \in Parts, NEW q \in PlacesOf(l), MoveTo(l, q)
  PROVE /\ thread'[l] = q /\ \A m \in Parts \ {l} : thread'[m] = thread[m]
        /\ thread' \in [Parts -> UNION {PlacesOf(m) : m \in Parts}]
        /\ thread'["timer"] \in LoopPlaces \cup {"operate", "slept"}
        /\ thread'["child"] \in LoopPlaces \cup {"on", "print"}
        /\ thread'["controller"] \in
             LoopPlaces \cup {"ask", "look", "show", "print", "putBack", "answer"}
<1>1. thread' = [thread EXCEPT ![l] = q]
  BY DEF MoveTo
<1>2. q \in UNION {PlacesOf(m) : m \in Parts}
  OBVIOUS
<1>3. /\ thread' \in [Parts -> UNION {PlacesOf(m) : m \in Parts}]
      /\ thread'[l] = q /\ \A m \in Parts \ {l} : thread'[m] = thread[m]
  BY <1>1, <1>2 DEF Types
<1>4. /\ l = "timer" => q \in LoopPlaces \cup {"operate", "slept"}
      /\ l = "child" => q \in LoopPlaces \cup {"on", "print"}
      /\ l = "controller" =>
           q \in LoopPlaces \cup {"ask", "look", "show", "print", "putBack", "answer"}
  BY DEF PlacesOf
<1> QED BY <1>3, <1>4 DEF Types, Parts

\* The shared flag in the terms of its three possible holders.
LEMMA OneOfThree ==
  ASSUME NEW where, DOMAIN where = {"free", "child", "controller"},
         NEW a \in BOOLEAN, NEW b \in BOOLEAN, NEW c \in BOOLEAN,
         where["free"] = a, where["child"] = b, where["controller"] = c
  PROVE (\E p \in DOMAIN where : \A q \in DOMAIN where : where[q] <=> q = p) <=>
          \/ a /\ ~b /\ ~c
          \/ ~a /\ b /\ ~c
          \/ ~a /\ ~b /\ c
BY Zenon

LEMMA ExclusiveIs ==
  ASSUME notify \in BOOLEAN PROVE Exclusive <=> OneHolder
<1> DEFINE where == [free |-> notify, child |-> thread["child"] = "print",
                     controller |-> thread["controller"] = "print"]
<1>1. /\ DOMAIN where = {"free", "child", "controller"}
      /\ where["free"] = notify /\ where["child"] = (thread["child"] = "print")
      /\ where["controller"] = (thread["controller"] = "print")
  OBVIOUS
<1>2. (\E p \in DOMAIN where : \A q \in DOMAIN where : where[q] <=> q = p) <=>
        \/ notify /\ thread["child"] # "print" /\ thread["controller"] # "print"
        \/ ~notify /\ thread["child"] = "print" /\ thread["controller"] # "print"
        \/ ~notify /\ thread["child"] # "print" /\ thread["controller"] = "print"
  <2> HIDE DEF where
  <2>1. (thread["child"] = "print") \in BOOLEAN /\ (thread["controller"] = "print") \in BOOLEAN
    OBVIOUS
  <2> QED BY <1>1, <2>1, OneOfThree
<1> QED BY <1>2 DEF Exclusive, OneHolder

-----------------------------------------------------------------------------
(* The pause.                                                              *)

\* A step that asks for nothing, and leaves the turns and the two threads they are counted of.
LEMMA CalmingStays ==
  ASSUME Calming, UNCHANGED <<scheme, step, stopUpdated, turns, passed>>,
         thread'["timer"] = thread["timer"], thread'["controller"] = thread["controller"],
         busUpdated' => busUpdated, waiterUpdated' => waiterUpdated
  PROVE  Calming'
<1>1. Pause' = Pause /\ Timed' = Timed /\ MainTurns' = MainTurns
  BY DEF Pause, Timed, MainTurns
<1>2. \A l, n : Begun(l, n)' = Begun(l, n)
  BY DEF Begun
<1> QED BY <1>1, <1>2 DEF Calming

\* A step of the timer inside its turn.
LEMMA CalmingTimer ==
  ASSUME Types, Calming, UNCHANGED <<scheme, step, stopUpdated, turns, passed, busUpdated>>,
         thread'["controller"] = thread["controller"],
         thread["timer"] = "body" =>
           ~waiterUpdated' /\ (~waiterUpdated => thread'["timer"] = "check"),
         thread["timer"] # "body" => thread["timer"] # "check" /\ waiterUpdated' = waiterUpdated
  PROVE  Calming'
<1>1. Pause' = Pause /\ Timed' = Timed /\ MainTurns' = MainTurns
  BY DEF Pause, Timed, MainTurns
<1>2. \A l, n : Begun(l, n)' = Begun(l, n)
  BY DEF Begun
<1>3. Begun("timer", 4) => Begun("timer", 3)
  BY DEF Begun, Types
<1> QED BY <1>1, <1>2, <1>3 DEF Calming

\* A step of the controller inside its turn: only what looks at the request goes back idle.
LEMMA CalmingController ==
  ASSUME Types, Calming, Lives, UNCHANGED <<scheme, step, stopUpdated, turns, passed>>,
         thread'["timer"] = thread["timer"],
         \/ /\ thread["controller"] = "body" /\ ~busUpdated' /\ waiterUpdated' = waiterUpdated
            /\ ~busUpdated => thread'["controller"] = "check"
         \/ thread["controller"] \notin {"none", "body", "check"} /\ busUpdated' = busUpdated
  PROVE  Calming'
<1>1. Pause' = Pause /\ Timed' = Timed /\ MainTurns' = MainTurns
  BY DEF Pause, Timed, MainTurns
<1>2. \A l, n : Begun(l, n)' = Begun(l, n)
  BY DEF Begun
<1>3. /\ Begun("controller", 2) => Begun("controller", 1)
      /\ Begun("timer", 3) => Begun("controller", 2)
      /\ Begun("timer", 4) => Begun("timer", 3)
  BY DEF Begun, Types
<1>4. step = Pause /\ MainTurns => thread["controller"] = "none"
  BY DEF Lives, Pause
<1> QED BY <1>1, <1>2, <1>3, <1>4 DEF Calming

\* A turn that begins is the next one of its thread, and no other thread's.
LEMMA Counted ==
  ASSUME Types, Calming, NEW l \in Parts, CountTurn(l), UNCHANGED <<scheme, step>>
  PROVE  /\ turns' \in 0 .. PauseTurns /\ passed' \in SUBSET Parts
         /\ passed' \subseteq Timed' /\ passed' # Timed'
         /\ step # Pause => turns' = turns /\ passed' = passed
         /\ \A m \in Timed, n \in 1 .. 4 :
              Begun(m, n)' => Begun(m, n) \/ (m = l /\ (n = 1 \/ Begun(m, n - 1)))
<1>1. Timed' = Timed /\ Timed \in SUBSET Parts /\ Timed # {} /\ passed \subseteq Timed
  BY DEF Timed, MainTurns, Parts, Calming
<1>2. At("settle") => step = Pause
  BY EventLoopAt, ControllerAt DEF Pause
<1>3. turns \in Int /\ turns >= 0 /\ PauseTurns \in Nat
  BY PauseAssumption DEF Types
<1>4. CASE UNCHANGED <<turns, passed>>
  BY <1>1, <1>4 DEF Types, Calming, Begun
<1>5. CASE /\ At("settle") /\ turns < PauseTurns /\ l \in Timed /\ passed \cup {l} = Timed
           /\ turns' = turns + 1 /\ passed' = {}
  <2>1. turns' \in 0 .. PauseTurns
    BY <1>3, <1>5
  <2>2. ASSUME NEW m \in Timed, NEW n \in 1 .. 4, Begun(m, n)'
        PROVE  Begun(m, n) \/ (m = l /\ (n = 1 \/ Begun(m, n - 1)))
    <3>1. turns + 1 >= n
      BY <1>3, <1>5, <2>2 DEF Begun
    <3>2. turns >= n \/ turns + 1 = n
      BY <1>3, <3>1
    <3>3. m \in passed \/ m = l
      BY <1>5
    <3>4. turns + 1 = n => turns >= n - 1
      BY <1>3
    <3> QED BY <3>2, <3>3, <3>4 DEF Begun
  <2> QED BY <1>1, <1>2, <1>5, <2>1, <2>2
<1>6. CASE /\ At("settle") /\ turns < PauseTurns /\ l \in Timed /\ passed \cup {l} # Timed
           /\ turns' = turns /\ passed' = passed \cup {l}
  <2>2. ASSUME NEW m \in Timed, NEW n \in 1 .. 4, Begun(m, n)'
        PROVE  Begun(m, n) \/ (m = l /\ (n = 1 \/ Begun(m, n - 1)))
    <3>1. turns >= n \/ (turns + 1 = n /\ (m \in passed \/ m = l))
      BY <1>6, <2>2 DEF Begun
    <3>2. turns + 1 = n => turns >= n - 1
      BY <1>3
    <3> QED BY <3>1, <3>2 DEF Begun
  <2> QED BY <1>1, <1>2, <1>6, <2>2 DEF Types
<1> QED BY <1>4, <1>5, <1>6 DEF CountTurn, pauseVars

\* A thread that begins a turn, leaves its loop or ends.
LEMMA CalmingLoops ==
  ASSUME Types, Calming, NEW l \in Parts, LoopStep(l),
         thread'[l] # thread[l], \A m \in Parts \ {l} : thread'[m] = thread[m]
  PROVE  Calming'
<1>1. UNCHANGED <<scheme, step, busUpdated, waiterUpdated>>
  BY DEF LoopStep, busVars, waiterVars
<1>2. Pause' = Pause /\ Timed' = Timed /\ MainTurns' = MainTurns
  BY <1>1 DEF Pause, Timed, MainTurns
<1>3. CASE KeepRunning(l) /\ CountTurn(l)
  <2>1. /\ thread[l] = "check" /\ stopUpdated' = stopUpdated
        /\ thread' = [thread EXCEPT ![l] = "body"]
    BY <1>3 DEF KeepRunning, MoveTo
  <2>2. thread'[l] = "body"
    BY <2>1 DEF Types
  <2>3. /\ step < Pause => turns' = 0 /\ passed' = {}
        /\ passed' \subseteq Timed /\ passed' # Timed
    <3>1. step < Pause => step # Pause
      BY DEF Types, Length, Pause
    <3> QED BY <1>1, <1>2, <1>3, <3>1, Counted DEF Calming
  <2>4. ASSUME step = Pause, ~MainTurns
        PROVE  /\ Begun("controller", 1)' /\ busUpdated => thread'["controller"] = "body"
               /\ Begun("controller", 2)' =>
                    ~busUpdated /\ thread'["controller"] \in {"check", "body"}
    <3>1. /\ Begun("controller", 1)' => Begun("controller", 1) \/ l = "controller"
          /\ Begun("controller", 2)' =>
               Begun("controller", 2) \/ (l = "controller" /\ Begun("controller", 1))
      <4>1. "controller" \in Timed
        BY <2>4 DEF Timed
      <4>2. 1 \in 1 .. 4 /\ 2 \in 1 .. 4 /\ 2 - 1 = 1 /\ 2 # 1
        OBVIOUS
      <4> QED BY <1>1, <1>3, <4>1, <4>2, Counted
    <3> QED BY <2>1, <2>2, <2>4, <3>1 DEF Calming, Parts
  <2>5. ASSUME step = Pause
        PROVE  /\ Begun("timer", 3)' /\ waiterUpdated => thread'["timer"] = "body"
               /\ Begun("timer", 4)' => ~waiterUpdated /\ thread'["timer"] \in {"check", "body"}
    <3>1. /\ Begun("timer", 3)' => Begun("timer", 3) \/ l = "timer"
          /\ Begun("timer", 4)' => Begun("timer", 4) \/ (l = "timer" /\ Begun("timer", 3))
      <4>1. "timer" \in Timed
        BY DEF Timed
      <4>2. 3 \in 1 .. 4 /\ 4 \in 1 .. 4 /\ 4 - 1 = 3 /\ 4 # 1
        OBVIOUS
      <4> QED BY <1>1, <1>3, <4>1, <4>2, Counted
    <3> QED BY <2>1, <2>2, <2>5, <3>1 DEF Calming, Parts
  <2> QED BY <1>1, <1>2, <2>1, <2>3, <2>4, <2>5 DEF Calming
<1>4. CASE LeaveLoop(l) /\ UNCHANGED pauseVars
  <2>1. l \in stopUpdated
    BY <1>4 DEF LeaveLoop
  <2>2. ~(step <= Pause)
    BY <2>1 DEF Calming
  <2>3. step # Pause /\ ~(step < Pause)
    BY <2>2 DEF Types, Length, Pause
  <2> QED BY <1>1, <1>2, <1>4, <2>2, <2>3 DEF Calming, pauseVars
<1>5. CASE Finish(l) /\ UNCHANGED pauseVars
  <2>1. thread[l] = "finish" /\ UNCHANGED <<stopUpdated, turns, passed>>
    BY <1>5 DEF Finish, pauseVars
  <2>2. \A m, n : Begun(m, n)' = Begun(m, n)
    BY <2>1 DEF Begun
  <2>3. Begun("controller", 2) => Begun("controller", 1)
    BY DEF Begun, Types
  <2>4. Begun("timer", 4) => Begun("timer", 3)
    BY DEF Begun, Types
  <2> QED BY <1>1, <1>2, <2>1, <2>2, <2>3, <2>4 DEF Calming, Parts
<1> QED BY <1>3, <1>4, <1>5 DEF LoopStep

-----------------------------------------------------------------------------
(* Each step keeps it.                                                     *)

\* What a step of a thread inside its event_loop() leaves alone.
LEMMA WithinMoves ==
  ASSUME Safe, NEW l \in Parts, NEW p, NEW q \in PlacesOf(l), Within(l, p, q),
         p # "none", q # "none", p # "ended"
  PROVE /\ thread[l] = p /\ thread'[l] = q /\ \A m \in Parts \ {l} : thread'[m] = thread[m]
        /\ thread' \in [Parts -> UNION {PlacesOf(m) : m \in Parts}]
        /\ thread'["timer"] \in LoopPlaces \cup {"operate", "slept"}
        /\ thread'["child"] \in LoopPlaces \cup {"on", "print"}
        /\ thread'["controller"] \in
             LoopPlaces \cup {"ask", "look", "show", "print", "putBack", "answer"}
        /\ UNCHANGED <<stopUpdated, stopAck, gone, scheme, step, turns, passed, stripped,
                       aborted>>
        /\ Acknowledged' /\ NeverPure'
<1>1. /\ thread[l] = p /\ MoveTo(l, q)
      /\ UNCHANGED <<stopUpdated, stopAck, gone, scheme, step, turns, passed, stripped, aborted>>
  BY DEF Within, pauseVars
<1>2. Acknowledged'
  BY <1>1, Moved DEF Safe, Acknowledged, Types, MainTurns
<1>3. NeverPure'
  BY <1>1 DEF Safe, NeverPure
<1> QED BY <1>1, <1>2, <1>3, Moved DEF Safe

LEMMA TimerKeeps ==
  ASSUME Safe, TimerPoll \/ TimerOperate \/ TimerAnswer PROVE Safe'
<1> USE DEF Parts, LoopPlaces, PlacesOf
<1>1. CASE TimerPoll
  <2>1. PICK q \in {"operate", "check"} :
          /\ Within("timer", "body", q)
          /\ q = "operate" => waiterUpdated
    BY <1>1 DEF TimerPoll
  <2>2. waiterUpdated' = FALSE /\ UNCHANGED <<busUpdated, busAck, waiterAck, notify, round>>
    BY <1>1 DEF TimerPoll, busVars, waiterVars
  <2>3. Types'
    BY <2>1, <2>2, WithinMoves DEF Safe, Types, Length, MainTurns
  <2>4. OneHolder' /\ Lives' /\ OneUse' /\ Quiet'
    BY <2>1, <2>2, WithinMoves DEF Safe, OneHolder, Lives, OneUse, Quiet, Pause, MainTurns
  <2>5. Calming'
    BY <2>1, <2>2, WithinMoves, CalmingTimer DEF Safe
  <2> QED BY <2>1, <2>3, <2>4, <2>5, WithinMoves DEF Safe
<1>2. CASE TimerOperate
  <2>0. CASE stripped
    <3>1. /\ thread["timer"] = "operate" /\ aborted' = TRUE
          /\ UNCHANGED <<thread, stopUpdated, stopAck, gone, scheme, step, busUpdated, busAck,
                         waiterUpdated, waiterAck, notify, round, turns, passed, stripped>>
      BY <1>2, <2>0 DEF TimerOperate, loopVars, busVars, waiterVars, pauseVars
    <3>2. step > Pause
      BY <2>0 DEF Safe, NeverPure, Types, Length, Pause
    <3>3. scheme = "ticks"
      BY <3>1, <3>2 DEF Safe, Quiet
    <3>4. Types'
      BY <3>1 DEF Safe, Types, Length, MainTurns
    <3>5. Calming'
      BY <3>1, CalmingStays DEF Safe
    <3> QED BY <3>1, <3>3, <3>4, <3>5 DEF Safe, OneHolder, Lives, OneUse, Acknowledged, Quiet,
                                          Pause, NeverPure, MainTurns
  <2> SUFFICES ASSUME ~stripped PROVE Safe'
    BY <2>0
  <2>1. Within("timer", "operate", "slept")
    BY <1>2 DEF TimerOperate
  <2>2. UNCHANGED <<busUpdated, busAck, waiterUpdated, waiterAck, notify, round>>
    BY <1>2 DEF TimerOperate, busVars, waiterVars
  <2>3. Types'
    BY <2>1, <2>2, WithinMoves DEF Safe, Types, Length, MainTurns
  <2>4. OneHolder' /\ Lives' /\ OneUse' /\ Quiet'
    BY <2>1, <2>2, WithinMoves DEF Safe, OneHolder, Lives, OneUse, Quiet, Pause, MainTurns
  <2>5. Calming'
    BY <2>1, <2>2, WithinMoves, CalmingTimer DEF Safe
  <2> QED BY <2>1, <2>3, <2>4, <2>5, WithinMoves DEF Safe
<1>3. CASE TimerAnswer
  <2>1. Within("timer", "slept", "check")
    BY <1>3 DEF TimerAnswer
  <2>2. waiterAck' = TRUE /\ UNCHANGED <<busUpdated, busAck, waiterUpdated, notify, round>>
    BY <1>3 DEF TimerAnswer, busVars, waiterVars
  <2>3. Types'
    BY <2>1, <2>2, WithinMoves DEF Safe, Types, Length, MainTurns
  <2>4. OneHolder' /\ Lives' /\ OneUse' /\ Quiet'
    BY <2>1, <2>2, WithinMoves DEF Safe, OneHolder, Lives, OneUse, Quiet, Pause, MainTurns
  <2>5. Calming'
    BY <2>1, <2>2, WithinMoves, CalmingTimer DEF Safe
  <2> QED BY <2>1, <2>3, <2>4, <2>5, WithinMoves DEF Safe
<1> QED BY <1>1, <1>2, <1>3

LEMMA ChildKeeps ==
  ASSUME Safe, BlinkOn \/ BlinkOff \/ Lock("child", "body") \/ Unlock("child", "body", "check")
  PROVE Safe'
<1> USE DEF Parts, LoopPlaces, PlacesOf
<1>1. CASE BlinkOn
  <2>1. /\ Within("child", "body", "on")
        /\ scheme # "processor"
    BY <1>1 DEF BlinkOn
  <2>2. notify' = TRUE /\ UNCHANGED <<busUpdated, busAck, waiterUpdated, waiterAck, round>>
    BY <1>1 DEF BlinkOn, busVars, waiterVars
  <2>3. Types'
    BY <2>1, <2>2, WithinMoves DEF Safe, Types, Length, MainTurns
  <2>4. OneHolder' /\ Lives' /\ OneUse' /\ Quiet'
    BY <2>1, <2>2, WithinMoves DEF Safe, OneHolder, Lives, OneUse, Quiet, Pause, MainTurns
  <2>5. Calming'
    BY <2>1, <2>2, WithinMoves, CalmingStays DEF Safe
  <2> QED BY <2>1, <2>3, <2>4, <2>5, WithinMoves DEF Safe
<1>2. CASE BlinkOff
  <2>1. Within("child", "on", "check")
    BY <1>2 DEF BlinkOff
  <2>2. notify' = FALSE /\ UNCHANGED <<busUpdated, busAck, waiterUpdated, waiterAck, round>>
    BY <1>2 DEF BlinkOff, busVars, waiterVars
  <2>3. Types'
    BY <2>1, <2>2, WithinMoves DEF Safe, Types, Length, MainTurns
  <2>4. OneHolder' /\ Lives' /\ OneUse' /\ Quiet'
    BY <2>1, <2>2, WithinMoves DEF Safe, OneHolder, Lives, OneUse, Quiet, Pause, MainTurns
  <2>5. Calming'
    BY <2>1, <2>2, WithinMoves, CalmingStays DEF Safe
  <2> QED BY <2>1, <2>3, <2>4, <2>5, WithinMoves DEF Safe
<1>3. CASE Lock("child", "body")
  <2>1. /\ Within("child", "body", "print")
        /\ scheme = "processor"
        /\ notify
    BY <1>3 DEF Lock, FlagFree
  <2>2. notify' = FALSE /\ UNCHANGED <<busUpdated, busAck, waiterUpdated, waiterAck, round>>
    BY <1>3 DEF Lock, FlagFree, busVars, waiterVars
  <2>3. Types'
    BY <2>1, <2>2, WithinMoves DEF Safe, Types, Length, MainTurns
  <2>4. OneHolder' /\ Lives' /\ OneUse' /\ Quiet'
    BY <2>1, <2>2, WithinMoves DEF Safe, OneHolder, Lives, OneUse, Quiet, Pause, MainTurns
  <2>5. Calming'
    BY <2>1, <2>2, WithinMoves, CalmingStays DEF Safe
  <2> QED BY <2>1, <2>3, <2>4, <2>5, WithinMoves DEF Safe
<1>4. CASE Unlock("child", "body", "check")
  <2>1. PICK q \in {"body", "check"} : Within("child", "print", q)
    BY <1>4 DEF Unlock
  <2>2. notify' = TRUE /\ UNCHANGED <<busUpdated, busAck, waiterUpdated, waiterAck>>
    BY <1>4 DEF Unlock, busVars, waiterVars
  <2>3. round' \in [{"child", "controller"} -> 0 .. Batch - 1]
    <3>1. round["child"] + 1 # Batch => round["child"] + 1 \in 0 .. Batch - 1
      BY ControllerAssumption DEF Safe, Types
    <3>2. 0 \in 0 .. Batch - 1
      BY ControllerAssumption
    <3> QED BY <1>4, <3>1, <3>2 DEF Unlock, LastPrint, Safe, Types
  <2>4. Types'
    BY <2>1, <2>2, <2>3, WithinMoves DEF Safe, Types, Length, MainTurns
  <2>5. OneHolder' /\ Lives' /\ OneUse' /\ Quiet'
    BY <2>1, <2>2, WithinMoves DEF Safe, OneHolder, Lives, OneUse, Quiet, Pause, MainTurns
  <2>6. Calming'
    BY <2>1, <2>2, WithinMoves, CalmingStays DEF Safe
  <2> QED BY <2>1, <2>4, <2>5, <2>6, WithinMoves DEF Safe
<1> QED BY <1>1, <1>2, <1>3, <1>4

LEMMA ControllerKeeps ==
  ASSUME Safe, \/ ControllerPoll \/ AskWaiter \/ LookWaiter \/ LookNotify \/ PutBack \/ Answer
               \/ Lock("controller", "show") \/ Unlock("controller", "show", "answer")
  PROVE Safe'
<1> USE DEF Parts, LoopPlaces, PlacesOf
<1>1. CASE ControllerPoll
  <2>1. PICK q \in {"ask", "check"} :
          /\ Within("controller", "body", q)
          /\ q = "ask" => busUpdated
    BY <1>1 DEF ControllerPoll
  <2>2. busUpdated' = FALSE /\ UNCHANGED <<busAck, waiterUpdated, waiterAck, notify, round>>
    BY <1>1 DEF ControllerPoll, busVars, waiterVars
  <2>3. Types'
    BY <2>1, <2>2, WithinMoves DEF Safe, Types, Length, MainTurns
  <2>4. OneHolder' /\ Lives' /\ OneUse' /\ Quiet'
    BY <2>1, <2>2, WithinMoves DEF Safe, OneHolder, Lives, OneUse, Quiet, Pause, MainTurns
  <2>5. Calming'
    BY <2>1, <2>2, WithinMoves, CalmingController DEF Safe
  <2> QED BY <2>1, <2>3, <2>4, <2>5, WithinMoves DEF Safe
<1>2. CASE AskWaiter
  <2>1. Within("controller", "ask", "look")
    BY <1>2 DEF AskWaiter
  <2>2. waiterUpdated' = TRUE /\ UNCHANGED <<busUpdated, busAck, waiterAck, notify, round>>
    BY <1>2 DEF AskWaiter, busVars, waiterVars
  <2>3. Types'
    BY <2>1, <2>2, WithinMoves DEF Safe, Types, Length, MainTurns
  <2>4. OneHolder' /\ Lives' /\ OneUse' /\ Quiet'
    BY <2>1, <2>2, WithinMoves DEF Safe, OneHolder, Lives, OneUse, Quiet, Pause, MainTurns
  <2>5. Calming'
    <3>1. /\ thread["controller"] = "ask" /\ thread'["timer"] = thread["timer"]
          /\ UNCHANGED <<scheme, step, stopUpdated, turns, passed>>
      BY <2>1, WithinMoves
    <3> QED BY <2>2, <3>1, CalmingController DEF Safe
  <2> QED BY <2>1, <2>3, <2>4, <2>5, WithinMoves DEF Safe
<1>3. CASE LookWaiter
  <2>1. PICK q \in {"show", "answer"} :
          /\ Within("controller", "look", q)
    BY <1>3 DEF LookWaiter
  <2>2. waiterAck' = FALSE /\ UNCHANGED <<busUpdated, busAck, waiterUpdated, notify, round>>
    BY <1>3 DEF LookWaiter, busVars, waiterVars
  <2>3. Types'
    <3>1. q \in PlacesOf("controller") /\ q # "none"
      BY <2>1
    <3>2. /\ thread' \in [Parts -> UNION {PlacesOf(m) : m \in Parts}]
          /\ thread'["timer"] \in LoopPlaces \cup {"operate", "slept"}
          /\ thread'["child"] \in LoopPlaces \cup {"on", "print"}
          /\ thread'["controller"] \in
               LoopPlaces \cup {"ask", "look", "show", "print", "putBack", "answer"}
          /\ UNCHANGED <<stopUpdated, stopAck, gone, scheme, step, turns, passed, stripped,
                         aborted>>
      BY <2>1, <3>1, WithinMoves
    <3> QED BY <2>2, <3>2 DEF Safe, Types, Length, MainTurns
  <2>4. OneHolder' /\ Lives' /\ OneUse' /\ Quiet'
    BY <2>1, <2>2, WithinMoves DEF Safe, OneHolder, Lives, OneUse, Quiet, Pause, MainTurns
  <2>5. Calming'
    BY <2>1, <2>2, WithinMoves, CalmingController DEF Safe
  <2> QED BY <2>1, <2>3, <2>4, <2>5, WithinMoves DEF Safe
<1>4. CASE LookNotify
  <2>1. PICK q \in {"putBack", "answer"} :
          /\ Within("controller", "show", q)
          /\ scheme # "processor"
    BY <1>4 DEF LookNotify
  <2>2. notify' = FALSE /\ UNCHANGED <<busUpdated, busAck, waiterUpdated, waiterAck, round>>
    BY <1>4 DEF LookNotify, busVars, waiterVars
  <2>3. Types'
    <3>1. q \in PlacesOf("controller") /\ q # "none"
      BY <2>1
    <3>2. /\ thread' \in [Parts -> UNION {PlacesOf(m) : m \in Parts}]
          /\ thread'["timer"] \in LoopPlaces \cup {"operate", "slept"}
          /\ thread'["child"] \in LoopPlaces \cup {"on", "print"}
          /\ thread'["controller"] \in
               LoopPlaces \cup {"ask", "look", "show", "print", "putBack", "answer"}
          /\ UNCHANGED <<stopUpdated, stopAck, gone, scheme, step, turns, passed, stripped,
                         aborted>>
      BY <2>1, <3>1, WithinMoves
    <3> QED BY <2>2, <3>2 DEF Safe, Types, Length, MainTurns
  <2>4. OneHolder' /\ Lives' /\ OneUse' /\ Quiet'
    BY <2>1, <2>2, WithinMoves DEF Safe, OneHolder, Lives, OneUse, Quiet, Pause, MainTurns
  <2>5. Calming'
    BY <2>1, <2>2, WithinMoves, CalmingController DEF Safe
  <2> QED BY <2>1, <2>3, <2>4, <2>5, WithinMoves DEF Safe
<1>5. CASE PutBack
  <2>1. Within("controller", "putBack", "answer")
    BY <1>5 DEF PutBack
  <2>2. notify' = TRUE /\ UNCHANGED <<busUpdated, busAck, waiterUpdated, waiterAck, round>>
    BY <1>5 DEF PutBack, busVars, waiterVars
  <2>3. Types'
    BY <2>1, <2>2, WithinMoves DEF Safe, Types, Length, MainTurns
  <2>4. OneHolder' /\ Lives' /\ OneUse' /\ Quiet'
    BY <2>1, <2>2, WithinMoves DEF Safe, OneHolder, Lives, OneUse, Quiet, Pause, MainTurns
  <2>5. Calming'
    BY <2>1, <2>2, WithinMoves, CalmingController DEF Safe
  <2> QED BY <2>1, <2>3, <2>4, <2>5, WithinMoves DEF Safe
<1>6. CASE Answer
  <2>1. /\ Within("controller", "answer", "check")
        /\ ~MainTurns
    BY <1>6 DEF Answer, AnswerGiven
  <2>2. busAck' = TRUE /\ UNCHANGED <<busUpdated, waiterUpdated, waiterAck, notify, round>>
    BY <1>6 DEF Answer, AnswerGiven, busVars, waiterVars
  <2>3. Types'
    BY <2>1, <2>2, WithinMoves DEF Safe, Types, Length, MainTurns
  <2>4. OneHolder' /\ Lives' /\ OneUse' /\ Quiet'
    BY <2>1, <2>2, WithinMoves DEF Safe, OneHolder, Lives, OneUse, Quiet, Pause, MainTurns
  <2>5. Calming'
    BY <2>1, <2>2, WithinMoves, CalmingController DEF Safe
  <2> QED BY <2>1, <2>3, <2>4, <2>5, WithinMoves DEF Safe
<1>7. CASE Lock("controller", "show")
  <2>1. /\ Within("controller", "show", "print")
        /\ scheme = "processor"
        /\ notify
    BY <1>7 DEF Lock, FlagFree
  <2>2. notify' = FALSE /\ UNCHANGED <<busUpdated, busAck, waiterUpdated, waiterAck, round>>
    BY <1>7 DEF Lock, FlagFree, busVars, waiterVars
  <2>3. Types'
    BY <2>1, <2>2, WithinMoves DEF Safe, Types, Length, MainTurns
  <2>4. OneHolder' /\ Lives' /\ OneUse' /\ Quiet'
    BY <2>1, <2>2, WithinMoves DEF Safe, OneHolder, Lives, OneUse, Quiet, Pause, MainTurns
  <2>5. Calming'
    BY <2>1, <2>2, WithinMoves, CalmingController DEF Safe
  <2> QED BY <2>1, <2>3, <2>4, <2>5, WithinMoves DEF Safe
<1>8. CASE Unlock("controller", "show", "answer")
  <2>1. PICK q \in {"show", "answer"} : Within("controller", "print", q)
    BY <1>8 DEF Unlock
  <2>2. notify' = TRUE /\ UNCHANGED <<busUpdated, busAck, waiterUpdated, waiterAck>>
    BY <1>8 DEF Unlock, busVars, waiterVars
  <2>3. round' \in [{"child", "controller"} -> 0 .. Batch - 1]
    <3>1. round["controller"] + 1 # Batch => round["controller"] + 1 \in 0 .. Batch - 1
      BY ControllerAssumption DEF Safe, Types
    <3>2. 0 \in 0 .. Batch - 1
      BY ControllerAssumption
    <3> QED BY <1>8, <3>1, <3>2 DEF Unlock, LastPrint, Safe, Types
  <2>4. Types'
    BY <2>1, <2>2, <2>3, WithinMoves DEF Safe, Types, Length, MainTurns
  <2>5. OneHolder' /\ Lives' /\ OneUse' /\ Quiet'
    BY <2>1, <2>2, WithinMoves DEF Safe, OneHolder, Lives, OneUse, Quiet, Pause, MainTurns
  <2>6. Calming'
    BY <2>1, <2>2, WithinMoves, CalmingController DEF Safe
  <2> QED BY <2>1, <2>4, <2>5, <2>6, WithinMoves DEF Safe
<1> QED BY <1>1, <1>2, <1>3, <1>4, <1>5, <1>6, <1>7, <1>8

LEMMA LoopsKeep ==
  ASSUME Safe, NEW l \in Parts, LoopStep(l) PROVE Safe'
<1>1. UNCHANGED <<scheme, step, busUpdated, busAck, waiterUpdated, waiterAck, notify, round,
                  stripped, aborted>>
  BY DEF LoopStep, busVars, waiterVars
<1>2. PICK q \in {"body", "finish", "ended"} :
        /\ MoveTo(l, q) /\ thread[l] \in {"check", "finish"} /\ q # thread[l]
        /\ stopUpdated' \in SUBSET Parts
        /\ stopAck' = IF q = "ended" THEN stopAck \cup {l} ELSE stopAck
        /\ gone' = gone
        /\ turns' \in 0 .. PauseTurns /\ passed' \in SUBSET Parts
  <2>1. CASE KeepRunning(l) /\ CountTurn(l)
    <3>1. /\ MoveTo(l, "body") /\ thread[l] = "check"
          /\ stopUpdated' = stopUpdated /\ stopAck' = stopAck /\ gone' = gone
      BY <2>1 DEF KeepRunning
    <3>2. stopUpdated' \in SUBSET Parts
      BY <3>1 DEF Safe, Types
    <3>3. turns' \in 0 .. PauseTurns /\ passed' \in SUBSET Parts
      BY <1>1, <2>1, Counted DEF Safe
    <3> QED BY <3>1, <3>2, <3>3
  <2>2. CASE LeaveLoop(l) /\ UNCHANGED pauseVars
    <3>1. /\ MoveTo(l, "finish") /\ thread[l] = "check"
          /\ stopUpdated' = stopUpdated \ {l} /\ stopAck' = stopAck /\ gone' = gone
      BY <2>2 DEF LeaveLoop
    <3>2. stopUpdated' \in SUBSET Parts
      BY <3>1 DEF Safe, Types
    <3>3. turns' \in 0 .. PauseTurns /\ passed' \in SUBSET Parts
      BY <2>2 DEF Safe, Types, pauseVars
    <3> QED BY <3>1, <3>2, <3>3
  <2>3. CASE Finish(l) /\ UNCHANGED pauseVars
    BY <2>3 DEF Finish, Finished, Safe, Types, pauseVars
  <2> QED BY <2>1, <2>2, <2>3 DEF LoopStep
<1>3. /\ thread'[l] = q /\ \A m \in Parts \ {l} : thread'[m] = thread[m]
      /\ thread' \in [Parts -> UNION {PlacesOf(m) : m \in Parts}]
      /\ thread'["timer"] \in LoopPlaces \cup {"operate", "slept"}
      /\ thread'["child"] \in LoopPlaces \cup {"on", "print"}
      /\ thread'["controller"] \in
           LoopPlaces \cup {"ask", "look", "show", "print", "putBack", "answer"}
  <2>1. q \in PlacesOf(l)
    BY <1>2 DEF PlacesOf, LoopPlaces
  <2> QED BY <1>2, <2>1, Moved DEF Safe
<1>4. Types'
  BY <1>1, <1>2, <1>3 DEF Safe, Types, Length, MainTurns
<1>5. OneHolder' /\ Lives' /\ OneUse' /\ Quiet'
  BY <1>1, <1>2, <1>3 DEF Safe, OneHolder, Lives, OneUse, Quiet, Pause, MainTurns, Parts
<1>6. Acknowledged'
  BY <1>1, <1>2, <1>3 DEF Safe, Types, Acknowledged, MainTurns
<1>7. NeverPure'
  BY <1>1 DEF Safe, NeverPure
<1>8. Calming'
  <2>1. thread'[l] # thread[l]
    BY <1>2, <1>3
  <2> QED BY <1>3, <2>1, CalmingLoops DEF Safe
<1> QED BY <1>4, <1>5, <1>6, <1>7, <1>8 DEF Safe

\* A turn in the event loop example, from its beginning to its end.
LEMMA TurnsKeep ==
  ASSUME Safe, TakeTurn \/ EndTurn PROVE Safe'
<1> USE DEF LoopPlaces, PlacesOf, Parts
<1>1. PICK q \in {"ask", "none"} :
        /\ MoveTo("controller", q) /\ thread["controller"] \in {"none", "answer"}
        /\ MainTurns /\ step = 3
        /\ UNCHANGED <<stopUpdated, stopAck, gone, scheme, step, busUpdated, busAck, waiterUpdated,
                       waiterAck, notify, round, turns, passed, stripped, aborted>>
  <2>1. At("use") /\ MainTurns => step = 3
    BY EventLoopAt DEF Safe
  <2>2. thread["controller"] = "answer" /\ MainTurns => step = 3
    BY DEF Safe, Lives
  <2> QED BY <2>1, <2>2 DEF TakeTurn, EndTurn, Within, busVars, waiterVars, pauseVars
<1>2. /\ thread'["controller"] = q /\ \A m \in Parts \ {"controller"} : thread'[m] = thread[m]
      /\ thread' \in [Parts -> UNION {PlacesOf(m) : m \in Parts}]
      /\ thread'["timer"] \in LoopPlaces \cup {"operate", "slept"}
      /\ thread'["child"] \in LoopPlaces \cup {"on", "print"}
      /\ thread'["controller"] \in
           LoopPlaces \cup {"ask", "look", "show", "print", "putBack", "answer"}
  <2>1. q \in PlacesOf("controller")
    BY <1>1
  <2> QED BY <1>1, <2>1, Moved DEF Safe
<1>3. Types'
  BY <1>1, <1>2 DEF Safe, Types, Length, MainTurns
<1>4. OneHolder' /\ Lives' /\ OneUse' /\ Quiet'
  BY <1>1, <1>2 DEF Safe, OneHolder, Lives, OneUse, Quiet, Pause, MainTurns
<1>5. Calming'
  <2>1. step # Pause
    BY <1>1 DEF Pause
  <2> QED BY <1>1, <2>1 DEF Safe, Calming, Timed, Pause, MainTurns
<1>6. Acknowledged' /\ NeverPure'
  BY <1>1, <1>2 DEF Safe, Types, Acknowledged, NeverPure, MainTurns
<1> QED BY <1>3, <1>4, <1>5, <1>6 DEF Safe

\* Main goes one step on.
LEMMA Advanced ==
  ASSUME Types, NEW o, At(o), Advance
  PROVE step' = step + 1 /\ (scheme' = scheme => step' \in 1 .. Length' + 1)
<1>1. step <= Length
  BY EventLoopProgram, ControllerProgram DEF At, Length, MainTurns
<1> QED BY <1>1 DEF Types, Advance, Length, MainTurns

\* The pause begins with no turn counted, and is over when main goes on.
LEMMA CalmingAdvances ==
  ASSUME Types, Calming, UNCHANGED <<scheme, turns, passed>>, step' = step + 1,
         step' <= Pause => stopUpdated' = {}
  PROVE  Calming'
<1>1. Pause' = Pause /\ Timed' = Timed /\ MainTurns' = MainTurns
  BY DEF Pause, Timed, MainTurns
<1>2. step \in Int /\ Pause \in Int
  BY DEF Types, Length, Pause
<1>3. step' <= Pause => turns' = 0 /\ passed' = {}
  BY <1>2 DEF Calming
<1>4. turns' = 0 /\ passed' = {} => \A l : \A n \in 1 .. 4 : ~Begun(l, n)'
  BY DEF Begun
<1>5. step' = Pause => /\ ~Begun("controller", 1)' /\ ~Begun("controller", 2)'
                       /\ ~Begun("timer", 3)' /\ ~Begun("timer", 4)'
  BY <1>2, <1>3, <1>4
<1> QED BY <1>1, <1>2, <1>3, <1>5 DEF Calming

LEMMA MainKeeps ==
  ASSUME Safe, MainLifeCycle \/ Ask \/ AskAgain \/ StopAsking \/ Settle \/ Strip PROVE Safe'
<1> USE DEF loopVars, busVars, waiterVars, pauseVars
<1>1. CASE Ask
  <2>1. step = 4 /\ step' = 5 /\ ~MainTurns /\ step' \in 1 .. Length' + 1
    BY <1>1, EventLoopAt, ControllerAt, Advanced DEF Ask, Safe
  <2>2. /\ busUpdated' = TRUE
        /\ UNCHANGED <<thread, stopUpdated, stopAck, gone, scheme, busAck,
                       waiterUpdated, waiterAck, notify, round, turns, passed, stripped, aborted>>
    BY <1>1 DEF Ask
  <2>3. Types'
    BY <2>1, <2>2 DEF Safe, Types
  <2>4. Calming'
    BY <2>1, <2>2, CalmingAdvances DEF Safe, Calming, Types, Pause, MainTurns, Length
  <2> QED BY <2>1, <2>2, <2>3, <2>4 DEF Safe, OneHolder, Lives, OneUse, Quiet, Pause, Acknowledged,
                                NeverPure, MainTurns
<1>2. CASE AskAgain
  <2>1. step = IF MainTurns THEN 3 ELSE 5
    BY <1>2, EventLoopAt, ControllerAt DEF AskAgain, Safe
  <2>2. /\ busUpdated' = TRUE /\ busAck' = FALSE
        /\ UNCHANGED <<thread, stopUpdated, stopAck, gone, scheme,
                       waiterUpdated, waiterAck, notify, round, turns, passed, stripped,
                       aborted, step>>
    BY <1>2 DEF AskAgain
  <2>3. Types'
    BY <2>1, <2>2 DEF Safe, Types, Length, MainTurns
  <2>4. Calming'
    BY <2>1, <2>2 DEF Safe, Calming, Timed, Pause, MainTurns, Begun
  <2> QED BY <2>1, <2>2, <2>3, <2>4 DEF Safe, OneHolder, Lives, OneUse, Quiet, Pause, Acknowledged,
                                NeverPure, MainTurns
<1>3. CASE StopAsking
  <2>1. step = (IF MainTurns THEN 3 ELSE 5) /\ step' = step + 1 /\ step' \in 1 .. Length' + 1
    BY <1>3, EventLoopAt, ControllerAt, Advanced DEF StopAsking, Safe
  <2>2. /\ MainTurns => thread["controller"] = "none"
        /\ UNCHANGED <<thread, stopUpdated, stopAck, gone, scheme, busUpdated, busAck,
                    waiterUpdated, waiterAck, notify, round, turns, passed, stripped, aborted>>
    BY <1>3 DEF StopAsking, MainTurns
  <2>3. Types'
    BY <2>1, <2>2 DEF Safe, Types
  <2>4. Calming'
    BY <2>1, <2>2, CalmingAdvances DEF Safe, Calming, Types, Pause, MainTurns, Length
  <2> QED BY <2>1, <2>2, <2>3, <2>4 DEF Safe, OneHolder, Lives, OneUse, Quiet, Pause, Acknowledged,
                                NeverPure, MainTurns
<1>4. CASE Settle
  <2>1. step = (IF MainTurns THEN 4 ELSE 6) /\ step' = step + 1 /\ step' \in 1 .. Length' + 1
    BY <1>4, EventLoopAt, ControllerAt, Advanced DEF Settle, Safe
  <2>2. UNCHANGED <<thread, stopUpdated, stopAck, gone, scheme, busUpdated, busAck,
                    waiterUpdated, waiterAck, notify, round, turns, passed, stripped, aborted>>
    BY <1>4 DEF Settle
  <2>3. Types'
    BY <2>1, <2>2 DEF Safe, Types
  <2>4. Calming'
    BY <2>1, <2>2, CalmingAdvances DEF Safe, Pause, MainTurns
  <2>5. Quiet'
    <3>1. (Begun("timer", 4) /\ Begun("controller", 2)) \/ scheme = "ticks"
      BY <1>4, PauseAssumption DEF Settle, Begun, Safe, Types
    <3>2. step = Pause
      BY <2>1 DEF Pause
    <3>3. ASSUME scheme # "ticks"
          PROVE  /\ ~MainTurns =>
                      ~busUpdated /\ thread["controller"] \in {"check", "body"}
                 /\ ~waiterUpdated /\ thread["timer"] \in {"check", "body"}
      BY <3>1, <3>2, <3>3 DEF Safe, Calming
    <3> QED BY <2>2, <3>3 DEF Quiet, MainTurns
  <2> QED BY <2>1, <2>2, <2>3, <2>4, <2>5 DEF Safe, OneHolder, Lives, OneUse, Acknowledged,
                                            NeverPure, MainTurns
<1>5. CASE Strip
  <2>1. step = 9 /\ step' = 10 /\ step' \in 1 .. Length' + 1
    BY <1>5, EventLoopAt, ControllerAt, Advanced DEF Strip, Safe
  <2>2. /\ stripped' = TRUE
        /\ UNCHANGED <<thread, stopUpdated, stopAck, gone, scheme, busUpdated, busAck,
                       waiterUpdated, waiterAck, notify, round, turns, passed, aborted>>
    BY <1>5 DEF Strip
  <2>3. Types'
    BY <2>1, <2>2 DEF Safe, Types
  <2>4. Calming'
    BY <2>1, <2>2, CalmingAdvances DEF Safe, Pause, MainTurns
  <2> QED BY <2>1, <2>2, <2>3, <2>4 DEF Safe, OneHolder, Lives, OneUse, Quiet, Pause, Acknowledged,
                                NeverPure, MainTurns
<1>6. CASE MainLifeCycle
  <2>1. /\ Advance /\ UNCHANGED <<scheme, busUpdated, busAck, waiterUpdated, waiterAck, round,
                                  turns, passed, stripped, aborted>>
        /\ MainLoops
    BY <1>6 DEF MainLifeCycle
  <2>2. ~At("start") => notify' = notify
    BY <1>6 DEF MainLifeCycle, Safe, Types
  <2>3. CASE At("start") /\ Start(Part)
    <3>1. /\ Part \in Parts /\ step' = step + 1 /\ step' \in 1 .. Length' + 1
          /\ step \in IF MainTurns THEN {1, 2} ELSE {1, 2, 3}
          /\ MainTurns => Part = IF step = 1 THEN "timer" ELSE "child"
          /\ ~MainTurns => Part = IF step = 1 THEN "child"
                                  ELSE IF step = 2 THEN "timer" ELSE "controller"
      BY <2>1, <2>3, EventLoopAt, ControllerAt, Advanced DEF Safe, Parts
    <3>2. /\ MoveTo(Part, "check")
          /\ stopUpdated' = stopUpdated \ {Part} /\ stopAck' = stopAck /\ gone' = gone
      BY <2>3 DEF Start
    <3>3. /\ thread'[Part] = "check" /\ \A m \in Parts \ {Part} : thread'[m] = thread[m]
          /\ thread' \in [Parts -> UNION {PlacesOf(m) : m \in Parts}]
          /\ thread'["timer"] \in LoopPlaces \cup {"operate", "slept"}
          /\ thread'["child"] \in LoopPlaces \cup {"on", "print"}
          /\ thread'["controller"] \in
               LoopPlaces \cup {"ask", "look", "show", "print", "putBack", "answer"}
      <4>1. "check" \in PlacesOf(Part)
        BY DEF PlacesOf, LoopPlaces
      <4> QED BY <3>1, <3>2, <4>1, Moved DEF Safe
    <3>4. /\ notify' \in BOOLEAN
          /\ Part = "child" /\ scheme = "processor" => notify' = TRUE
          /\ ~(Part = "child" /\ scheme = "processor") => notify' = notify
      <4>1. notify' = (notify \/ (At("start") /\ Part = "child" /\ scheme = "processor"))
        BY <1>6 DEF MainLifeCycle
      <4>2. notify' \in BOOLEAN
        BY <4>1
      <4>3. ASSUME Part = "child" /\ scheme = "processor" PROVE notify' = TRUE
        BY <2>3, <4>1, <4>3
      <4>4. ASSUME ~(Part = "child" /\ scheme = "processor") PROVE notify' = notify
        <5>1. notify \in BOOLEAN
          BY DEF Safe, Types
        <5> QED BY <4>1, <4>4, <5>1
      <4> QED BY <4>2, <4>3, <4>4
    <3>5. Types'
      BY <2>1, <3>1, <3>2, <3>3, <3>4 DEF Safe, Types
    <3>6. Lives' /\ OneUse' /\ Quiet' /\ NeverPure'
      BY <2>1, <3>1, <3>3 DEF Safe, Lives, OneUse, Quiet, Pause, NeverPure, MainTurns, Parts
    <3>7. OneHolder'
      BY <2>1, <3>1, <3>3, <3>4 DEF Safe, OneHolder, Lives, MainTurns, Parts
    <3>8. Acknowledged'
      <4>1. thread[Part] = "none"
        BY <3>1 DEF Safe, Lives
      <4> QED BY <2>1, <3>1, <3>2, <3>3, <4>1 DEF Safe, Types, Acknowledged, MainTurns
    <3>9. Calming'
      <4>1. stopUpdated' = {} /\ step' < Pause
        BY <3>1, <3>2 DEF Safe, Calming, Pause
      <4> QED BY <2>1, <3>1, <4>1, CalmingAdvances DEF Safe
    <3> QED BY <3>5, <3>6, <3>7, <3>8, <3>9 DEF Safe
  <2>4. CASE At("request") /\ RequestStop(Part)
    <3>1. /\ Part \in Parts /\ step' = step + 1 /\ step' \in 1 .. Length' + 1
          /\ step \in IF MainTurns THEN {5, 7, 10, 12} ELSE {7, 10, 12, 14, 16, 18}
      BY <2>1, <2>4, EventLoopAt, ControllerAt, Advanced DEF Safe
    <3>2. notify' = notify
      <4>1. ~At("start")
        BY <2>4 DEF At
      <4> QED BY <2>2, <4>1
    <3>3. stopUpdated' = stopUpdated \cup {Part} /\ UNCHANGED <<thread, stopAck, gone>>
      BY <2>4 DEF RequestStop
    <3>4. Types'
      BY <2>1, <3>1, <3>2, <3>3 DEF Safe, Types
    <3>5. Calming'
      BY <2>1, <3>1, CalmingAdvances DEF Safe, Pause, MainTurns
    <3> QED BY <2>1, <3>1, <3>2, <3>3, <3>4, <3>5 DEF Safe, OneHolder, Lives, OneUse, Quiet, Pause,
                                   Acknowledged, NeverPure, MainTurns
  <2>5. CASE At("join") /\ Join(Part)
    <3>1. /\ step' = step + 1 /\ step' \in 1 .. Length' + 1
          /\ step \in IF MainTurns THEN {6, 11} ELSE {8, 11, 15}
          /\ ~MainTurns /\ step = 8 => Part = "controller"
      BY <2>1, <2>5, EventLoopAt, ControllerAt, Advanced DEF Safe
    <3>2. notify' = notify
      <4>1. ~At("start")
        BY <2>5 DEF At
      <4> QED BY <2>2, <4>1
    <3>3. thread[Part] = "ended" /\ UNCHANGED <<thread, stopUpdated, stopAck, gone>>
      BY <2>5 DEF Join
    <3>4. Types'
      BY <2>1, <3>1, <3>2, <3>3 DEF Safe, Types
    <3>5. Calming'
      BY <2>1, <3>1, CalmingAdvances DEF Safe, Pause, MainTurns
    <3> QED BY <2>1, <3>1, <3>2, <3>3, <3>4, <3>5 DEF Safe, OneHolder, Lives, OneUse, Quiet, Pause,
                                   Acknowledged, NeverPure, MainTurns
  <2>6. CASE At("await") /\ AwaitFinished(Part)
    <3>1. /\ Part \in Parts /\ step' = step + 1 /\ step' \in 1 .. Length' + 1
          /\ step \in IF MainTurns THEN {8, 13} ELSE {13, 17, 19}
      BY <2>1, <2>6, EventLoopAt, ControllerAt, Advanced DEF Safe
    <3>2. notify' = notify
      <4>1. ~At("start")
        BY <2>6 DEF At
      <4> QED BY <2>2, <4>1
    <3>3. Part \in stopAck /\ gone' = gone \cup {Part} /\ UNCHANGED <<thread, stopUpdated, stopAck>>
      BY <2>6 DEF AwaitFinished
    <3>4. Types'
      BY <2>1, <3>1, <3>2, <3>3 DEF Safe, Types
    <3>5. Calming'
      BY <2>1, <3>1, CalmingAdvances DEF Safe, Pause, MainTurns
    <3> QED BY <2>1, <3>1, <3>2, <3>3, <3>4, <3>5 DEF Safe, OneHolder, Lives, OneUse, Quiet, Pause,
                                   Acknowledged, NeverPure, MainTurns
  <2> QED BY <2>1, <2>3, <2>4, <2>5, <2>6 DEF MainLoops
<1> QED BY <1>1, <1>2, <1>3, <1>4, <1>5, <1>6

-----------------------------------------------------------------------------
(* The theorems.                                                           *)

LEMMA SafeHolds == Spec => []Safe
<1>1. Init => Safe
  <2> SUFFICES ASSUME Init PROVE Safe
    OBVIOUS
  <2>1. /\ thread = [l \in Parts |-> "none"] /\ stopUpdated = {} /\ stopAck = {} /\ gone = {}
        /\ step = 1 /\ scheme \in Schemes /\ stripped = FALSE /\ aborted = FALSE
        /\ busUpdated = FALSE /\ busAck = FALSE /\ waiterUpdated = FALSE /\ waiterAck = FALSE
        /\ turns = 0 /\ passed = {}
        /\ notify = FALSE /\ round = [l \in {"child", "controller"} |-> 0]
    BY DEF Init, LoopInit
  <2>2. "none" \in UNION {PlacesOf(l) : l \in Parts} /\ 0 \in 0 .. Batch - 1
    BY ControllerAssumption DEF PlacesOf, LoopPlaces, Parts
  <2>3. Types
    <3>1. thread \in [Parts -> UNION {PlacesOf(l) : l \in Parts}]
      BY <2>1, <2>2
    <3>2. round \in [{"child", "controller"} -> 0 .. Batch - 1]
      BY <2>1, <2>2
    <3>3. step \in 1 .. Length + 1
      BY <2>1 DEF Length
    <3>4. turns \in 0 .. PauseTurns
      BY <2>1, PauseAssumption
    <3> QED BY <2>1, <3>1, <3>2, <3>3, <3>4 DEF Types, LoopPlaces, Parts
  <2>4. Calming
    BY <2>1 DEF Calming, Timed, Pause
  <2> QED BY <2>1, <2>3, <2>4 DEF Safe, OneHolder, Lives, OneUse, Acknowledged, Quiet, Pause,
                                  NeverPure, MainTurns, Schemes, Parts
<1>2. Safe /\ [Next]_vars => Safe'
  <2> SUFFICES ASSUME Safe, [Next]_vars PROVE Safe'
    OBVIOUS
  <2>1. CASE UNCHANGED vars
    <3>1. Calming'
      BY <2>1, CalmingStays DEF Safe, vars, loopVars, busVars, waiterVars, pauseVars
    <3> QED BY <2>1, <3>1 DEF Safe, Types, OneHolder, Lives, OneUse, Acknowledged, Quiet, Pause,
                              NeverPure, Length, MainTurns, vars, loopVars, busVars, waiterVars,
                              pauseVars
  <2>2. CASE Timer
    BY <2>2, LoopsKeep, TimerKeeps DEF Timer, Parts
  <2>3. CASE Child
    BY <2>3, LoopsKeep, ChildKeeps DEF Child, Parts
  <2>4. CASE ControllerLoop
    BY <2>4, LoopsKeep, ControllerKeeps, TurnsKeep DEF ControllerLoop, Parts
  <2>5. CASE Main
    BY <2>5, TurnsKeep, MainKeeps DEF Main
  <2> QED BY <2>1, <2>2, <2>3, <2>4, <2>5 DEF Next, Terminated
<1> QED BY <1>1, <1>2, PTL DEF Spec

\* Every variable keeps its type: no thread is anywhere but at a place of its own loop, main
\* never runs past its program, and the prints of a go stay below the batch.
THEOREM TypeCorrect == Spec => []TypeOK
<1>1. Safe => TypeOK
  BY TypesAreTypes DEF Safe
<1> QED BY <1>1, SafeHolds, PTL

\* Child and controller never print at once and the flag they share is neither lost nor given
\* twice, for every number of prints in a go (Controller.cpp 53-63, 119-125).
THEOREM LockHeld == Spec => []Exclusive
<1>1. Safe => Exclusive
  BY ExclusiveIs DEF Safe, Types
<1> QED BY <1>1, SafeHolds, PTL

\* No loop is destroyed under its own running thread, nor a part the controller uses before
\* the controller's thread has ended, nor a SystemTimer that still has something to do.
THEOREM LoopsEndFirst == Spec => []EndedFirst
<1>1. Safe => EndedFirst
  <2> SUFFICES ASSUME Safe PROVE EndedFirst
    OBVIOUS
  <2>1. \A l \in gone : thread[l] = "ended"
    BY DEF Safe, Acknowledged
  <2>2. gone # {} => thread["controller"] \in {"none", "ended"}
    BY DEF Safe, Types, Acknowledged, Lives, Length, MainTurns
  <2>3. OwnOperator
    BY DEF Safe, NeverPure, OwnOperator
  <2> QED BY <2>1, <2>2, <2>3 DEF EndedFirst
<1> QED BY <1>1, SafeHolds, PTL

=============================================================================

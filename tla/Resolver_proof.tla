--------------------------- MODULE Resolver_proof ---------------------------
(* The command cells between the threads above the event loop, for every number of objects, *)
(* and the turns of an application that writes the one object the peer writes.              *)
EXTENDS Resolver, TLAPS

-----------------------------------------------------------------------------
(* Types.                                                                  *)

LEMMA TypeInitially == Init => TypeOK
<1> SUFFICES ASSUME Init PROVE TypeOK
  OBVIOUS
<1>1. pc \in Places
  BY DEF Init, Places, Threads
<1>2. owner \in [Ids -> {"self", "peer"}]
  BY DEF Init
<1>3. 0 \in Ids /\ NoId \in 0 .. NumIds
  BY ResolverAssumption DEF Ids, NoId
<1> QED BY <1>1, <1>2, <1>3 DEF Init, TypeOK

LEMMA TypeKept == TypeOK /\ [Next]_vars => TypeOK'
<1> SUFFICES ASSUME TypeOK, [Next]_vars PROVE TypeOK'
  OBVIOUS
<1>0. 0 \in Ids /\ (rid + 1 # NumIds => rid + 1 \in Ids)
  BY ResolverAssumption DEF TypeOK, Ids
<1> USE ResolverAssumption DEF TypeOK, Places, Written, At, Goto, Abort, linkVars,
     switchVars, resolverVars, endVars, startVars
<1>1. CASE UNCHANGED vars
  BY <1>1 DEF vars
<1>2. ASSUME NEW id \in Ids, Readlock(id) PROVE TypeOK'
  BY <1>2 DEF Readlock
<1>3. ASSUME NEW id \in Ids, Received(id) PROVE TypeOK'
  BY <1>3 DEF Received
<1>4. ASSUME NEW id \in Ids, Granted(id) PROVE TypeOK'
  BY <1>4 DEF Granted
<1>5. ASSUME NEW id \in Ids, Sent(id) PROVE TypeOK'
  BY <1>5 DEF Sent
<1>6. ASSUME Quiet PROVE TypeOK'
  BY <1>6 DEF Quiet
<1>7. ASSUME TriggerResolve PROVE TypeOK'
  BY <1>7 DEF TriggerResolve, Triggered
<1>8. ASSUME PollTrigger PROVE TypeOK'
  BY <1>0, <1>8 DEF PollTrigger
<1>9. ASSUME ResolveRead PROVE TypeOK'
  <2>1. rid \in 0 .. NumIds
    BY DEF Ids
  <2> QED BY <1>9, <2>1 DEF ResolveRead
<1>10. ASSUME ResolveWrite PROVE TypeOK'
  BY <1>0, <1>10 DEF ResolveWrite, IsLast, WriteEnded
<1>11. ASSUME TakeReadEnd PROVE TypeOK'
  BY <1>11 DEF TakeReadEnd
<1>12. ASSUME TellReadEnd PROVE TypeOK'
  BY <1>12 DEF TellReadEnd
<1>13. ASSUME PollWriteStart PROVE TypeOK'
  BY <1>13 DEF PollWriteStart, WriteStartTaken
<1>14. ASSUME AcceptWrite PROVE TypeOK'
  BY <1>14 DEF AcceptWrite
<1>15. ASSUME AcknowledgeWrite PROVE TypeOK'
  BY <1>15 DEF AcknowledgeWrite
<1>16. ASSUME PollReadEnd PROVE TypeOK'
  BY <1>16 DEF PollReadEnd
<1>17. ASSUME LoadReadEnd PROVE TypeOK'
  BY <1>17 DEF LoadReadEnd
<1>18. ASSUME AcknowledgeReadEnd PROVE TypeOK'
  BY <1>18 DEF AcknowledgeReadEnd, Acknowledged
<1>19. ASSUME ReadEvent PROVE TypeOK'
  BY <1>19 DEF ReadEvent, EventTaken
<1>20. ASSUME NEW t \in {"main", "rest"}, TakeWriteStart(t) PROVE TypeOK'
  BY <1>20 DEF TakeWriteStart
<1>21. ASSUME NEW t \in {"main", "rest"}, PostWriteStart(t) PROVE TypeOK'
  BY <1>21 DEF PostWriteStart
<1>22. ASSUME NEW t \in {"resolver", "rest"}, Leave(t) PROVE TypeOK'
  BY <1>22 DEF Leave
<1>23. ASSUME Delete PROVE TypeOK'
  BY <1>23 DEF Delete, Stop, Joins
<1>24. ASSUME JoinFirst PROVE TypeOK'
  BY <1>24 DEF JoinFirst, Stop, Joins
<1>25. ASSUME JoinSecond PROVE TypeOK'
  BY <1>25 DEF JoinSecond, Joins
<1> QED
  BY <1>1, <1>2, <1>3, <1>4, <1>5, <1>6, <1>7, <1>8, <1>9, <1>10, <1>11, <1>12, <1>13, <1>14,
     <1>15, <1>16, <1>17, <1>18, <1>19, <1>20, <1>21, <1>22, <1>23, <1>24, <1>25 DEF Next,
     EventLoop, ResolverThread, RestThread, Main

\* Every id, flag and place stays within what NUM_IDS and the code allow for.
THEOREM TypeCorrect == Spec => []TypeOK
<1> QED BY TypeInitially, TypeKept, PTL DEF Spec

-----------------------------------------------------------------------------
(* The two commands.                                                       *)

WriteStartOnce ==
  \E p \in DOMAIN WriteStartAt : \A q \in DOMAIN WriteStartAt : WriteStartAt[q] <=> q = p

ReadEndOnce == \E p \in DOMAIN ReadEndAt : \A q \in DOMAIN ReadEndAt : ReadEndAt[q] <=> q = p

\* The write-start command goes from free over a writer to signalled, the resolver, and free.
LEMMA WriteStartKept == ASSUME TypeOK, WriteStartOnce, [Next]_vars PROVE WriteStartOnce'
<1> USE DEF TypeOK, Places, At, Goto, Abort, linkVars, switchVars, resolverVars, endVars,
     startVars, WriteStartOnce, WriteStartAt
<1>1. CASE UNCHANGED vars
  BY <1>1 DEF vars
<1>2. ASSUME NEW id \in Ids, Readlock(id) PROVE WriteStartOnce'
  BY <1>2 DEF Readlock
<1>3. ASSUME NEW id \in Ids, Received(id) PROVE WriteStartOnce'
  BY <1>3 DEF Received
<1>4. ASSUME NEW id \in Ids, Granted(id) PROVE WriteStartOnce'
  BY <1>4 DEF Granted
<1>5. ASSUME NEW id \in Ids, Sent(id) PROVE WriteStartOnce'
  BY <1>5 DEF Sent
<1>6. ASSUME Quiet PROVE WriteStartOnce'
  BY <1>6 DEF Quiet
<1>7. ASSUME TriggerResolve PROVE WriteStartOnce'
  BY <1>7 DEF TriggerResolve, Triggered
<1>8. ASSUME PollTrigger PROVE WriteStartOnce'
  BY <1>8 DEF PollTrigger
<1>9. ASSUME ResolveRead PROVE WriteStartOnce'
  BY <1>9 DEF ResolveRead
<1>10. ASSUME ResolveWrite PROVE WriteStartOnce'
  BY <1>10 DEF ResolveWrite, IsLast, WriteEnded
<1>11. ASSUME TakeReadEnd PROVE WriteStartOnce'
  BY <1>11 DEF TakeReadEnd
<1>12. ASSUME TellReadEnd PROVE WriteStartOnce'
  BY <1>12 DEF TellReadEnd
<1>13. ASSUME PollWriteStart PROVE WriteStartOnce'
  BY <1>13 DEF PollWriteStart, WriteStartTaken
<1>14. ASSUME AcceptWrite PROVE WriteStartOnce'
  BY <1>14 DEF AcceptWrite
<1>15. ASSUME AcknowledgeWrite PROVE WriteStartOnce'
  BY <1>15 DEF AcknowledgeWrite
<1>16. ASSUME PollReadEnd PROVE WriteStartOnce'
  BY <1>16 DEF PollReadEnd
<1>17. ASSUME LoadReadEnd PROVE WriteStartOnce'
  BY <1>17 DEF LoadReadEnd
<1>18. ASSUME AcknowledgeReadEnd PROVE WriteStartOnce'
  BY <1>18 DEF AcknowledgeReadEnd, Acknowledged
<1>19. ASSUME ReadEvent PROVE WriteStartOnce'
  BY <1>19 DEF ReadEvent, EventTaken
<1>20. ASSUME NEW t \in {"main", "rest"}, TakeWriteStart(t) PROVE WriteStartOnce'
  <2>1. CASE t = "main"
    <3>1. WriteStartAt["free"] /\ "main" \in DOMAIN WriteStartAt' /\ WriteStartAt'["main"]
      BY <1>20, <2>1 DEF TakeWriteStart
    <3>2. \A q \in DOMAIN WriteStartAt' \ {"main"} : ~WriteStartAt'[q]
      BY <1>20, <2>1 DEF TakeWriteStart
    <3> QED BY <3>1, <3>2
  <2>2. CASE t = "rest"
    <3>1. WriteStartAt["free"] /\ "rest" \in DOMAIN WriteStartAt' /\ WriteStartAt'["rest"]
      BY <1>20, <2>2 DEF TakeWriteStart
    <3>2. \A q \in DOMAIN WriteStartAt' \ {"rest"} : ~WriteStartAt'[q]
      BY <1>20, <2>2 DEF TakeWriteStart
    <3> QED BY <3>1, <3>2
  <2> QED BY <2>1, <2>2
<1>21. ASSUME NEW t \in {"main", "rest"}, PostWriteStart(t) PROVE WriteStartOnce'
  <2>1. CASE t = "main"
    BY <1>21, <2>1 DEF PostWriteStart
  <2>2. CASE t = "rest"
    BY <1>21, <2>2 DEF PostWriteStart
  <2> QED BY <2>1, <2>2
<1>22. ASSUME NEW t \in {"resolver", "rest"}, Leave(t) PROVE WriteStartOnce'
  BY <1>22 DEF Leave
<1>23. ASSUME Delete PROVE WriteStartOnce'
  BY <1>23 DEF Delete, Stop, Joins
<1>24. ASSUME JoinFirst PROVE WriteStartOnce'
  BY <1>24 DEF JoinFirst, Stop, Joins
<1>25. ASSUME JoinSecond PROVE WriteStartOnce'
  BY <1>25 DEF JoinSecond, Joins
<1> QED
  BY <1>1, <1>2, <1>3, <1>4, <1>5, <1>6, <1>7, <1>8, <1>9, <1>10, <1>11, <1>12, <1>13, <1>14,
     <1>15, <1>16, <1>17, <1>18, <1>19, <1>20, <1>21, <1>22, <1>23, <1>24, <1>25 DEF Next,
     EventLoop, ResolverThread, RestThread, Main

\* The read-end command goes from free to the resolver, signalled, the REST thread, and free.
LEMMA ReadEndKept == ASSUME TypeOK, ReadEndOnce, [Next]_vars PROVE ReadEndOnce'
<1> USE DEF TypeOK, Places, At, Goto, Abort, linkVars, switchVars, resolverVars, endVars,
     startVars, ReadEndOnce, ReadEndAt
<1>1. CASE UNCHANGED vars
  BY <1>1 DEF vars
<1>2. ASSUME NEW id \in Ids, Readlock(id) PROVE ReadEndOnce'
  BY <1>2 DEF Readlock
<1>3. ASSUME NEW id \in Ids, Received(id) PROVE ReadEndOnce'
  BY <1>3 DEF Received
<1>4. ASSUME NEW id \in Ids, Granted(id) PROVE ReadEndOnce'
  BY <1>4 DEF Granted
<1>5. ASSUME NEW id \in Ids, Sent(id) PROVE ReadEndOnce'
  BY <1>5 DEF Sent
<1>6. ASSUME Quiet PROVE ReadEndOnce'
  BY <1>6 DEF Quiet
<1>7. ASSUME TriggerResolve PROVE ReadEndOnce'
  BY <1>7 DEF TriggerResolve, Triggered
<1>8. ASSUME PollTrigger PROVE ReadEndOnce'
  BY <1>8 DEF PollTrigger
<1>9. ASSUME ResolveRead PROVE ReadEndOnce'
  BY <1>9 DEF ResolveRead
<1>10. ASSUME ResolveWrite PROVE ReadEndOnce'
  BY <1>10 DEF ResolveWrite, IsLast, WriteEnded
<1>11. ASSUME TakeReadEnd PROVE ReadEndOnce'
  BY <1>11 DEF TakeReadEnd
<1>12. ASSUME TellReadEnd PROVE ReadEndOnce'
  BY <1>12 DEF TellReadEnd
<1>13. ASSUME PollWriteStart PROVE ReadEndOnce'
  BY <1>13 DEF PollWriteStart, WriteStartTaken
<1>14. ASSUME AcceptWrite PROVE ReadEndOnce'
  BY <1>14 DEF AcceptWrite
<1>15. ASSUME AcknowledgeWrite PROVE ReadEndOnce'
  BY <1>15 DEF AcknowledgeWrite
<1>16. ASSUME PollReadEnd PROVE ReadEndOnce'
  BY <1>16 DEF PollReadEnd
<1>17. ASSUME LoadReadEnd PROVE ReadEndOnce'
  BY <1>17 DEF LoadReadEnd
<1>18. ASSUME AcknowledgeReadEnd PROVE ReadEndOnce'
  BY <1>18 DEF AcknowledgeReadEnd, Acknowledged
<1>19. ASSUME ReadEvent PROVE ReadEndOnce'
  BY <1>19 DEF ReadEvent, EventTaken
<1>20. ASSUME NEW t \in {"main", "rest"}, TakeWriteStart(t) PROVE ReadEndOnce'
  BY <1>20 DEF TakeWriteStart
<1>21. ASSUME NEW t \in {"main", "rest"}, PostWriteStart(t) PROVE ReadEndOnce'
  BY <1>21 DEF PostWriteStart
<1>22. ASSUME NEW t \in {"resolver", "rest"}, Leave(t) PROVE ReadEndOnce'
  BY <1>22 DEF Leave
<1>23. ASSUME Delete PROVE ReadEndOnce'
  BY <1>23 DEF Delete, Stop, Joins
<1>24. ASSUME JoinFirst PROVE ReadEndOnce'
  BY <1>24 DEF JoinFirst, Stop, Joins
<1>25. ASSUME JoinSecond PROVE ReadEndOnce'
  BY <1>25 DEF JoinSecond, Joins
<1> QED
  BY <1>1, <1>2, <1>3, <1>4, <1>5, <1>6, <1>7, <1>8, <1>9, <1>10, <1>11, <1>12, <1>13, <1>14,
     <1>15, <1>16, <1>17, <1>18, <1>19, <1>20, <1>21, <1>22, <1>23, <1>24, <1>25 DEF Next,
     EventLoop, ResolverThread, RestThread, Main

\* No command is lost, doubled or overwritten, whoever issues it when, for any number of
\* objects and whatever the peer writes.
THEOREM CommandsKept == Spec => []CommandsOnce
<1>1. Init => WriteStartOnce /\ ReadEndOnce
  <2> SUFFICES ASSUME Init PROVE WriteStartOnce /\ ReadEndOnce
    OBVIOUS
  <2>1. /\ writeStartAck = TRUE /\ writeStartUpdated = FALSE
        /\ readEndAck = TRUE /\ readEndUpdated = FALSE
        /\ pc["main"] # "post" /\ pc["rest"] = "top" /\ pc["resolver"] = "top"
    BY DEF Init, Threads
  <2>t. TypeOK
    BY TypeInitially
  <2>2. WriteStartOnce
    <3>1. "free" \in DOMAIN WriteStartAt /\ WriteStartAt["free"]
      BY <2>1 DEF WriteStartAt
    <3>2. DOMAIN WriteStartAt = {"free", "posted", "main", "rest", "resolver"}
      BY DEF WriteStartAt
    <3>3. \A q \in {"posted", "main", "rest", "resolver"} : ~WriteStartAt[q]
      BY <2>1, <2>t DEF WriteStartAt, TypeOK, Places
    <3> QED BY <3>1, <3>2, <3>3 DEF WriteStartOnce
  <2>3. ReadEndOnce
    <3>1. "free" \in DOMAIN ReadEndAt /\ ReadEndAt["free"]
      BY <2>1 DEF ReadEndAt
    <3>2. DOMAIN ReadEndAt = {"free", "posted", "resolver", "rest"}
      BY DEF ReadEndAt
    <3>3. \A q \in {"posted", "resolver", "rest"} : ~ReadEndAt[q]
      BY <2>1, <2>t DEF ReadEndAt, TypeOK, Places
    <3> QED BY <3>1, <3>2, <3>3 DEF ReadEndOnce
  <2> QED BY <2>2, <2>3
<1>2. TypeOK /\ (WriteStartOnce /\ ReadEndOnce) /\ [Next]_vars => (WriteStartOnce /\ ReadEndOnce)'
  BY WriteStartKept, ReadEndKept
<1>3. WriteStartOnce /\ ReadEndOnce => CommandsOnce
  BY DEF WriteStartOnce, ReadEndOnce, CommandsOnce
<1> QED BY <1>1, <1>2, <1>3, TypeCorrect, PTL DEF Spec

-----------------------------------------------------------------------------
(* The right to write.                                                     *)

Where == {"peer", "received", "queued", "told", "loaded", "ready", "rest", "main", "posted",
          "accepted", "requested", "transferred"}

RightOnce == \E p \in Where : \A q \in Where : RightAt[q] <=> q = p

LEMMA RightDomain == DOMAIN RightAt = Where
BY DEF RightAt, Where

LEMMA Apart ==
  ASSUME RightOnce PROVE \A p, q \in Where : RightAt[p] /\ RightAt[q] => p = q
BY DEF RightOnce

\* A step leaves the right where it is, or moves it from p to q.
Stays == \A r \in Where : RightAt'[r] <=> RightAt[r]
Moves(p, q) ==
  RightAt[p] /\ ~RightAt'[p] /\ RightAt'[q] /\ \A r \in Where \ {p, q} : RightAt'[r] <=> RightAt[r]

LEMMA StaysOnce == ASSUME RightOnce, Stays PROVE RightOnce'
BY DEF RightOnce, Stays

LEMMA MovesOnce ==
  ASSUME RightOnce, NEW p \in Where, NEW q \in Where, Moves(p, q) PROVE RightOnce'
<1>1. \A r \in Where : RightAt[r] <=> r = p
  BY DEF RightOnce, Moves
<1>2. \A r \in Where : RightAt'[r] <=> r = q
  BY <1>1 DEF Moves
<1> QED BY <1>2 DEF RightOnce

\* Object 0 is the only one any flag or cell speaks of, and no request of it has failed.
OnlyWritten ==
  /\ reading \subseteq {Written} /\ transfer \subseteq {Written} /\ syncMe \subseteq {Written}
  /\ readAck \subseteq {Written} /\ ready \subseteq {Written} /\ pending \subseteq {Written}
  /\ writeAck \subseteq {Written} /\ writeFault = {}
  /\ queued \/ readEndUpdated \/ pc["rest"] = "load" => readEndId = Written
  /\ writeStartUpdated \/ pc["resolver"] = "accept" => writeStartId = Written

\* The end of a write is resolved, in the same round at the latest, with the read behind it.
Timely ==
  /\ reading # {} => owner[Written] = "peer"
  /\ pc["resolver"] = "tell" => queued
  /\ pending # {} => syncMe \cup transfer \cup writeAck # {}
  /\ writeAck # {} =>
       \/ owner[Written] = "peer" \/ readAck # {}
       \/ queued /\ pc["resolver"] = "resolveWrite" /\ rid = Written

TurnInv == TypeOK /\ NoAbort /\ OnlyWritten /\ Timely /\ RightOnce

LEMMA TurnInitially == ASSUME PeerIds \subseteq {Written} PROVE Init => TurnInv
<1> SUFFICES ASSUME Init PROVE TurnInv
  OBVIOUS
<1>1. Written \in Ids
  BY ResolverAssumption DEF Ids, Written
<1>2. PICK first \in {"self", "peer"} :
        /\ owner = [j \in Ids |-> IF j = Written THEN first ELSE "peer"]
        /\ pc = [t \in Threads |-> CASE t = "loop" -> "read"
                                     [] t = "main" -> IF first = "self" THEN "write" ELSE "built"
                                     [] OTHER -> "top"]
  BY DEF Init
<1>3. /\ owner[Written] = first /\ pc["rest"] = "top" /\ pc["resolver"] = "top"
      /\ pc["main"] = IF first = "self" THEN "write" ELSE "built"
      /\ reading = {} /\ transfer = {} /\ syncMe = {} /\ readAck = {} /\ ready = {}
      /\ queued = FALSE /\ readEndUpdated = FALSE /\ writeStartUpdated = FALSE
  BY <1>1, <1>2 DEF Init, Threads
<1>5. TypeOK
  BY TypeInitially
<1>4. RightOnce
  <2>1. CASE first = "peer"
    <3>1. RightAt["peer"]
      BY <1>3, <2>1 DEF RightAt
    <3>2. \A q \in Where \ {"peer"} : ~RightAt[q]
      BY <1>3, <1>5, <2>1 DEF RightAt, Where, TypeOK, Places
    <3> QED BY <3>1, <3>2 DEF RightOnce, Where
  <2>2. CASE first = "self"
    <3>1. RightAt["main"]
      BY <1>3, <2>2 DEF RightAt
    <3>2. \A q \in Where \ {"main"} : ~RightAt[q]
      BY <1>3, <1>5, <2>2 DEF RightAt, Where, TypeOK, Places
    <3> QED BY <3>1, <3>2 DEF RightOnce, Where
  <2> QED BY <2>1, <2>2
<1> QED BY <1>3, <1>4, <1>5 DEF Init, TurnInv, NoAbort, OnlyWritten, Timely

\* Where the right is says what else is not under way; nothing fails.
LEMMA TimelyKept ==
  ASSUME PeerIds \subseteq {Written}, TurnInv, [Next]_vars
  PROVE (NoAbort /\ OnlyWritten /\ Timely)'
<1>0. \A p, q \in Where : RightAt[p] /\ RightAt[q] => p = q
  BY Apart DEF TurnInv
<1>w. Written \in Ids
  BY ResolverAssumption DEF Ids, Written
<1> USE <1>w DEF TurnInv, TypeOK, Places, At, Goto, Abort, linkVars, switchVars,
     resolverVars, endVars, startVars, NoAbort, OnlyWritten, Timely
<1>1. CASE UNCHANGED vars
  BY <1>1 DEF vars
<1>2. ASSUME NEW id \in Ids, Readlock(id) PROVE (NoAbort /\ OnlyWritten /\ Timely)'
  <2>1. id = Written /\ RightAt["peer"]
    BY <1>2 DEF Readlock, RightAt
  <2>2. ~RightAt["requested"]
    BY <1>0, <2>1 DEF Where
  <2>3. id \notin syncMe
    BY <2>1, <2>2 DEF RightAt
  <2> QED BY <1>2, <2>1, <2>3 DEF Readlock
<1>3. ASSUME NEW id \in Ids, Received(id) PROVE (NoAbort /\ OnlyWritten /\ Timely)'
  BY <1>3 DEF Received
<1>4. ASSUME NEW id \in Ids, Granted(id) PROVE (NoAbort /\ OnlyWritten /\ Timely)'
  BY <1>4 DEF Granted
<1>5. ASSUME NEW id \in Ids, Sent(id) PROVE (NoAbort /\ OnlyWritten /\ Timely)'
  BY <1>5 DEF Sent
<1>6. ASSUME Quiet PROVE (NoAbort /\ OnlyWritten /\ Timely)'
  BY <1>6 DEF Quiet
<1>7. ASSUME TriggerResolve PROVE (NoAbort /\ OnlyWritten /\ Timely)'
  BY <1>7 DEF TriggerResolve, Triggered
<1>8. ASSUME PollTrigger PROVE (NoAbort /\ OnlyWritten /\ Timely)'
  BY <1>8 DEF PollTrigger
<1>9. ASSUME ResolveRead PROVE (NoAbort /\ OnlyWritten /\ Timely)'
  BY <1>9 DEF ResolveRead
<1>10. ASSUME ResolveWrite PROVE (NoAbort /\ OnlyWritten /\ Timely)'
  <2>1. CASE rid = Written
    BY <1>10, <2>1 DEF ResolveWrite, IsLast, WriteEnded
  <2>2. CASE rid # Written
    BY <1>10, <2>2 DEF ResolveWrite, IsLast, WriteEnded
  <2> QED BY <2>1, <2>2
<1>11. ASSUME TakeReadEnd PROVE (NoAbort /\ OnlyWritten /\ Timely)'
  BY <1>11 DEF TakeReadEnd
<1>12. ASSUME TellReadEnd PROVE (NoAbort /\ OnlyWritten /\ Timely)'
  BY <1>12 DEF TellReadEnd
<1>13. ASSUME PollWriteStart PROVE (NoAbort /\ OnlyWritten /\ Timely)'
  BY <1>13 DEF PollWriteStart, WriteStartTaken
<1>14. ASSUME AcceptWrite PROVE (NoAbort /\ OnlyWritten /\ Timely)'
  <2>1. RightAt["accepted"]
    BY <1>14 DEF AcceptWrite, RightAt
  <2>2. ~RightAt["requested"] /\ ~RightAt["transferred"] /\ ~RightAt["peer"]
          /\ ~RightAt["received"] /\ ~RightAt["queued"]
    BY <1>0, <2>1 DEF Where
  <2>3. pending = {}
    BY <2>2 DEF RightAt
  <2> QED BY <1>14, <2>3 DEF AcceptWrite
<1>15. ASSUME AcknowledgeWrite PROVE (NoAbort /\ OnlyWritten /\ Timely)'
  BY <1>15 DEF AcknowledgeWrite
<1>16. ASSUME PollReadEnd PROVE (NoAbort /\ OnlyWritten /\ Timely)'
  BY <1>16 DEF PollReadEnd
<1>17. ASSUME LoadReadEnd PROVE (NoAbort /\ OnlyWritten /\ Timely)'
  BY <1>17 DEF LoadReadEnd
<1>18. ASSUME AcknowledgeReadEnd PROVE (NoAbort /\ OnlyWritten /\ Timely)'
  BY <1>18 DEF AcknowledgeReadEnd, Acknowledged
<1>19. ASSUME ReadEvent PROVE (NoAbort /\ OnlyWritten /\ Timely)'
  BY <1>19 DEF ReadEvent, EventTaken
<1>20. ASSUME NEW t \in {"main", "rest"},
     TakeWriteStart(t) PROVE (NoAbort /\ OnlyWritten /\ Timely)'
  BY <1>20 DEF TakeWriteStart
<1>21. ASSUME NEW t \in {"main", "rest"},
     PostWriteStart(t) PROVE (NoAbort /\ OnlyWritten /\ Timely)'
  BY <1>21 DEF PostWriteStart
<1>22. ASSUME NEW t \in {"resolver", "rest"}, Leave(t) PROVE (NoAbort /\ OnlyWritten /\ Timely)'
  BY <1>22 DEF Leave
<1>23. ASSUME Delete PROVE (NoAbort /\ OnlyWritten /\ Timely)'
  BY <1>23 DEF Delete, Stop, Joins
<1>24. ASSUME JoinFirst PROVE (NoAbort /\ OnlyWritten /\ Timely)'
  BY <1>24 DEF JoinFirst, Stop, Joins
<1>25. ASSUME JoinSecond PROVE (NoAbort /\ OnlyWritten /\ Timely)'
  BY <1>25 DEF JoinSecond, Joins
<1> QED
  BY <1>1, <1>2, <1>3, <1>4, <1>5, <1>6, <1>7, <1>8, <1>9, <1>10, <1>11, <1>12, <1>13, <1>14,
     <1>15, <1>16, <1>17, <1>18, <1>19, <1>20, <1>21, <1>22, <1>23, <1>24, <1>25 DEF Next,
     EventLoop, ResolverThread, RestThread, Main

\* Every step of every thread leaves the right in its place or moves it on to the next.
LEMMA RightKept == ASSUME PeerIds \subseteq {Written}, TurnInv, [Next]_vars PROVE RightOnce'
<1>0. \A p, q \in Where : RightAt[p] /\ RightAt[q] => p = q
  BY Apart DEF TurnInv
<1>w. Written \in Ids
  BY ResolverAssumption DEF Ids, Written
<1> USE <1>w DEF TurnInv, TypeOK, Places, At, Goto, Abort, linkVars, switchVars,
     resolverVars, endVars, startVars, NoAbort, OnlyWritten, Timely
<1>1. CASE UNCHANGED vars
  BY <1>1, StaysOnce DEF vars, Stays, RightAt
<1>2. ASSUME NEW id \in Ids, Readlock(id) PROVE RightOnce'
  <2>1. id = Written /\ RightAt["peer"]
    BY <1>2 DEF Readlock, RightAt
  <2>2. ~RightAt["requested"]
    BY <1>0, <2>1 DEF Where
  <2>3. syncMe' = syncMe
    BY <1>2, <2>1, <2>2 DEF Readlock, RightAt
  <2>4. Stays
    BY <1>2, <2>3 DEF Readlock, Stays, RightAt, Where
  <2> QED BY <2>4, StaysOnce
<1>3. ASSUME NEW id \in Ids, Received(id) PROVE RightOnce'
  <2>1. Moves("peer", "received")
    <3>1. RightAt["peer"] /\ ~RightAt'["peer"] /\ RightAt'["received"]
      BY <1>3 DEF Received, RightAt
    <3>2. \A r \in Where \ {"peer", "received"} : RightAt'[r] <=> RightAt[r]
      BY <1>3 DEF Received, RightAt, Where
    <3> QED BY <3>1, <3>2 DEF Moves
  <2> QED BY <2>1, MovesOnce DEF Where
<1>4. ASSUME NEW id \in Ids, Granted(id) PROVE RightOnce'
  <2>1. Moves("requested", "transferred")
    <3>1. RightAt["requested"] /\ ~RightAt'["requested"] /\ RightAt'["transferred"]
      BY <1>4 DEF Granted, RightAt
    <3>2. \A r \in Where \ {"requested", "transferred"} : RightAt'[r] <=> RightAt[r]
      BY <1>4 DEF Granted, RightAt, Where
    <3> QED BY <3>1, <3>2 DEF Moves
  <2> QED BY <2>1, MovesOnce DEF Where
<1>5. ASSUME NEW id \in Ids, Sent(id) PROVE RightOnce'
  <2>1. Moves("transferred", "peer")
    <3>1. RightAt["transferred"] /\ ~RightAt'["transferred"] /\ RightAt'["peer"]
      BY <1>5 DEF Sent, RightAt
    <3>2. \A r \in Where \ {"transferred", "peer"} : RightAt'[r] <=> RightAt[r]
      BY <1>5 DEF Sent, RightAt, Where
    <3> QED BY <3>1, <3>2 DEF Moves
  <2> QED BY <2>1, MovesOnce DEF Where
<1>6. ASSUME Quiet PROVE RightOnce'
  BY <1>6, StaysOnce DEF Quiet, Stays, RightAt, Where
<1>7. ASSUME TriggerResolve PROVE RightOnce'
  BY <1>7, StaysOnce DEF TriggerResolve, Triggered, Stays, RightAt, Where
<1>8. ASSUME PollTrigger PROVE RightOnce'
  BY <1>8, StaysOnce DEF PollTrigger, Stays, RightAt, Where
<1>9. ASSUME ResolveRead PROVE RightOnce'
  <2>1. CASE rid \in readAck
    <3>1. Moves("received", "queued")
      <4>1. RightAt["received"] /\ ~RightAt'["received"] /\ RightAt'["queued"]
        BY <1>9, <2>1 DEF ResolveRead, RightAt
      <4>2. \A r \in Where \ {"received", "queued"} : RightAt'[r] <=> RightAt[r]
        BY <1>9, <2>1 DEF ResolveRead, RightAt, Where
      <4> QED BY <4>1, <4>2 DEF Moves
    <3> QED BY <3>1, MovesOnce DEF Where
  <2>2. CASE rid \notin readAck
    BY <1>9, <2>2, StaysOnce DEF ResolveRead, Stays, RightAt, Where
  <2> QED BY <2>1, <2>2
<1>10. ASSUME ResolveWrite PROVE RightOnce'
  BY <1>10, StaysOnce DEF ResolveWrite, IsLast, WriteEnded, Stays, RightAt, Where
<1>11. ASSUME TakeReadEnd PROVE RightOnce'
  BY <1>11, StaysOnce DEF TakeReadEnd, Stays, RightAt, Where
<1>12. ASSUME TellReadEnd PROVE RightOnce'
  <2>1. Moves("queued", "told")
    <3>1. RightAt["queued"] /\ ~RightAt'["queued"] /\ RightAt'["told"]
      BY <1>12 DEF TellReadEnd, RightAt
    <3>2. \A r \in Where \ {"queued", "told"} : RightAt'[r] <=> RightAt[r]
      BY <1>12 DEF TellReadEnd, RightAt, Where
    <3> QED BY <3>1, <3>2 DEF Moves
  <2> QED BY <2>1, MovesOnce DEF Where
<1>13. ASSUME PollWriteStart PROVE RightOnce'
  <2>1. CASE writeStartUpdated
    <3>1. Moves("posted", "accepted")
      <4>1. RightAt["posted"] /\ ~RightAt'["posted"] /\ RightAt'["accepted"]
        BY <1>13, <2>1 DEF PollWriteStart, WriteStartTaken, RightAt
      <4>2. \A r \in Where \ {"posted", "accepted"} : RightAt'[r] <=> RightAt[r]
        BY <1>13, <2>1 DEF PollWriteStart, WriteStartTaken, RightAt, Where
      <4> QED BY <4>1, <4>2 DEF Moves
    <3> QED BY <3>1, MovesOnce DEF Where
  <2>2. CASE ~writeStartUpdated
    BY <1>13, <2>2, StaysOnce DEF PollWriteStart, WriteStartTaken, Stays, RightAt, Where
  <2> QED BY <2>1, <2>2
<1>14. ASSUME AcceptWrite PROVE RightOnce'
  <2>0. aborted' = "none"
    BY TimelyKept, <1>14 DEF Next, ResolverThread
  <2>1. Moves("accepted", "requested")
    <3>1. RightAt["accepted"] /\ ~RightAt'["accepted"] /\ RightAt'["requested"]
      BY <1>14, <2>0 DEF AcceptWrite, RightAt
    <3>2. \A r \in Where \ {"accepted", "requested"} : RightAt'[r] <=> RightAt[r]
      BY <1>14, <2>0 DEF AcceptWrite, RightAt, Where
    <3> QED BY <3>1, <3>2 DEF Moves
  <2> QED BY <2>1, MovesOnce DEF Where
<1>15. ASSUME AcknowledgeWrite PROVE RightOnce'
  BY <1>15, StaysOnce DEF AcknowledgeWrite, Stays, RightAt, Where
<1>16. ASSUME PollReadEnd PROVE RightOnce'
  <2>1. CASE readEndUpdated
    <3>1. Moves("told", "loaded")
      <4>1. RightAt["told"] /\ ~RightAt'["told"] /\ RightAt'["loaded"]
        BY <1>16, <2>1 DEF PollReadEnd, RightAt
      <4>2. \A r \in Where \ {"told", "loaded"} : RightAt'[r] <=> RightAt[r]
        BY <1>16, <2>1 DEF PollReadEnd, RightAt, Where
      <4> QED BY <4>1, <4>2 DEF Moves
    <3> QED BY <3>1, MovesOnce DEF Where
  <2>2. CASE ~readEndUpdated
    BY <1>16, <2>2, StaysOnce DEF PollReadEnd, Stays, RightAt, Where
  <2> QED BY <2>1, <2>2
<1>17. ASSUME LoadReadEnd PROVE RightOnce'
  <2>1. Moves("loaded", "ready")
    <3>1. RightAt["loaded"] /\ ~RightAt'["loaded"] /\ RightAt'["ready"]
      BY <1>17 DEF LoadReadEnd, RightAt
    <3>2. \A r \in Where \ {"loaded", "ready"} : RightAt'[r] <=> RightAt[r]
      BY <1>17 DEF LoadReadEnd, RightAt, Where
    <3> QED BY <3>1, <3>2 DEF Moves
  <2> QED BY <2>1, MovesOnce DEF Where
<1>18. ASSUME AcknowledgeReadEnd PROVE RightOnce'
  BY <1>18, StaysOnce DEF AcknowledgeReadEnd, Acknowledged, Stays, RightAt, Where
<1>19. ASSUME ReadEvent PROVE RightOnce'
  <2>1. CASE Written \in ready
    <3>1. Moves("ready", "rest")
      <4>1. RightAt["ready"] /\ ~RightAt'["ready"] /\ RightAt'["rest"]
        BY <1>19, <2>1 DEF ReadEvent, EventTaken, RightAt
      <4>2. \A r \in Where \ {"ready", "rest"} : RightAt'[r] <=> RightAt[r]
        BY <1>19, <2>1 DEF ReadEvent, EventTaken, RightAt, Where
      <4> QED BY <4>1, <4>2 DEF Moves
    <3> QED BY <3>1, MovesOnce DEF Where
  <2>2. CASE Written \notin ready
    BY <1>19, <2>2, StaysOnce DEF ReadEvent, EventTaken, Stays, RightAt, Where
  <2> QED BY <2>1, <2>2
<1>20. ASSUME NEW t \in {"main", "rest"}, TakeWriteStart(t) PROVE RightOnce'
  BY <1>20, StaysOnce DEF TakeWriteStart, Stays, RightAt, Where
<1>21. ASSUME NEW t \in {"main", "rest"}, PostWriteStart(t) PROVE RightOnce'
  <2>1. CASE t = "main"
    <3>1. Moves("main", "posted")
      <4>1. RightAt["main"] /\ ~RightAt'["main"] /\ RightAt'["posted"]
        BY <1>21, <2>1 DEF PostWriteStart, RightAt
      <4>2. \A r \in Where \ {"main", "posted"} : RightAt'[r] <=> RightAt[r]
        BY <1>21, <2>1 DEF PostWriteStart, RightAt, Where
      <4> QED BY <4>1, <4>2 DEF Moves
    <3> QED BY <3>1, MovesOnce DEF Where
  <2>2. CASE t = "rest"
    <3>1. Moves("rest", "posted")
      <4>1. RightAt["rest"] /\ ~RightAt'["rest"] /\ RightAt'["posted"]
        BY <1>21, <2>2 DEF PostWriteStart, RightAt
      <4>2. \A r \in Where \ {"rest", "posted"} : RightAt'[r] <=> RightAt[r]
        BY <1>21, <2>2 DEF PostWriteStart, RightAt, Where
      <4> QED BY <4>1, <4>2 DEF Moves
    <3> QED BY <3>1, MovesOnce DEF Where
  <2> QED BY <2>1, <2>2
<1>22. ASSUME NEW t \in {"resolver", "rest"}, Leave(t) PROVE RightOnce'
  BY <1>22, StaysOnce DEF Leave, Stays, RightAt, Where
<1>23. ASSUME Delete PROVE RightOnce'
  BY <1>23, StaysOnce DEF Delete, Stop, Joins, Stays, RightAt, Where
<1>24. ASSUME JoinFirst PROVE RightOnce'
  BY <1>24, StaysOnce DEF JoinFirst, Stop, Joins, Stays, RightAt, Where
<1>25. ASSUME JoinSecond PROVE RightOnce'
  BY <1>25, StaysOnce DEF JoinSecond, Joins, Stays, RightAt, Where
<1> QED
  BY <1>1, <1>2, <1>3, <1>4, <1>5, <1>6, <1>7, <1>8, <1>9, <1>10, <1>11, <1>12, <1>13, <1>14,
     <1>15, <1>16, <1>17, <1>18, <1>19, <1>20, <1>21, <1>22, <1>23, <1>24, <1>25 DEF Next,
     EventLoop, ResolverThread, RestThread, Main

LEMMA TurnInvariant == ASSUME PeerIds \subseteq {Written} PROVE Spec => []TurnInv
<1>1. TurnInv /\ [Next]_vars => TurnInv'
  BY TypeKept, TimelyKept, RightKept DEF TurnInv
<1> QED BY TurnInitially, <1>1, PTL DEF Spec

\* While the peer writes no object but the one the REST thread writes, as in the repository's
\* program, the right to write it is always in exactly one place, for any number of objects.
THEOREM OneRightHeld == ASSUME PeerIds \subseteq {Written} PROVE Spec => []OneRight
<1>1. TurnInv => OneRight
  BY RightDomain DEF TurnInv, RightOnce, OneRight
<1> QED BY <1>1, TurnInvariant, PTL

\* And none of the errors of the resolver and of REST can occur.
THEOREM ErrorFree == ASSUME PeerIds \subseteq {Written} PROVE Spec => []NoAbort
<1>1. TurnInv => NoAbort
  BY DEF TurnInv
<1> QED BY <1>1, TurnInvariant, PTL

=============================================================================

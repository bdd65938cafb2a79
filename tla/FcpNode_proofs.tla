---------------------------- MODULE FcpNode_proofs -----------------------------
(***************************************************************************)
(* IInv is an invariant of FcpNode, what follows from it, and the proof    *)
(* that FcpNode implements JobPromise.  One lemma per part of IInv, one    *)
(* step per kind of step (FcpNodeSteps) under it.                          *)
(***************************************************************************)
EXTENDS FcpNodeSteps

\* Every step keeps the types.
LEMMA TypeStep == TypeOK /\ ManagerInv /\ SubmitInv /\ [Next]_vars => TypeOK'
<1> SUFFICES ASSUME TypeOK /\ ManagerInv /\ SubmitInv, [Next]_vars PROVE TypeOK'
  OBVIOUS
<1> USE DEF TypeOK, None, MgrPoints, ClientPoints, AllModes, AllWaits, Results, Outcomes,
      ticketVars, nodeVars, managerVars, clientVars, wireVars
<1>1. CASE MgrStart
  BY <1>1 DEF MgrStart
<1>2. CASE MgrStop
  BY <1>2 DEF MgrStop, MgrGoto
<1>3. CASE NothingIncoming
  BY <1>3 DEF NothingIncoming, MgrGoto
<1>4. CASE CallbackReturns
  BY <1>4 DEF CallbackReturns, MgrGoto
<1>5. CASE PopJob
  BY <1>5 DEF PopJob, Forget
<1>6. CASE ResendDone
  BY <1>6 DEF ResendDone
<1>7. CASE NoRequest
  BY <1>7 DEF NoRequest, MgrGoto
<1>8. CASE TakeRequest
  <2>1. Head(queue) \in Tickets /\ Tail(queue) \in Seq(Tickets)
    BY <1>8, QueueTail DEF TakeRequest
  <2> QED
    BY <1>8, <2>1 DEF TakeRequest
<1>9. CASE SendDone
  BY <1>9 DEF SendDone, Tell, ManagerInv, Born, Fresh
<1>10. CASE PutResult
  BY <1>10 DEF PutResult, ManagerInv, Born, Fresh
<1>11. CASE Release
  BY <1>11 DEF Release, Forget
<1>12. CASE CollectWaiting
  BY <1>12 DEF CollectWaiting, Registered, Range
<1>13. ASSUME NEW t \in Tickets, FailWaiting(t)
      PROVE TypeOK'
  BY <1>13 DEF FailWaiting
<1>14. CASE WaitingFailed
  BY <1>14 DEF WaitingFailed, MgrGoto
<1>15. CASE FailQueued
  <2>1. Head(queue) \in Tickets /\ Tail(queue) \in Seq(Tickets)
    BY <1>15, QueueTail DEF FailQueued
  <2> QED
    BY <1>15, <2>1 DEF FailQueued
<1>16. CASE QueueDrained
  BY <1>16 DEF QueueDrained, MgrGoto
<1>17. CASE MgrExit
  BY <1>17 DEF MgrExit
<1>18. ASSUME NEW m \in Messages, Receive(m)
      PROVE TypeOK'
  <2>1. \A r, fl : NewFlags(r, fl, m) \subseteq fl \cup {"mimetype", "gotPersistentDataFound"}
    BY DEF NewFlags
  <2>2. talk' \in [Ids -> {"none", "open", "found", "closed"}]
    BY <1>18 DEF Receive, Tell, LastWord
  <2>3. /\ mpc' \in MgrPoints /\ mjob' \in Tickets \cup {NoTicket} 
        /\ mval' \in Results \cup {None} /\ mret' \in MgrPoints
    <3>1. PICK t \in Tickets : \E r, fl : Dispatch(t, r, fl, m)
      BY <1>18, JobFacts DEF Receive, Fresh
    <3>2. PICK r, fl : Dispatch(t, r, fl, m)
      BY <3>1
    <3> QED
      BY <3>2 DEF Dispatch, AfterResult
  <2>4. /\ jobs' \in [Ids -> Tickets \cup {NoTicket}]
        /\ job' \in [Tickets -> JobType \cup {Unborn}]
        /\ lockHeld' \subseteq Tickets /\ sentHeld' \subseteq Tickets
        /\ result' = result
    BY <1>18, JobFacts DEF Receive, MakeTicket, Fresh
  <2>5. flags' \in [Tickets -> SUBSET {"mimetype", "gotPersistentDataFound"}]
    BY <1>18, <2>1 DEF Receive, MakeTicket, Fresh
  <2> QED
    BY <1>18, <2>2, <2>3, <2>4, <2>5 DEF Receive
<1>19. ASSUME NEW m \in Messages, ReceiveUnreadable(m)
      PROVE TypeOK'
  BY <1>19 DEF ReceiveUnreadable, MgrGoto
<1>20. CASE Fault
  BY <1>20 DEF Fault
<1>21. CASE ConnectionClosed
  BY <1>21 DEF ConnectionClosed
<1>22. ASSUME NEW c \in Clients, Enqueue(c)
      PROVE TypeOK'
  <2>1. cjob[c] \in Tickets
    BY <1>22 DEF Enqueue, SubmitInv, Born, Fresh
  <2>2. Append(queue, cjob[c]) \in Seq(Tickets)
    BY <2>1, QueueAppend
  <2>3. cpc' \in [Clients -> ClientPoints] /\ cret' \in [Clients -> Outcomes]
    BY <1>22 DEF Enqueue, ClientAt, Return
  <2>4. /\ cjob' \in [Clients -> Tickets \cup {NoTicket}]
        /\ handed' \subseteq Tickets
    BY <1>22, <2>1 DEF Enqueue, ClientAt, Return
  <2> QED
    BY <1>22, <2>2, <2>3, <2>4 DEF Enqueue
<1>23. ASSUME NEW c \in Clients, SeeSent(c)
      PROVE TypeOK'
  <2>1. cjob[c] \in Tickets
    BY <1>23 DEF SeeSent, SubmitInv, Born, Fresh
  <2>2. cpc' \in [Clients -> ClientPoints] /\ cret' \in [Clients -> Outcomes]
    BY <1>23 DEF SeeSent, ClientAt, Return
  <2>3. /\ cjob' \in [Clients -> Tickets \cup {NoTicket}]
        /\ handed' \subseteq Tickets /\ sentHeld' \subseteq Tickets
    BY <1>23, <2>1 DEF SeeSent, ClientAt, Return
  <2> QED
    BY <1>23, <2>2, <2>3 DEF SeeSent
<1>24. ASSUME NEW c \in Clients, SeeLock(c)
      PROVE TypeOK'
  <2>1. cjob[c] \in Tickets
    BY <1>24 DEF SeeLock, SubmitInv, Born, Fresh
  <2> QED
    BY <1>24, <2>1 DEF SeeLock, ClientAt
<1>25. ASSUME NEW c \in Clients, Unlock(c)
      PROVE TypeOK'
  BY <1>25 DEF Unlock, ClientAt, Return
<1>251. ASSUME NEW c \in Clients, GetResult(c)
      PROVE TypeOK'
  <2>1. cjob[c] \in Tickets
    BY <1>251 DEF GetResult, SubmitInv, Born, Fresh
  <2> QED
    BY <1>251, <2>1 DEF GetResult, Return
<1>26. ASSUME NEW c \in Clients, CancelSent(c)
      PROVE TypeOK'
  BY <1>26 DEF CancelSent, ClientAt, Return
<1>27. ASSUME NEW c \in Clients, ClearRunning(c)
      PROVE TypeOK'
  <2>1. cpc' \in [Clients -> ClientPoints] /\ running' \in BOOLEAN
    BY <1>27 DEF ClearRunning, ClientAt
  <2> QED
    BY <1>27, <2>1 DEF ClearRunning
<1>28. ASSUME NEW c \in Clients, ShutdownDone(c)
      PROVE TypeOK'
  BY <1>28 DEF ShutdownDone, ClientAt, Return
<1>29. ASSUME NEW c \in Clients, BeginRefresh(c)
      PROVE TypeOK'
  BY <1>29 DEF BeginRefresh, ClientAt, Return
<1>30. ASSUME NEW c \in Clients, CallRefused(c)
      PROVE TypeOK'
  BY <1>30 DEF CallRefused, ClientAt, Return
<1>31. ASSUME NEW c \in Clients, BeginShutdown(c)
      PROVE TypeOK'
  BY <1>31 DEF BeginShutdown, ClientAt, Return
<1>32. ASSUME NEW c \in Clients, SendTimeout(c)
      PROVE TypeOK'
  BY <1>32 DEF SendTimeout, ClientAt, Return
<1>33. ASSUME NEW c \in Clients, NodeTimeout(c)
      PROVE TypeOK'
  BY <1>33 DEF NodeTimeout, ClientAt, Return
<1>34. ASSUME NEW c \in Clients, NEW t \in Tickets, 
                  NEW r \in Requests, NEW mode \in Modes, BeginCall(c, t, r, mode)
      PROVE TypeOK'
  <2>1. FirstFlags(r) \subseteq {"mimetype"}
    BY DEF FirstFlags
  <2> QED
    BY <1>34, <2>1, JobFacts, ConstantFacts DEF BeginCall, MakeTicket, ClientAt
<1>35. ASSUME NEW c \in Clients, NEW t \in Tickets, NEW pc \in Waits, BeginWait(c, t, pc)
      PROVE TypeOK'
  BY <1>35, ConstantFacts DEF BeginWait, ClientAt
<1>36. ASSUME NEW c \in Clients, NEW t \in Tickets, BeginCancel(c, t)
      PROVE TypeOK'
  BY <1>36 DEF BeginCancel, Forget, ClientAt, Return
<1>37. CASE UNCHANGED vars
  BY <1>37 DEF vars
<1> QED
  BY <1>1, <1>2, <1>3, <1>4, <1>5, <1>6, <1>7, <1>8, <1>9, <1>10, <1>11, <1>12, <1>13,
     <1>14, <1>15, <1>16, <1>17, <1>18, <1>19, <1>20, <1>21, <1>22, <1>23, <1>24, <1>25, <1>251,
     <1>26, <1>27, <1>28, <1>29, <1>30, <1>31, <1>32, <1>33, <1>34, <1>35, <1>36, <1>37
     DEF Next, MgrStep, NodeStep, InCall, NewCall

\* The manager has a made ticket at hand, and a result for it.
LEMMA ManagerStep ==
  ASSUME IInv, [Next]_vars
  PROVE  ManagerInv'
<1>0. /\ TypeOK /\ ManagerInv /\ TableInv /\ QueueInv /\ SubmitInv
      /\ LockInv /\ GoneInv /\ WireInv /\ CrashInv /\ StoppedMeansStopped
  BY DEF IInv
<1>1. CASE UNCHANGED vars
  BY <1>1, <1>0 DEF ManagerInv, Failing, Born, Fresh, vars, ticketVars, nodeVars,
     managerVars, clientVars, wireVars
<1>2. CASE ManagerMoves
  BY <1>2, <1>0, Derived DEF ManagerInv, Failing, ManagerMoves, ticketVars
<1>3. ASSUME NEW c \in Clients, ClientMoves(c) PROVE ManagerInv'
  BY <1>3, <1>0, Derived DEF ManagerInv, Failing, ClientMoves, ticketVars, managerVars
<1>4. CASE PopJob
  BY <1>4, <1>0, Derived DEF ManagerInv, Failing, PopJob, ticketVars
<1>5. CASE TakeRequest
  BY <1>5, <1>0, TakeFacts DEF ManagerInv, Failing, QueueInv
<1>6. CASE SendDone
  BY <1>6, <1>0, Derived DEF ManagerInv, Failing, SendDone
<1>7. CASE PutResult
  <2>1. mjob \in Tickets /\ mval # None
    BY <1>7, <1>0 DEF ManagerInv, PutResult, Born, Results, None
  <2> QED
    BY <1>7, <1>0, <2>1, Derived DEF ManagerInv, Failing, PutResult, TypeOK
<1>8. CASE Release
  BY <1>8, <1>0, Derived DEF ManagerInv, Failing, Release
<1>9. CASE CollectWaiting
  BY <1>9, <1>0, Derived, RegisteredBorn DEF ManagerInv, Failing, CollectWaiting, ticketVars
<1>10. CASE FailQueued
  BY <1>10, <1>0, FailQueuedFacts DEF ManagerInv, Failing, QueueInv, Results
<1>11. ASSUME NEW t \in Tickets, FailWaiting(t) PROVE ManagerInv'
  BY <1>11, <1>0, Derived DEF ManagerInv, Failing, FailWaiting, Results, ticketVars
<1>12. ASSUME NEW m \in Messages, Receive(m) PROVE ManagerInv'
  BY <1>12, <1>0, Received DEF ManagerInv, Failing
<1>13. ASSUME NEW c \in Clients, Enqueue(c) PROVE ManagerInv'
  BY <1>13, <1>0, EnqueueFacts DEF ManagerInv, Failing, managerVars
<1>14. ASSUME NEW c \in Clients, NEW t \in Tickets, NEW r \in Requests,
             NEW mode \in Modes, BeginCall(c, t, r, mode)
      PROVE  ManagerInv'
  BY <1>14, <1>0, BeginCallFacts DEF ManagerInv, Failing, managerVars
<1>15. ASSUME NEW c \in Clients,
             \/ SeeSent(c) \/ SeeLock(c) \/ Unlock(c) 
             \/ \E t \in Tickets : BeginCancel(c, t) \/ \E pc \in Waits : BeginWait(c, t, pc)
      PROVE  ManagerInv'
  BY <1>15, <1>0, OtherClients DEF ManagerInv, Failing, managerVars
<1> QED
  BY <1>0, <1>1, <1>2, <1>3, <1>4, <1>5, <1>6, <1>7, <1>8, <1>9, <1>10, <1>11, <1>12,
     <1>13, <1>14, <1>15, StepKinds

\* The table files each job under its identifier.
LEMMA TableStep ==
  ASSUME IInv, [Next]_vars
  PROVE  TableInv'
<1>0. /\ TypeOK /\ ManagerInv /\ TableInv /\ QueueInv /\ SubmitInv
      /\ LockInv /\ GoneInv /\ WireInv /\ CrashInv /\ StoppedMeansStopped
  BY DEF IInv
<1>1. CASE UNCHANGED vars
  BY <1>1, <1>0 DEF TableInv, Born, Fresh, vars, ticketVars, nodeVars, managerVars,
     clientVars, wireVars
<1>2. CASE ManagerMoves
  BY <1>2, <1>0, Derived DEF TableInv, ManagerMoves, ticketVars
<1>3. ASSUME NEW c \in Clients, ClientMoves(c) PROVE TableInv'
  BY <1>3, <1>0, Derived DEF TableInv, ClientMoves, ticketVars
<1>4. CASE PopJob
  BY <1>4, <1>0, Derived, Unregister DEF TableInv, PopJob, Forget, ticketVars
<1>5. CASE TakeRequest
  BY <1>5, <1>0, TakeFacts, Derived DEF TableInv
<1>6. CASE SendDone
  BY <1>6, <1>0, Derived DEF TableInv, SendDone, nodeVars
<1>7. CASE PutResult
  <2>1. mjob \notin Fresh
    BY <1>7, <1>0 DEF ManagerInv, PutResult, Born
  <2> QED
    BY <1>7, <1>0, <2>1, Derived DEF TableInv, PutResult, nodeVars, TypeOK, Fresh
<1>8. CASE Release
  BY <1>8, <1>0, Derived, Unregister DEF TableInv, Release, Forget
<1>9. CASE CollectWaiting
  BY <1>9, <1>0, Derived DEF TableInv, CollectWaiting, nodeVars, ticketVars
<1>10. CASE FailQueued
  BY <1>10, <1>0, FailQueuedFacts, Derived DEF TableInv
<1>11. ASSUME NEW t \in Tickets, FailWaiting(t) PROVE TableInv'
  BY <1>11, <1>0, Derived DEF TableInv, FailWaiting, nodeVars, ticketVars
<1>12. ASSUME NEW m \in Messages, Receive(m) PROVE TableInv'
  <2>1. Fresh' \subseteq Fresh
    BY <1>12, <1>0, Received DEF Born, Fresh, TypeOK
  <2> QED
    BY <1>12, <1>0, <2>1, Received, RegisteredBorn DEF TableInv
<1>13. ASSUME NEW c \in Clients, Enqueue(c) PROVE TableInv'
  <2>1. cjob[c] \in Born
    BY <1>13, <1>0, EnqueueFacts
  <2> QED
    BY <1>13, <1>0, <2>1, EnqueueFacts, Derived DEF TableInv
<1>14. ASSUME NEW c \in Clients, NEW t \in Tickets, NEW r \in Requests,
             NEW mode \in Modes, BeginCall(c, t, r, mode)
      PROVE  TableInv'
  <2>1. Fresh' \subseteq Fresh
    BY <1>14, <1>0, BeginCallFacts DEF Born, Fresh
  <2> QED
    BY <1>14, <1>0, <2>1, BeginCallFacts, RegisteredBorn DEF TableInv
<1>15. ASSUME NEW c \in Clients,
             \/ SeeSent(c) \/ SeeLock(c) \/ Unlock(c) 
             \/ \E t \in Tickets : BeginCancel(c, t) \/ \E pc \in Waits : BeginWait(c, t, pc)
      PROVE  TableInv'
  <2>1. handed' \subseteq Born
    BY <1>15, <1>0 DEF TableInv, SubmitInv, SeeSent, SeeLock, Unlock, BeginCancel, BeginWait, 
       AllWaits, Return, ClientAt, ticketVars
  <2> QED
    BY <1>15, <1>0, <2>1, OtherClients, Derived DEF TableInv
<1> QED
  BY <1>0, <1>1, <1>2, <1>3, <1>4, <1>5, <1>6, <1>7, <1>8, <1>9, <1>10, <1>11, <1>12,
     <1>13, <1>14, <1>15, StepKinds

\* A queued ticket is nowhere else, and its reqSentLock is held.
LEMMA QueueStep ==
  ASSUME IInv, [Next]_vars
  PROVE  QueueInv'
<1>0. /\ TypeOK /\ ManagerInv /\ TableInv /\ QueueInv /\ SubmitInv
      /\ LockInv /\ GoneInv /\ WireInv /\ CrashInv /\ StoppedMeansStopped
  BY DEF IInv
<1>1. CASE UNCHANGED vars
  BY <1>1, <1>0 DEF QueueInv, AtHand, Born, Fresh, Queued, Registered, vars, ticketVars,
     nodeVars, managerVars, clientVars, wireVars
<1>2. CASE ManagerMoves
  BY <1>2, <1>0, Derived DEF QueueInv, AtHand, ManagerMoves, ticketVars
<1>3. ASSUME NEW c \in Clients, ClientMoves(c) PROVE QueueInv'
  BY <1>3, <1>0, Derived DEF QueueInv, AtHand, ClientMoves, ticketVars, managerVars
<1>4. CASE PopJob
  BY <1>4, <1>0, Derived, Unregister DEF QueueInv, AtHand, PopJob, Forget, ticketVars, wireVars
<1>5. CASE TakeRequest
  BY <1>5, <1>0, TakeFacts, Derived DEF QueueInv, AtHand
<1>6. CASE SendDone
  BY <1>6, <1>0, Derived DEF QueueInv, AtHand, SendDone, nodeVars
<1>7. CASE PutResult
  BY <1>7, <1>0, Derived DEF QueueInv, AtHand, PutResult, nodeVars, TypeOK, wireVars
<1>8. CASE Release
  <2>1. Registered' \subseteq Registered
    BY <1>8, <1>0, Derived, Unregister DEF Release, Forget
  <2> QED
    BY <1>8, <1>0, <2>1, Derived DEF QueueInv, AtHand, ManagerInv, Release, wireVars
<1>9. CASE CollectWaiting
  BY <1>9, <1>0, Derived DEF QueueInv, AtHand, CollectWaiting, nodeVars, ticketVars, wireVars
<1>10. CASE FailQueued
  BY <1>10, <1>0, FailQueuedFacts, Derived DEF QueueInv, AtHand
<1>11. ASSUME NEW t \in Tickets, FailWaiting(t) PROVE QueueInv'
  BY <1>11, <1>0, Derived DEF QueueInv, AtHand, FailWaiting, nodeVars, ticketVars, wireVars
<1>12. ASSUME NEW m \in Messages, Receive(m) PROVE QueueInv'
  <2>1. Queued \subseteq Born /\ Queued \cap Registered = {}
    BY <1>0 DEF QueueInv
  <2> QED
    BY <1>12, <1>0, <2>1, Received, Derived DEF QueueInv, AtHand
<1>13. ASSUME NEW c \in Clients, Enqueue(c) PROVE QueueInv'
  BY <1>13, <1>0, EnqueueFacts, Derived DEF QueueInv, SubmitInv, managerVars
<1>14. ASSUME NEW c \in Clients, NEW t \in Tickets, NEW r \in Requests,
             NEW mode \in Modes, BeginCall(c, t, r, mode)
      PROVE  QueueInv'
  BY <1>14, <1>0, BeginCallFacts, Derived DEF QueueInv, managerVars
<1>15. ASSUME NEW c \in Clients,
             \/ SeeSent(c) \/ SeeLock(c) \/ Unlock(c) 
             \/ \E t \in Tickets : BeginCancel(c, t) \/ \E pc \in Waits : BeginWait(c, t, pc)
      PROVE  QueueInv'
  <2>1. sentHeld \subseteq sentHeld'
    BY <1>15 DEF SeeSent, SeeLock, Unlock, BeginCancel, BeginWait, ticketVars
  <2> QED
    BY <1>15, <1>0, <2>1, OtherClients, Derived DEF QueueInv, managerVars
<1> QED
  BY <1>0, <1>1, <1>2, <1>3, <1>4, <1>5, <1>6, <1>7, <1>8, <1>9, <1>10, <1>11, <1>12,
     <1>13, <1>14, <1>15, StepKinds

\* A ticket that is being submitted is with its client only.
LEMMA SubmitStep ==
  ASSUME IInv, [Next]_vars
  PROVE  SubmitInv'
<1>0. /\ TypeOK /\ ManagerInv /\ TableInv /\ QueueInv /\ SubmitInv
      /\ LockInv /\ GoneInv /\ WireInv /\ CrashInv /\ StoppedMeansStopped
  BY DEF IInv
<1>1. CASE UNCHANGED vars
  BY <1>1, <1>0 DEF SubmitInv, AtHand, Born, Fresh, Queued, Registered, vars, ticketVars,
     nodeVars, managerVars, clientVars, wireVars
<1>2. CASE ManagerMoves
  BY <1>2, <1>0, Derived DEF SubmitInv, AtHand, ManagerMoves, ticketVars, clientVars
<1>3. ASSUME NEW c \in Clients, ClientMoves(c) PROVE SubmitInv'
  <2>1. \A d \in Clients : 
          cpc'[d] \in AllModes \cup AllWaits \cup {"waitLock", "unlock", "getResult"} =>
            cpc'[d] = cpc[d] /\ cjob'[d] = cjob[d]
    BY <1>3, <1>0 DEF ClientMoves, ClientAt, TypeOK, AllModes, AllWaits
  <2> QED
    BY <1>3, <1>0, <2>1, Derived DEF SubmitInv, AtHand, ClientMoves, ticketVars, managerVars
<1>4. CASE PopJob
  BY <1>4, <1>0, Derived, Unregister DEF SubmitInv, AtHand, PopJob, Forget, ticketVars,
     wireVars, clientVars
<1>5. CASE TakeRequest
  BY <1>5, <1>0, TakeFacts, Derived DEF SubmitInv, AtHand, clientVars
<1>6. CASE SendDone
  BY <1>6, <1>0, Derived DEF SubmitInv, AtHand, SendDone, nodeVars, clientVars
<1>7. CASE PutResult
  BY <1>7, <1>0, Derived DEF SubmitInv, AtHand, PutResult, nodeVars, TypeOK, wireVars, clientVars
<1>8. CASE Release
  <2>1. Registered' \subseteq Registered
    BY <1>8, <1>0, Derived, Unregister DEF Release, Forget
  <2> QED
    BY <1>8, <1>0, <2>1, Derived DEF SubmitInv, AtHand, ManagerInv, Release, wireVars, clientVars
<1>9. CASE CollectWaiting
  BY <1>9, <1>0, Derived DEF SubmitInv, AtHand, CollectWaiting, nodeVars, ticketVars,
     wireVars, clientVars
<1>10. CASE FailQueued
  BY <1>10, <1>0, FailQueuedFacts, Derived DEF SubmitInv, AtHand, clientVars
<1>11. ASSUME NEW t \in Tickets, FailWaiting(t) PROVE SubmitInv'
  BY <1>11, <1>0, Derived DEF SubmitInv, AtHand, FailWaiting, nodeVars, ticketVars,
     wireVars, clientVars
<1>12. ASSUME NEW m \in Messages, Receive(m) PROVE SubmitInv'
  BY <1>12, <1>0, Received, Derived DEF SubmitInv, AtHand, clientVars
<1>13. ASSUME NEW c \in Clients, Enqueue(c) PROVE SubmitInv'
  <2>1. AllModes \cap {"idle", "tillSent", "waitSent"} = {}
    BY DEF AllModes
  <2>2. \A d \in Clients : cpc'[d] \in AllModes => d # c /\ cjob[d] # cjob[c]
    BY <1>13, <1>0, <2>1, EnqueueFacts DEF SubmitInv
  <2>3. \A t \in Tickets : AtHand(t)' = AtHand(t)
    BY <1>13, <1>0, EnqueueFacts, Derived DEF managerVars
  <2>4. ASSUME NEW d \in Clients
        PROVE  /\ cpc'[d] \in AllModes \cup AllWaits \cup {"waitLock", "unlock"} => 
                    cjob'[d] \in Born'
               /\ cpc'[d] \in AllModes => 
                    cpc[d] \in AllModes /\ cjob'[d] = cjob[d] /\ cjob[d] \in Tickets
    BY <1>13, <1>0, <2>2, EnqueueFacts DEF SubmitInv, AllWaits, Born
  <2> QED
    BY <1>13, <1>0, <2>2, <2>3, <2>4, EnqueueFacts DEF SubmitInv, managerVars
<1>14. ASSUME NEW c \in Clients, NEW t \in Tickets, NEW r \in Requests,
             NEW mode \in Modes, BeginCall(c, t, r, mode)
      PROVE  SubmitInv'
  <2>1. t \notin Registered \cup Queued \cup wire \cup crashed \cup handed /\ ~AtHand(t)
    BY <1>14, <1>0, BeginCallFacts, RegisteredBorn DEF QueueInv, WireInv, ManagerInv,
       TableInv, AtHand
  <2>2. \A d \in Clients : d # c /\ cpc[d] \in AllModes => cjob[d] # t
    BY <1>14, <1>0, BeginCallFacts DEF SubmitInv
  <2>3. \A u : AtHand(u)' = AtHand(u)
    BY <1>14, <1>0, BeginCallFacts, Derived DEF managerVars
  <2> QED
    BY <1>14, <1>0, <2>1, <2>2, <2>3, BeginCallFacts DEF SubmitInv, managerVars
<1>15. ASSUME NEW c \in Clients,
             \/ SeeSent(c) \/ SeeLock(c) \/ Unlock(c) 
             \/ \E t \in Tickets : BeginCancel(c, t) \/ \E pc \in Waits : BeginWait(c, t, pc)
      PROVE  SubmitInv'
  <2>1. \A d \in Clients : cpc'[d] \in AllModes => 
          cpc[d] \in AllModes /\ cjob'[d] = cjob[d]
    BY <1>15, <1>0, OtherClients
  <2>2. /\ sentHeld \subseteq sentHeld' /\ handed' \subseteq handed \cup {cjob[c]}
        /\ cpc[c] \in AllWaits \cup {"waitLock"} => cjob[c] \notin sentHeld \/ handed' = handed
        /\ cpc[c] \notin AllWaits \cup {"waitLock"} => handed' = handed
    BY <1>15 DEF SeeSent, SeeLock, Unlock, BeginCancel, BeginWait, ticketVars, AllWaits
  <2>3. \A u : AtHand(u)' = AtHand(u)
    BY <1>15, <1>0, OtherClients, Derived DEF managerVars
  <2>4. cpc'[c] \in AllWaits \cup {"waitLock", "unlock", "getResult"} => cjob'[c] \in Born
    <3>1. Registered \cup handed \subseteq Born
      BY <1>0, RegisteredBorn DEF TableInv
    <3>2. cpc[c] \in {"waitSent", "tillSent", "waitLock", "waitForever", "unlock"} 
          => cjob[c] \in Born
      BY <1>0 DEF SubmitInv, AllWaits
    <3> QED
      BY <1>15, <1>0, <3>1, <3>2 DEF SeeSent, SeeLock, Unlock, BeginCancel, BeginWait, Visible, 
         TypeOK, ClientAt, Return, AllWaits
  <2> QED
    BY <1>15, <1>0, <2>1, <2>2, <2>3, <2>4, OtherClients DEF SubmitInv, managerVars
<1> QED
  BY <1>0, <1>1, <1>2, <1>3, <1>4, <1>5, <1>6, <1>7, <1>8, <1>9, <1>10, <1>11, <1>12,
     <1>13, <1>14, <1>15, StepKinds

\* The lock of a ticket guards its result, and its waiters.
LEMMA LockStep ==
  ASSUME IInv, [Next]_vars
  PROVE  LockInv'
<1>0. /\ TypeOK /\ ManagerInv /\ TableInv /\ QueueInv /\ SubmitInv
      /\ LockInv /\ GoneInv /\ WireInv /\ CrashInv /\ StoppedMeansStopped
  BY DEF IInv
<1>1. CASE UNCHANGED vars
  BY <1>1, <1>0 DEF LockInv, WaiterHasResult, WaitersExclude, Transient, Born, Fresh, vars,
     ticketVars, nodeVars, managerVars, clientVars, wireVars
<1>2. CASE ManagerMoves
  BY <1>2, <1>0, Derived DEF LockInv, WaiterHasResult, WaitersExclude, Transient,
     ManagerMoves, ticketVars, clientVars
<1>3. ASSUME NEW c \in Clients, ClientMoves(c) PROVE LockInv'
  <2>1. \A d \in Clients : 
          cpc'[d] \in {"unlock", "getResult"} => cpc[d] = cpc'[d] /\ cjob'[d] = cjob[d]
    BY <1>3, <1>0 DEF ClientMoves, ClientAt, TypeOK
  <2> QED
    BY <1>3, <1>0, <2>1, Derived DEF LockInv, WaiterHasResult, WaitersExclude, Transient,
       ClientMoves, ticketVars, managerVars
<1>4. CASE PopJob
  BY <1>4, <1>0, Derived DEF LockInv, WaiterHasResult, WaitersExclude, Transient, PopJob,
     ticketVars, wireVars, clientVars
<1>5. CASE TakeRequest
  BY <1>5, <1>0, TakeFacts, Derived DEF LockInv, WaiterHasResult, WaitersExclude,
     Transient, clientVars
<1>6. CASE SendDone
  BY <1>6, <1>0, Derived DEF LockInv, WaiterHasResult, WaitersExclude, Transient, SendDone,
     nodeVars, clientVars
<1>7. CASE PutResult
  <2>1. mjob \in Born /\ mval # None /\ (Transient(mjob) => result[mjob] = None)
    BY <1>7, <1>0 DEF PutResult, ManagerInv, GoneInv, Results, None
  <2>2. result' = [result EXCEPT ![mjob] = mval] /\ mjob \in Tickets /\ Born' = Born
    BY <1>7, <2>1, Derived DEF PutResult, Born
  <2> QED
    BY <1>7, <1>0, <2>1, <2>2 DEF LockInv, WaiterHasResult, WaitersExclude, Transient,
       PutResult, TypeOK, clientVars
<1>8. CASE Release
  <2>1. result[mjob] # None /\ mpc' # "release"
    BY <1>8, <1>0 DEF ManagerInv, Release
  <2> QED
    BY <1>8, <1>0, <2>1, Derived DEF LockInv, WaiterHasResult, WaitersExclude, Transient,
       Release, clientVars
<1>9. CASE CollectWaiting
  BY <1>9, <1>0, Derived DEF LockInv, WaiterHasResult, WaitersExclude, Transient,
     CollectWaiting, ticketVars, clientVars
<1>10. CASE FailQueued
  BY <1>10, <1>0, FailQueuedFacts, Derived DEF LockInv, WaiterHasResult, WaitersExclude,
     Transient, clientVars
<1>11. ASSUME NEW t \in Tickets, FailWaiting(t) PROVE LockInv'
  BY <1>11, <1>0, Derived DEF LockInv, WaiterHasResult, WaitersExclude, Transient,
     FailWaiting, ticketVars, clientVars
<1>12. ASSUME NEW m \in Messages, Receive(m) PROVE LockInv'
  <2>1. \A c \in Clients : cpc[c] = "unlock" => cjob[c] \in Born
    BY <1>0 DEF SubmitInv
  <2> QED
    BY <1>12, <1>0, <2>1, Received DEF LockInv, WaiterHasResult, WaitersExclude, Transient,
       clientVars
<1>13. ASSUME NEW c \in Clients, Enqueue(c) PROVE LockInv'
  <2>1. cpc'[c] \notin {"unlock", "getResult"}
    BY <1>13, <1>0, EnqueueFacts
  <2> QED
    BY <1>13, <1>0, <2>1, EnqueueFacts DEF LockInv, WaiterHasResult, WaitersExclude,
       Transient, managerVars
<1>14. ASSUME NEW c \in Clients, NEW t \in Tickets, NEW r \in Requests,
             NEW mode \in Modes, BeginCall(c, t, r, mode)
      PROVE  LockInv'
  <2>1. \A d \in Clients : 
          cpc'[d] \in {"unlock", "getResult"} 
          => cpc[d] = cpc'[d] /\ cjob'[d] = cjob[d] /\ cjob[d] \in Born
    BY <1>14, <1>0, BeginCallFacts DEF SubmitInv, AllModes
  <2>2. mpc = "release" => mjob \in Born
    BY <1>0 DEF ManagerInv
  <2> QED
    BY <1>14, <1>0, <2>1, <2>2, BeginCallFacts DEF LockInv, WaiterHasResult,
       WaitersExclude, Transient, managerVars
<1>15. ASSUME NEW c \in Clients,
             \/ SeeSent(c) \/ SeeLock(c) \/ Unlock(c) 
             \/ \E t \in Tickets : BeginCancel(c, t) \/ \E pc \in Waits : BeginWait(c, t, pc)
      PROVE  LockInv'
  <2>1. CASE SeeLock(c)
    <3>1. /\ cjob[c] \in Born /\ cjob[c] \notin lockHeld /\ lockHeld' = lockHeld \cup {cjob[c]} 
          /\ cjob' = cjob
      BY <2>1, <1>0 DEF SeeLock, SubmitInv, AllWaits
    <3>2. result[cjob[c]] # None
      BY <3>1, <1>0 DEF LockInv
    <3> QED
      BY <1>15, <1>0, <3>1, <3>2, OtherClients DEF LockInv, WaiterHasResult,
         WaitersExclude, Transient, managerVars
  <2>2. CASE Unlock(c)
    <3>1. /\ cpc[c] = "unlock" /\ cpc'[c] \in {"idle", "getResult"} 
          /\ cpc'[c] = "getResult" => cjob' = cjob
          /\ lockHeld' = lockHeld \ {cjob[c]} /\ UNCHANGED result
      BY <2>2, <1>0 DEF Unlock, Return, ClientAt, TypeOK
    <3> QED
      BY <1>15, <1>0, <3>1, OtherClients DEF LockInv, WaiterHasResult, WaitersExclude,
         Transient, managerVars
  <2>3. CASE ~SeeLock(c) /\ ~Unlock(c)
    <3>1. cpc'[c] \notin {"unlock", "getResult"} /\ lockHeld' = lockHeld
      BY <1>15, <2>3, <1>0, ConstantFacts DEF SeeSent, BeginCancel, BeginWait, ClientAt,
         Return, TypeOK,
         ticketVars, AllWaits
    <3> QED
      BY <1>15, <1>0, <3>1, OtherClients DEF LockInv, WaiterHasResult, WaitersExclude,
         Transient, managerVars
  <2> QED
    BY <2>1, <2>2, <2>3
<1> QED
  BY <1>0, <1>1, <1>2, <1>3, <1>4, <1>5, <1>6, <1>7, <1>8, <1>9, <1>10, <1>11, <1>12,
     <1>13, <1>14, <1>15, StepKinds

\* A resolved transient ticket is gone from everywhere.
LEMMA GoneStep ==
  ASSUME IInv, [Next]_vars
  PROVE  GoneInv'
<1>0. /\ TypeOK /\ ManagerInv /\ TableInv /\ QueueInv /\ SubmitInv
      /\ LockInv /\ GoneInv /\ WireInv /\ CrashInv /\ StoppedMeansStopped
  BY DEF IInv
<1>1. CASE UNCHANGED vars
  BY <1>1, <1>0 DEF GoneInv, ResolvedIsGone, Transient, Born, Fresh, Queued, Registered,
     vars, ticketVars, nodeVars, managerVars, clientVars, wireVars
<1>2. CASE ManagerMoves
  BY <1>2, <1>0, Derived DEF GoneInv, ResolvedIsGone, Transient, ManagerMoves, ticketVars
<1>3. ASSUME NEW c \in Clients, ClientMoves(c) PROVE GoneInv'
  BY <1>3, <1>0, Derived DEF GoneInv, ResolvedIsGone, Transient, ClientMoves, ticketVars,
     managerVars
<1>4. CASE PopJob
  BY <1>4, <1>0, Derived, Unregister DEF GoneInv, ResolvedIsGone, Transient, PopJob,
     Forget, ticketVars
<1>5. CASE TakeRequest
  <2>1. result[mjob'] = None
    BY <1>5, <1>0, TakeFacts DEF QueueInv
  <2> QED
    BY <1>5, <1>0, <2>1, TakeFacts DEF GoneInv, ResolvedIsGone, Transient
<1>6. CASE SendDone
  BY <1>6, <1>0, Derived DEF GoneInv, ResolvedIsGone, Transient, SendDone, nodeVars
<1>7. CASE PutResult
  BY <1>7, <1>0, Derived DEF GoneInv, ResolvedIsGone, Transient, PutResult, nodeVars, TypeOK
<1>8. CASE Release
  <2>1. mpc' \notin {"put", "release"} /\ mjob \in Born /\ mjob \notin Queued \cup crashed
    BY <1>8, <1>0 DEF Release, ManagerInv, QueueInv, AtHand
  <2>2. Registered' \subseteq Registered
    BY <1>8, <1>0, Derived, Unregister DEF Release, Forget
  <2>3. ASSUME Transient(mjob) PROVE mjob \notin Registered'
    <3>1. jobs' = [jobs EXCEPT ![job[mjob].id] = NoTicket]
      BY <1>8, <2>3 DEF Release, Forget
    <3>2. \A i \in Ids : jobs'[i] # mjob
      BY <3>1, <2>1, <1>0, ConstantFacts DEF TableInv, TypeOK, Born
    <3> QED
      BY <3>1, <3>2, <1>0 DEF Registered, Range, TypeOK
  <2> QED
    BY <1>8, <1>0, <2>1, <2>2, <2>3, Derived DEF GoneInv, ResolvedIsGone, Transient, Release
<1>9. CASE CollectWaiting
  BY <1>9, <1>0, Derived DEF GoneInv, ResolvedIsGone, Transient, CollectWaiting,
     ticketVars, nodeVars
<1>10. CASE FailQueued
  BY <1>10, <1>0, FailQueuedFacts DEF GoneInv, ResolvedIsGone, Transient, QueueInv
<1>11. ASSUME NEW t \in Tickets, FailWaiting(t) PROVE GoneInv'
  BY <1>11, <1>0, Derived DEF GoneInv, ResolvedIsGone, Transient, FailWaiting, ManagerInv,
     ticketVars, nodeVars
<1>12. ASSUME NEW m \in Messages, Receive(m) PROVE GoneInv'
  <2>1. PICK t \in Tickets :
          /\ t \in Registered \/ t \notin Born
          /\ Born' = Born \cup {t} /\ Registered' \subseteq Registered \cup {t}
          /\ \A u \in Born : job'[u] = job[u]
          /\ mpc' = "put" => mjob' = t
    BY <1>12, <1>0, Received
  <2>2. /\ mpc = "poll" /\ mpc' # "release"
        /\ UNCHANGED <<result, crashed>> /\ Queued' = Queued
    BY <1>12, <1>0, Received, Derived
  <2>3. t \notin Born => result[t] = None
    BY <1>0 DEF TableInv, Born
  <2>4. Registered \cup Queued \cup crashed \subseteq Born
    BY <1>0, RegisteredBorn DEF QueueInv, ManagerInv
  <2> QED
    BY <1>0, <2>1, <2>2, <2>3, <2>4 DEF GoneInv, ResolvedIsGone, Transient
<1>13. ASSUME NEW c \in Clients, Enqueue(c) PROVE GoneInv'
  BY <1>13, <1>0, EnqueueFacts DEF GoneInv, ResolvedIsGone, Transient, SubmitInv, managerVars
<1>14. ASSUME NEW c \in Clients, NEW t \in Tickets, NEW r \in Requests,
             NEW mode \in Modes, BeginCall(c, t, r, mode)
      PROVE  GoneInv'
  <2>1. mpc = "put" => mjob \in Born
    BY <1>0 DEF ManagerInv
  <2> QED
    BY <1>14, <1>0, <2>1, BeginCallFacts DEF GoneInv, ResolvedIsGone, Transient, managerVars
<1>15. ASSUME NEW c \in Clients,
             \/ SeeSent(c) \/ SeeLock(c) \/ Unlock(c) 
             \/ \E t \in Tickets : BeginCancel(c, t) \/ \E pc \in Waits : BeginWait(c, t, pc)
      PROVE  GoneInv'
  BY <1>15, <1>0, OtherClients DEF GoneInv, ResolvedIsGone, Transient, managerVars
<1> QED
  BY <1>0, <1>1, <1>2, <1>3, <1>4, <1>5, <1>6, <1>7, <1>8, <1>9, <1>10, <1>11, <1>12,
     <1>13, <1>14, <1>15, StepKinds

\* reqSentLock is free only of a ticket whose command is on the wire.
LEMMA WireStep ==
  ASSUME IInv, [Next]_vars
  PROVE  WireInv'
<1>0. /\ TypeOK /\ ManagerInv /\ TableInv /\ QueueInv /\ SubmitInv
      /\ LockInv /\ GoneInv /\ WireInv /\ CrashInv /\ StoppedMeansStopped
  BY DEF IInv
<1>1. CASE UNCHANGED vars
  BY <1>1, <1>0 DEF WireInv, Born, Fresh, vars, ticketVars, nodeVars, managerVars,
     clientVars, wireVars
<1>2. CASE ManagerMoves
  BY <1>2, <1>0, Derived DEF WireInv, ManagerMoves, ticketVars
<1>3. ASSUME NEW c \in Clients, ClientMoves(c) PROVE WireInv'
  BY <1>3, <1>0, Derived DEF WireInv, ClientMoves, ticketVars, managerVars
<1>4. CASE PopJob
  BY <1>4, <1>0, Derived DEF WireInv, PopJob, ticketVars, wireVars
<1>5. CASE TakeRequest
  BY <1>5, <1>0, TakeFacts DEF WireInv, QueueInv
<1>6. CASE SendDone
  BY <1>6, <1>0, Derived DEF WireInv, ManagerInv, SendDone
<1>7. CASE PutResult
  BY <1>7, <1>0, Derived DEF WireInv, PutResult, wireVars
<1>8. CASE Release
  BY <1>8, <1>0, Derived DEF WireInv, ManagerInv, Release, wireVars
<1>9. CASE CollectWaiting
  BY <1>9, <1>0, Derived DEF WireInv, CollectWaiting, ticketVars, wireVars
<1>10. CASE FailQueued
  BY <1>10, <1>0, FailQueuedFacts DEF WireInv
<1>11. ASSUME NEW t \in Tickets, FailWaiting(t) PROVE WireInv'
  BY <1>11, <1>0, Derived DEF WireInv, FailWaiting, ticketVars, wireVars
<1>12. ASSUME NEW m \in Messages, Receive(m) PROVE WireInv'
  BY <1>12, <1>0, Received DEF WireInv
<1>13. ASSUME NEW c \in Clients, Enqueue(c) PROVE WireInv'
  BY <1>13, <1>0, EnqueueFacts DEF WireInv, managerVars
<1>14. ASSUME NEW c \in Clients, NEW t \in Tickets, NEW r \in Requests,
             NEW mode \in Modes, BeginCall(c, t, r, mode)
      PROVE  WireInv'
  BY <1>14, <1>0, BeginCallFacts DEF WireInv, managerVars
<1>15. ASSUME NEW c \in Clients,
             \/ SeeSent(c) \/ SeeLock(c) \/ Unlock(c) 
             \/ \E t \in Tickets : BeginCancel(c, t) \/ \E pc \in Waits : BeginWait(c, t, pc)
      PROVE  WireInv'
  <2>1. sentHeld \subseteq sentHeld'
    BY <1>15 DEF SeeSent, SeeLock, Unlock, BeginCancel, BeginWait, ticketVars
  <2> QED
    BY <1>15, <1>0, <2>1, OtherClients DEF WireInv, managerVars
<1> QED
  BY <1>0, <1>1, <1>2, <1>3, <1>4, <1>5, <1>6, <1>7, <1>8, <1>9, <1>10, <1>11, <1>12,
     <1>13, <1>14, <1>15, StepKinds

\* A crash leaves no registered ticket without a result.
LEMMA CrashStep ==
  ASSUME IInv, [Next]_vars
  PROVE  CrashInv'
<1>0. /\ TypeOK /\ ManagerInv /\ TableInv /\ QueueInv /\ SubmitInv
      /\ LockInv /\ GoneInv /\ WireInv /\ CrashInv /\ StoppedMeansStopped
  BY DEF IInv
<1>1. CASE UNCHANGED vars
  BY <1>1, <1>0 DEF CrashInv, Failing, AtHand, Registered, vars, ticketVars, nodeVars,
     managerVars, clientVars, wireVars
<1>2. CASE ManagerMoves
  BY <1>2, <1>0, Derived DEF CrashInv, Failing, AtHand, ManagerMoves, ticketVars
<1>3. ASSUME NEW c \in Clients, ClientMoves(c) PROVE CrashInv'
  BY <1>3, <1>0, Derived DEF CrashInv, Failing, AtHand, ClientMoves, ticketVars, managerVars
<1>4. CASE PopJob
  BY <1>4, <1>0 DEF CrashInv, Failing, AtHand, PopJob, ticketVars
<1>5. CASE TakeRequest
  BY <1>5, <1>0, TakeFacts DEF CrashInv, Failing, AtHand
<1>6. CASE SendDone
  BY <1>6, <1>0, Derived DEF CrashInv, Failing, AtHand, SendDone, nodeVars
<1>7. CASE PutResult
  <2>1. mjob \in Tickets /\ mval # None
    BY <1>7, <1>0 DEF ManagerInv, PutResult, Born, Results, None
  <2>2. Registered' = Registered /\ Registered \subseteq Tickets
    BY <1>7, <1>0, Derived, RegisteredBorn DEF PutResult, nodeVars, Born
  <2> QED
    BY <1>7, <1>0, <2>1, <2>2 DEF CrashInv, Failing, AtHand, PutResult, TypeOK, nodeVars
<1>8. CASE Release
  <2>1. result[mjob] # None /\ mret \notin {"put", "release", "exit", "done"}
    BY <1>8, <1>0 DEF ManagerInv, Release
  <2>2. Registered' \subseteq Registered
    BY <1>8, <1>0, Derived, Unregister DEF Release, Forget
  <2> QED
    BY <1>8, <1>0, <2>1, <2>2 DEF CrashInv, Failing, AtHand, Release
<1>9. CASE CollectWaiting
  BY <1>9, <1>0, Derived DEF CrashInv, Failing, AtHand, CollectWaiting, ticketVars, nodeVars
<1>10. CASE FailQueued
  BY <1>10, <1>0, FailQueuedFacts DEF CrashInv, Failing, AtHand
<1>11. ASSUME NEW t \in Tickets, FailWaiting(t) PROVE CrashInv'
  BY <1>11, <1>0, Derived DEF CrashInv, Failing, AtHand, FailWaiting, ticketVars, nodeVars
<1>12. ASSUME NEW m \in Messages, Receive(m) PROVE CrashInv'
  BY <1>12, <1>0, Received DEF CrashInv, Failing, AtHand
<1>13. ASSUME NEW c \in Clients, Enqueue(c) PROVE CrashInv'
  BY <1>13, <1>0, EnqueueFacts DEF CrashInv, Failing, AtHand, managerVars
<1>14. ASSUME NEW c \in Clients, NEW t \in Tickets, NEW r \in Requests,
             NEW mode \in Modes, BeginCall(c, t, r, mode)
      PROVE  CrashInv'
  BY <1>14, <1>0, BeginCallFacts DEF CrashInv, Failing, AtHand, managerVars
<1>15. ASSUME NEW c \in Clients,
             \/ SeeSent(c) \/ SeeLock(c) \/ Unlock(c) 
             \/ \E t \in Tickets : BeginCancel(c, t) \/ \E pc \in Waits : BeginWait(c, t, pc)
      PROVE  CrashInv'
  BY <1>15, <1>0, OtherClients DEF CrashInv, Failing, AtHand, managerVars
<1> QED
  BY <1>0, <1>1, <1>2, <1>3, <1>4, <1>5, <1>6, <1>7, <1>8, <1>9, <1>10, <1>11, <1>12,
     <1>13, <1>14, <1>15, StepKinds

\* shutdownLock is with the manager thread from its first step to its last.
LEMMA StopStep == 
  TypeOK /\ ManagerInv /\ SubmitInv /\ StoppedMeansStopped /\ [Next]_vars 
    => StoppedMeansStopped'
<1> SUFFICES ASSUME TypeOK /\ ManagerInv /\ SubmitInv /\ StoppedMeansStopped, [Next]_vars 
             PROVE  StoppedMeansStopped'
  OBVIOUS
<1> USE DEF TypeOK, StoppedMeansStopped, ticketVars, nodeVars, managerVars, clientVars, wireVars
<1>1. CASE MgrStart
  BY <1>1 DEF MgrStart
<1>2. CASE MgrStop
  BY <1>2 DEF MgrStop, MgrGoto
<1>3. CASE NothingIncoming
  BY <1>3 DEF NothingIncoming, MgrGoto
<1>4. CASE CallbackReturns
  BY <1>4 DEF CallbackReturns, MgrGoto
<1>5. CASE PopJob
  BY <1>5 DEF PopJob, Forget
<1>6. CASE ResendDone
  BY <1>6 DEF ResendDone, ManagerInv
<1>7. CASE NoRequest
  BY <1>7 DEF NoRequest, MgrGoto
<1>8. CASE TakeRequest
  BY <1>8 DEF TakeRequest
<1>9. CASE SendDone
  BY <1>9 DEF SendDone, Tell
<1>10. CASE PutResult
  BY <1>10 DEF PutResult
<1>11. CASE Release
  BY <1>11 DEF Release, ManagerInv
<1>12. CASE CollectWaiting
  BY <1>12 DEF CollectWaiting
<1>13. ASSUME NEW t \in Tickets, FailWaiting(t)
      PROVE StoppedMeansStopped'
  BY <1>13 DEF FailWaiting
<1>14. CASE WaitingFailed
  BY <1>14 DEF WaitingFailed, MgrGoto
<1>15. CASE FailQueued
  BY <1>15 DEF FailQueued
<1>16. CASE QueueDrained
  BY <1>16 DEF QueueDrained, MgrGoto
<1>17. CASE MgrExit
  BY <1>17 DEF MgrExit
<1>18. ASSUME NEW m \in Messages, Receive(m)
      PROVE StoppedMeansStopped'
  <2>1. mpc' \notin {"start", "done"}
    <3>1. PICK t \in Tickets : \E r, fl : Dispatch(t, r, fl, m)
      BY <1>18, JobFacts DEF Receive, Fresh
    <3>2. PICK r, fl : Dispatch(t, r, fl, m)
      BY <3>1
    <3> QED
      BY <3>2 DEF Dispatch
  <2> QED
    BY <1>18, <2>1 DEF Receive
<1>19. ASSUME NEW m \in Messages, ReceiveUnreadable(m)
      PROVE StoppedMeansStopped'
  BY <1>19 DEF ReceiveUnreadable, MgrGoto
<1>20. CASE Fault
  BY <1>20 DEF Fault
<1>21. CASE ConnectionClosed
  BY <1>21 DEF ConnectionClosed
<1>22. ASSUME NEW c \in Clients, Enqueue(c)
      PROVE StoppedMeansStopped'
  BY <1>22 DEF Enqueue, ClientAt, Return
<1>23. ASSUME NEW c \in Clients, SeeSent(c)
      PROVE StoppedMeansStopped'
  BY <1>23 DEF SeeSent, ClientAt, Return
<1>24. ASSUME NEW c \in Clients, SeeLock(c)
      PROVE StoppedMeansStopped'
  BY <1>24 DEF SeeLock, ClientAt, Return
<1>25. ASSUME NEW c \in Clients, Unlock(c)
      PROVE StoppedMeansStopped'
  <2>1. result[cjob[c]] # "stopped"
    BY <1>25 DEF Unlock, SubmitInv, Born, Results, None
  <2> QED
    BY <1>25, <2>1 DEF Unlock, Return
<1>251. ASSUME NEW c \in Clients, GetResult(c)
      PROVE StoppedMeansStopped'
  <2>1. result[cjob[c]] # "stopped"
    BY <1>251 DEF GetResult, SubmitInv, Born, Results, None
  <2> QED
    BY <1>251, <2>1 DEF GetResult, Return
<1>26. ASSUME NEW c \in Clients, CancelSent(c)
      PROVE StoppedMeansStopped'
  BY <1>26 DEF CancelSent, ClientAt, Return
<1>27. ASSUME NEW c \in Clients, ClearRunning(c)
      PROVE StoppedMeansStopped'
  BY <1>27 DEF ClearRunning, ClientAt, Return
<1>28. ASSUME NEW c \in Clients, ShutdownDone(c)
      PROVE StoppedMeansStopped'
  BY <1>28 DEF ShutdownDone, ClientAt, Return
<1>29. ASSUME NEW c \in Clients, BeginRefresh(c)
      PROVE StoppedMeansStopped'
  BY <1>29 DEF BeginRefresh, ClientAt, Return
<1>30. ASSUME NEW c \in Clients, CallRefused(c)
      PROVE StoppedMeansStopped'
  BY <1>30 DEF CallRefused, ClientAt, Return
<1>31. ASSUME NEW c \in Clients, BeginShutdown(c)
      PROVE StoppedMeansStopped'
  BY <1>31 DEF BeginShutdown, ClientAt, Return
<1>32. ASSUME NEW c \in Clients, SendTimeout(c)
      PROVE StoppedMeansStopped'
  BY <1>32 DEF SendTimeout, ClientAt, Return
<1>33. ASSUME NEW c \in Clients, NodeTimeout(c)
      PROVE StoppedMeansStopped'
  BY <1>33 DEF NodeTimeout, ClientAt, Return
<1>34. ASSUME NEW c \in Clients, NEW t \in Tickets, 
                  NEW r \in Requests, NEW mode \in Modes, BeginCall(c, t, r, mode)
      PROVE StoppedMeansStopped'
  BY <1>34 DEF BeginCall, MakeTicket, ClientAt
<1>35. ASSUME NEW c \in Clients, NEW t \in Tickets, NEW pc \in Waits, BeginWait(c, t, pc)
      PROVE StoppedMeansStopped'
  BY <1>35 DEF BeginWait, ClientAt, Return
<1>36. ASSUME NEW c \in Clients, NEW t \in Tickets, BeginCancel(c, t)
      PROVE StoppedMeansStopped'
  BY <1>36 DEF BeginCancel, Forget, ClientAt, Return
<1>37. CASE UNCHANGED vars
  BY <1>37 DEF vars
<1> QED
  BY <1>1, <1>2, <1>3, <1>4, <1>5, <1>6, <1>7, <1>8, <1>9, <1>10, <1>11, <1>12, <1>13,
     <1>14, <1>15, <1>16, <1>17, <1>18, <1>19, <1>20, <1>21, <1>22, <1>23, <1>24, <1>25, <1>251,
     <1>26, <1>27, <1>28, <1>29, <1>30, <1>31, <1>32, <1>33, <1>34, <1>35, <1>36, <1>37
     DEF Next, MgrStep, NodeStep, InCall, NewCall

--------------------------------------------------------------------------------
\* The state FCPNode.__init__ leaves satisfies the invariant.
LEMMA InitInv == Init => IInv
<1> SUFFICES ASSUME Init PROVE IInv
  OBVIOUS
<1> USE DEF Init
<1>1. TypeOK
  <2>1. <<>> \in Seq(Tickets)
    OBVIOUS
  <2> QED
    BY <2>1, ConstantFacts DEF TypeOK, None, Results, MgrPoints, ClientPoints, Outcomes
<1>2. Born = {} /\ Registered = {} /\ Queued = {}
  BY ConstantFacts DEF Born, Fresh, Registered, Queued, Range
<1>3. \A c \in Clients : cpc[c] \notin AllModes \cup AllWaits \cup {"waitLock", "unlock"}
  BY DEF AllModes, AllWaits
<1>4. ManagerInv /\ TableInv /\ WireInv /\ CrashInv /\ GoneInv /\ StoppedMeansStopped
  <2>1. ManagerInv /\ WireInv
    BY <1>2 DEF ManagerInv, WireInv
  <2>2. TableInv
    BY <1>2 DEF TableInv, Fresh
  <2>3. CrashInv /\ GoneInv
    BY <1>2 DEF CrashInv, Failing, GoneInv, ResolvedIsGone
  <2>4. StoppedMeansStopped
    BY DEF StoppedMeansStopped
  <2> QED
    BY <2>1, <2>2, <2>3, <2>4
<1>5. SubmitInv /\ LockInv
  BY <1>2, <1>3 DEF SubmitInv, LockInv, WaiterHasResult, WaitersExclude
<1>6. QueueInv
  BY <1>2 DEF QueueInv, IsInjective
<1> QED
  BY <1>1, <1>4, <1>5, <1>6 DEF IInv

\* IInv is an inductive invariant of the connection.
THEOREM Invariance == Spec => []IInv
<1>1. IInv /\ [Next]_vars => IInv'
  <2> SUFFICES ASSUME IInv, [Next]_vars PROVE IInv'
    OBVIOUS
  <2>1. TypeOK' /\ StoppedMeansStopped'
    BY TypeStep, StopStep DEF IInv
  <2>2. ManagerInv' /\ TableInv' /\ QueueInv' /\ SubmitInv'
    BY ManagerStep, TableStep, QueueStep, SubmitStep
  <2>3. LockInv' /\ GoneInv' /\ WireInv' /\ CrashInv'
    BY LockStep, GoneStep, WireStep, CrashStep
  <2> QED
    BY <2>1, <2>2, <2>3 DEF IInv
<1> QED
  BY InitInv, <1>1, PTL DEF Spec

\* Every variable has the type the code gives it, for any number of threads.
THEOREM TypeCorrect == Spec => []TypeOK
<1>1. IInv => TypeOK
  BY DEF IInv
<1> QED
  BY Invariance, <1>1, PTL

\* A caller that comes out of JobTicket.wait's poll finds a result, and still
\* holds the lock of a transient job.
THEOREM WaiterServed == Spec => []WaiterHasResult
<1>1. IInv => WaiterHasResult
  BY DEF IInv, LockInv
<1> QED
  BY Invariance, <1>1, PTL

\* On a transient job no two callers are between the acquire and the release of
\* its lock.
THEOREM WaitersAlone == Spec => []WaitersExclude
<1>1. IInv => WaitersExclude
  BY DEF IInv, LockInv
<1> QED
  BY Invariance, <1>1, PTL

\* A resolved transient job is in no structure of the manager, so nothing of
\* the manager can resolve it again.
THEOREM ResolvedGone == Spec => []ResolvedIsGone
<1>1. IInv => ResolvedIsGone
  BY DEF IInv, GoneInv
<1> QED
  BY Invariance, <1>1, PTL

\* reqSentLock is only ever free of a job whose command went over the socket
\* in full, and no command is sent twice.
THEOREM SentOnWire == Spec => []SentIsOnWire
<1>1. IInv => SentIsOnWire
  BY DEF IInv, WireInv, QueueInv, SentIsOnWire
<1> QED
  BY Invariance, <1>1, PTL

\* node.jobs files every job under its own identifier, and no ticket is queued
\* twice or both queued and registered.
THEOREM TableMatches == Spec => []TableMatchesTickets
<1>1. IInv => TableMatchesTickets
  BY DEF IInv, TableInv, QueueInv, TableMatchesTickets
<1> QED
  BY Invariance, <1>1, PTL

\* After the crash branch of _mgrThread every job of the table has a result.
THEOREM CrashFails == Spec => []CrashFailsWaiting
<1>1. IInv => CrashFailsWaiting
  BY DEF IInv, CrashInv, Failing, CrashFailsWaiting
<1> QED
  BY Invariance, <1>1, PTL

\* shutdown() returns only when the manager thread has made its last step.
THEOREM Stopped == Spec => []StoppedMeansStopped
<1>1. IInv => StoppedMeansStopped
  BY DEF IInv
<1> QED
  BY Invariance, <1>1, PTL

\* _putResult is the only writer of a ticket's result.
LEMMA OnlyPutResults ==
  ASSUME IInv, [Next]_vars
  PROVE  UNCHANGED result \/ PutResult
<1>0. TypeOK /\ ManagerInv /\ TableInv /\ QueueInv /\ SubmitInv
  BY DEF IInv
<1>1. CASE \/ UNCHANGED vars \/ ManagerMoves \/ \E c \in Clients : ClientMoves(c)
           \/ PopJob \/ SendDone \/ Release \/ CollectWaiting 
           \/ \E t \in Tickets : FailWaiting(t)
  BY <1>1 DEF vars, ticketVars, ManagerMoves, ClientMoves, PopJob, SendDone, Release, 
     CollectWaiting, FailWaiting
<1>2. CASE TakeRequest \/ FailQueued \/ \E m \in Messages : Receive(m)
  BY <1>0, <1>2, TakeFacts, FailQueuedFacts, Received
<1>3. CASE \E c \in Clients, t \in Tickets, r \in Requests, mode \in Modes : 
             BeginCall(c, t, r, mode)
  BY <1>0, <1>3, BeginCallFacts
<1>4. CASE \E c \in Clients : 
             \/ Enqueue(c) \/ SeeSent(c) \/ SeeLock(c) \/ Unlock(c)
             \/ \E t \in Tickets : BeginCancel(c, t) \/ \E pc \in Waits : BeginWait(c, t, pc) 
  BY <1>0, <1>4, EnqueueFacts, OtherClients
<1> QED
  BY <1>0, <1>1, <1>2, <1>3, <1>4, StepKinds

\* The result of a transient job never changes, so callers that share the
\* ticket all get the same one.
THEOREM ResultFinal == Spec => ResultIsFinal
<1>1. ASSUME IInv, [Next]_vars
      PROVE  [\A t \in Tickets : 
                t \in Born /\ Transient(t) /\ result[t] # None => result'[t] = result[t]]_vars
  <2>1. CASE UNCHANGED result
    BY <2>1
  <2>2. CASE PutResult
    <3>1. Transient(mjob) => result[mjob] = None
      BY <2>2, <1>1 DEF PutResult, IInv, GoneInv
    <3> QED
      BY <2>2, <3>1, <1>1 DEF PutResult, IInv, TypeOK
  <2> QED
    BY <1>1, <2>1, <2>2, OnlyPutResults
<1> QED
  BY Invariance, <1>1, PTL DEF Spec, ResultIsFinal

--------------------------------------------------------------------------------
(***************************************************************************)
(* The refinement.                                                         *)
(***************************************************************************)
\* Calls that deliver nothing are MoveOn.
LEMMA QuietMoves ==
  ASSUME NothingDelivered
  PROVE  Promise!MoveOn
<1> DEFINE C == {c \in Clients : cret'[c] \notin Deliveries}
<1>1. DeliveredBar' = [c \in Clients |-> IF c \in C THEN "none" ELSE DeliveredBar[c]]
  BY DEF NothingDelivered, DeliveredBar
<1> QED
  BY <1>1 DEF Promise!MoveOn

\* Steps that make no ticket and put no result leave the promise's tickets alone.
LEMMA SameTickets ==
  ASSUME Born' = Born, UNCHANGED result, \A u \in Born : job'[u] = job[u]
  PROVE  OutcomeBar' = OutcomeBar /\ KeptBar' = KeptBar
<1>1. Fresh' = Fresh /\ Born = Tickets \ Fresh
  BY DEF Born, Fresh
<1>2. OutcomeBar' = OutcomeBar
  BY <1>1 DEF OutcomeBar
<1>3. KeptBar' = KeptBar
  BY DEF KeptBar, Transient
<1> QED
  BY <1>2, <1>3

\* Making a JobTicket is Make.
LEMMA NewTicket ==
  ASSUME NEW t \in Tickets, t \notin Born, result[t] = None, UNCHANGED result,
         Born' = Born \cup {t}, \A u \in Born : job'[u] = job[u], NothingDelivered
  PROVE  Promise!Make(t)
<1>1. t \in Fresh /\ Fresh' = Fresh \ {t}
  BY DEF Born, Fresh
<1>2. OutcomeBar[t] = "unmade" /\ OutcomeBar' = [OutcomeBar EXCEPT ![t] = "pending"]
  BY <1>1 DEF OutcomeBar
<1>3. KeptBar' \in {KeptBar, KeptBar \cup {t}}
  BY DEF KeptBar, Transient
<1> QED
  BY <1>2, <1>3, QuietMoves DEF Promise!Make

\* Every step of the connection is a step of the promise or a stutter.
LEMMA StepRefines ==
  ASSUME IInv, [Next]_vars
  PROVE  [Promise!Next]_Promise!vars
<1>0. TypeOK /\ ManagerInv /\ TableInv /\ QueueInv /\ SubmitInv /\ LockInv
  BY DEF IInv
<1>1. ASSUME Born' = Born, UNCHANGED result, \A u \in Born : job'[u] = job[u], 
             NothingDelivered
      PROVE  Promise!Next
  BY <1>1, SameTickets, QuietMoves DEF Promise!Next
<1>2. ASSUME NEW t \in Tickets, t \notin Born, result[t] = None, UNCHANGED result,
             Born' = Born \cup {t}, \A u \in Born : job'[u] = job[u], NothingDelivered
      PROVE  Promise!Next
  BY <1>2, NewTicket DEF Promise!Next
<1>3. UNCHANGED cret => NothingDelivered
  BY DEF NothingDelivered
<1>4. CASE UNCHANGED vars
  <2>1. UNCHANGED <<OutcomeBar, KeptBar, DeliveredBar>>
    BY <1>4 DEF OutcomeBar, KeptBar, DeliveredBar, Fresh, Born, Transient, vars, 
       ticketVars, clientVars
  <2> QED
    BY <2>1 DEF Promise!vars
<1>5. CASE \/ ManagerMoves \/ \E c \in Clients : ClientMoves(c)
           \/ PopJob \/ SendDone \/ Release \/ CollectWaiting 
           \/ \E t \in Tickets : FailWaiting(t)
  <2>1. /\ UNCHANGED <<job, result>> 
        /\ UNCHANGED cret \/ NothingDelivered \/ \E c \in Clients : GetResult(c)
    BY <1>5 DEF ManagerMoves, ClientMoves, PopJob, SendDone, Release, CollectWaiting,
       FailWaiting, ticketVars, clientVars
  <2>2. ASSUME NEW c \in Clients, GetResult(c) PROVE Promise!Next
    <3>1. cpc[c] = "getResult" /\ cjob[c] \in Born /\ UNCHANGED <<job, result>> 
      BY <2>2, <1>0 DEF GetResult, ticketVars, SubmitInv
    <3>2. cjob[c] \in Tickets /\ cjob[c] \notin Fresh /\ result[cjob[c]] \in Results
      BY <3>1, <1>0 DEF LockInv, WaiterHasResult, Born, TypeOK
    <3>3. OutcomeBar[cjob[c]] = result[cjob[c]] /\ result[cjob[c]] # None
      BY <3>2 DEF OutcomeBar, Results, None
    <3>4. OutcomeBar' = OutcomeBar /\ KeptBar' = KeptBar
      BY <3>1, Derived, SameTickets
    <3>5. result[cjob[c]] \in Deliveries /\ Results = Promise!Results
      BY <3>2 DEF Deliveries, Results, Promise!Results
    <3>6. DeliveredBar' = [DeliveredBar EXCEPT ![c] = result[cjob[c]]]
      BY <1>0, <2>2, <3>5 DEF GetResult, Return, DeliveredBar, TypeOK
    <3> QED
      BY <3>2, <3>3, <3>4, <3>5, <3>6 DEF Promise!Deliver, Promise!Next
  <2> QED
    BY <1>1, <1>3, <2>1, <2>2, Derived
<1>6. CASE TakeRequest \/ FailQueued
  <2>1. UNCHANGED <<job, result, cret>>
    BY <1>6 DEF TakeRequest, FailQueued, ticketVars, clientVars
  <2> QED
    BY <1>1, <1>3, <2>1, Derived
<1>7. ASSUME NEW m \in Messages, Receive(m) PROVE Promise!Next
  <2>1. PICK t \in Tickets : 
          /\ Born' = Born \cup {t} /\ \A u \in Born : job'[u] = job[u]
          /\ UNCHANGED <<result, clientVars>>
    BY <1>0, <1>7, Received
  <2>2. CASE t \in Born
    BY <1>1, <1>3, <2>1, <2>2 DEF clientVars
  <2>3. CASE t \notin Born
    <3>1. result[t] = None
      BY <1>0, <2>3 DEF TableInv, Born
    <3> QED
      BY <1>2, <1>3, <2>1, <2>3, <3>1 DEF clientVars
  <2> QED
    BY <2>2, <2>3
<1>8. ASSUME NEW c \in Clients, NEW t \in Tickets, NEW r \in Requests, NEW mode \in Modes,
             BeginCall(c, t, r, mode)
      PROVE  Promise!Next
  BY <1>0, <1>2, <1>8, BeginCallFacts, Deliver
<1>9. ASSUME NEW c \in Clients, 
             \/ Enqueue(c) \/ SeeSent(c) \/ SeeLock(c)
             \/ \E t \in Tickets : BeginCancel(c, t) \/ \E pc \in Waits : BeginWait(c, t, pc) 
      PROVE  Promise!Next
  BY <1>0, <1>1, <1>9, EnqueueFacts, OtherClients, Deliver
<1>10. CASE PutResult
  <2>1. /\ mjob \in Tickets /\ mjob \in Born /\ mjob \notin Fresh /\ mval \in Promise!Results 
        /\ result' = [result EXCEPT ![mjob] = mval] /\ UNCHANGED <<job, cret>>
        /\ Transient(mjob) => result[mjob] = None
    BY <1>0, <1>10 DEF PutResult, ManagerInv, IInv, GoneInv, Born, Results, 
       Promise!Results, clientVars
  <2>2. OutcomeBar[mjob] = "pending" \/ mjob \in KeptBar
    BY <2>1 DEF OutcomeBar, KeptBar
  <2>3. OutcomeBar' = [OutcomeBar EXCEPT ![mjob] = mval]
    <3>1. mval # None
      BY <2>1 DEF Promise!Results, None
    <3>2. Fresh' = Fresh
      BY <2>1, Derived
    <3> QED
      BY <2>1, <3>1, <3>2, <1>0 DEF OutcomeBar, TypeOK
  <2>4. UNCHANGED <<KeptBar, DeliveredBar>>
    BY <2>1, Derived DEF KeptBar, Transient, DeliveredBar
  <2>5. Promise!Resolve(mjob)
    BY <2>1, <2>2, <2>3, <2>4 DEF Promise!Resolve
  <2> QED
    BY <2>1, <2>5 DEF Promise!Next
<1>11. ASSUME NEW c \in Clients, Unlock(c) PROVE Promise!Next
  <2>1. cpc[c] = "unlock" /\ UNCHANGED <<job, result>> 
    BY <1>11 DEF Unlock
  <2>2. /\ cjob[c] \in Born /\ cjob[c] \in Tickets /\ cjob[c] \notin Fresh 
        /\ result[cjob[c]] \in Results
        /\ cjob[c] \notin lockHeld => ~Transient(cjob[c])
    BY <2>1, <1>0 DEF SubmitInv, LockInv, WaiterHasResult, Born, TypeOK
  <2>3. OutcomeBar[cjob[c]] = result[cjob[c]] /\ result[cjob[c]] # None
    BY <2>2 DEF OutcomeBar, Results, None
  <2>4. OutcomeBar' = OutcomeBar /\ KeptBar' = KeptBar
    BY <2>1, Derived, SameTickets
  <2>5. "RuntimeError" \in Deliveries /\ Results = Promise!Results
    BY DEF Deliveries, Results, Promise!Results
  <2>6. CASE cjob[c] \in lockHeld
    <3>1. UNCHANGED cret
      BY <1>11, <2>6 DEF Unlock
    <3> QED
      BY <1>1, <1>3, <2>1, <3>1, Derived
  <2>7. CASE cjob[c] \notin lockHeld
    <3>1. DeliveredBar' = [DeliveredBar EXCEPT ![c] = "RuntimeError"]
      BY <1>0, <1>11, <2>5, <2>7 DEF Unlock, Return, DeliveredBar, TypeOK
    <3>2. cjob[c] \in KeptBar
      BY <2>2, <2>7 DEF KeptBar
    <3>3. Promise!Deliver(c, cjob[c])
      BY <2>2, <2>3, <2>4, <2>5, <3>1, <3>2 DEF Promise!Deliver
    <3> QED
      BY <2>2, <3>3 DEF Promise!Next
  <2> QED
    BY <2>6, <2>7
<1> QED
  BY <1>0, <1>4, <1>5, <1>6, <1>7, <1>8, <1>9, <1>10, <1>11, StepKinds

\* The connection implements JobPromise: threads, manager, crash and shutdown
\* together keep what JobTicket promises to the threads that share a ticket.
THEOREM Refinement == Spec => KeepsPromise
<1>1. Init => Promise!Init
  BY DEF Init, Promise!Init, OutcomeBar, KeptBar, DeliveredBar, Born, Fresh, 
     Deliveries, Results, None
<1> QED
  BY <1>1, Invariance, StepRefines, PTL DEF Spec, KeepsPromise, Promise!Spec
================================================================================

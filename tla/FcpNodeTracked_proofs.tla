-------------------------- MODULE FcpNodeTracked_proofs --------------------------
(***************************************************************************)
(* What holds of the requests whose identifiers are the connection's own   *)
(* (OwnIds), whatever others there are: the answer to such a request finds *)
(* its ticket; and when data come for such requests only, from a node that *)
(* keeps to the protocol (ProtocolKept), no message makes the manager      *)
(* thread raise.                                                           *)
(***************************************************************************)
EXTENDS FcpNode_proofs

(***************************************************************************)
(* The tickets of requests, across a step.                                 *)
(***************************************************************************)
\* A ticket stays what it was made for, and never loses its result.
LEMMA TicketsStay ==
  ASSUME IInv, [Next]_vars, NEW u \in Born
  PROVE  /\ u \in Tickets /\ u \in Born' /\ job'[u] = job[u] /\ job[u].id \in Ids
         /\ result'[u] = None => result[u] = None
<1> USE DEF IInv
<1>1. u \in Tickets /\ job[u].id \in Ids
  BY JobFacts DEF Born, Fresh, TypeOK
<1>2. u \in Born' /\ job'[u] = job[u]
  <2>1. CASE \E m \in Messages : Receive(m)
    BY <2>1, Received
  <2>2. CASE \E c \in Clients, t \in Tickets, r \in Requests, mode \in Modes : 
               BeginCall(c, t, r, mode)
    BY <2>2, BeginCallFacts
  <2>3. CASE UNCHANGED job
    BY <2>3, Derived
  <2>4. CASE \/ UNCHANGED vars \/ ManagerMoves \/ \E c \in Clients : ClientMoves(c)
             \/ PopJob \/ SendDone \/ PutResult \/ Release \/ CollectWaiting
             \/ \E t \in Tickets : FailWaiting(t)
    BY <2>3, <2>4 DEF vars, ticketVars, ManagerMoves, ClientMoves, PopJob, SendDone, 
       PutResult, Release, CollectWaiting, FailWaiting
  <2>5. CASE TakeRequest \/ FailQueued \/ \E c \in Clients : Enqueue(c)
    BY <2>3, <2>5, TakeFacts, FailQueuedFacts, EnqueueFacts
  <2>6. CASE \E c \in Clients : 
               \/ SeeSent(c) \/ SeeLock(c) \/ Unlock(c)
               \/ \E t \in Tickets : BeginCancel(c, t) \/ \E pc \in Waits : BeginWait(c, t, pc) 
    BY <2>3, <2>6, OtherClients
  <2> QED
    BY <2>1, <2>2, <2>4, <2>5, <2>6, StepKinds
<1>3. result'[u] = None => result[u] = None
  BY <1>1, OnlyPutResults DEF PutResult, TypeOK, ManagerInv, Results, None
<1> QED
  BY <1>1, <1>2, <1>3

LEMMA AskedBorn == 
  ASSUME IInv PROVE Asked \subseteq Born /\ Carried \subseteq Asked
BY DEF IInv, Asked, Carried, InSubmission, ManagerInv, QueueInv, SubmitInv, WireInv

\* A request moves on, from its caller to the queue and to the socket.
LEMMA AskedStep ==
  ASSUME IInv, [Next]_vars
  PROVE  /\ \/ Carried' \subseteq Carried 
            \/ TakeRequest /\ mjob' \in Queued /\ Carried' \subseteq Carried \cup {mjob'}
         /\ \/ Asked' \subseteq Asked
            \/ \E c \in Clients, t \in Tickets, r \in Requests, mode \in Modes : 
                 BeginCall(c, t, r, mode) /\ Asked' \subseteq Asked \cup {t}
<1> USE DEF IInv
<1>1. ASSUME UNCHANGED clientVars PROVE InSubmission' = InSubmission
  BY <1>1 DEF InSubmission, clientVars
<1>2. ASSUME wire' = wire, mpc' # "sending" \/ UNCHANGED <<mpc, mjob>>
      PROVE  Carried' \subseteq Carried
  BY <1>2 DEF Carried
<1>3. ASSUME NEW c \in Clients, cpc'[c] \notin AllModes,
             \A d \in Clients : d # c => cpc'[d] = cpc[d] /\ cjob'[d] = cjob[d]
      PROVE  InSubmission' \subseteq InSubmission
  BY <1>3 DEF InSubmission
<1>4. CASE ManagerMoves \/ PopJob \/ PutResult \/ Release \/ CollectWaiting
           \/ \E t \in Tickets : FailWaiting(t)
  <2>1. UNCHANGED <<queue, wire, clientVars>> /\ mpc' # "sending"
    BY <1>4 DEF ManagerMoves, PopJob, PutResult, Release, CollectWaiting, FailWaiting, 
       ManagerInv, nodeVars, wireVars, ticketVars
  <2> QED
    BY <1>1, <1>2, <2>1, Derived DEF Asked
<1>5. CASE UNCHANGED vars
  BY <1>1, <1>2, <1>5, Derived DEF Asked, vars, nodeVars, managerVars, wireVars
<1>6. ASSUME NEW c \in Clients, ClientMoves(c) 
      PROVE  Carried' \subseteq Carried /\ Asked' \subseteq Asked
  <2>1. /\ cpc'[c] \notin AllModes 
        /\ \A d \in Clients : d # c => cpc'[d] = cpc[d] /\ cjob'[d] = cjob[d]
    BY <1>6 DEF ClientMoves, ClientAt, TypeOK, AllModes
  <2> QED
    BY <1>2, <1>3, <1>6, <2>1, Derived DEF ClientMoves, Asked, managerVars
<1>7. CASE TakeRequest
  <2>1. mjob' \in Queued /\ Queued' \subseteq Queued /\ UNCHANGED <<wire, clientVars>>
    BY <1>7, TakeFacts
  <2>2. Carried' \subseteq Carried \cup {mjob'}
    BY <2>1 DEF Carried
  <2> QED
    BY <1>1, <1>7, <2>1, <2>2 DEF Asked
<1>8. CASE SendDone
  <2>1. Carried' \subseteq Carried
    BY <1>8 DEF SendDone, Carried
  <2> QED
    BY <1>1, <1>8, <2>1, Derived DEF SendDone, nodeVars, Asked
<1>9. CASE FailQueued
  BY <1>1, <1>2, <1>9, FailQueuedFacts DEF Asked
<1>10. CASE \E m \in Messages : Receive(m)
  <2>1. UNCHANGED <<queue, wire, clientVars>> /\ mpc' # "sending"
    BY <1>10, Received
  <2> QED
    BY <1>1, <1>2, <2>1, Derived DEF Asked
<1>11. ASSUME NEW c \in Clients, Enqueue(c)
       PROVE  Carried' \subseteq Carried /\ Asked' \subseteq Asked
  <2>1. /\ cjob[c] \in InSubmission /\ Queued' = Queued \cup {cjob[c]}
        /\ cpc'[c] \notin AllModes /\ UNCHANGED <<wire, managerVars>>
        /\ \A d \in Clients : d # c => cpc'[d] = cpc[d] /\ cjob'[d] = cjob[d]
    BY <1>11, EnqueueFacts DEF InSubmission, AllModes
  <2> QED
    BY <1>2, <1>3, <2>1 DEF Asked, managerVars
<1>12. ASSUME NEW c \in Clients, 
              \/ SeeSent(c) \/ SeeLock(c) \/ Unlock(c)
              \/ \E t \in Tickets : BeginCancel(c, t) \/ \E pc \in Waits : BeginWait(c, t, pc)
       PROVE  Carried' \subseteq Carried /\ Asked' \subseteq Asked
  <2>1. /\ Queued' = Queued /\ cpc'[c] \notin AllModes /\ UNCHANGED <<wire, managerVars>>
        /\ \A d \in Clients : d # c => cpc'[d] = cpc[d] /\ cjob'[d] = cjob[d]
    BY <1>12, OtherClients
  <2> QED
    BY <1>2, <1>3, <2>1 DEF Asked, managerVars
<1>13. ASSUME NEW c \in Clients, NEW t \in Tickets, NEW r \in Requests, NEW mode \in Modes, 
              BeginCall(c, t, r, mode)
       PROVE  Carried' \subseteq Carried /\ Asked' \subseteq Asked \cup {t}
  <2>1. /\ Queued' = Queued /\ cjob'[c] = t /\ UNCHANGED <<wire, managerVars>>
        /\ \A d \in Clients : d # c => cpc'[d] = cpc[d] /\ cjob'[d] = cjob[d]
    BY <1>13, BeginCallFacts
  <2>2. InSubmission' \subseteq InSubmission \cup {t}
    BY <2>1 DEF InSubmission
  <2> QED
    BY <1>2, <2>1, <2>2 DEF Asked, managerVars
<1> QED
  BY <1>4, <1>5, <1>6, <1>7, <1>8, <1>9, <1>10, <1>11, <1>12, <1>13, StepKinds

\* Tickets are made by calls, and by messages whose identifier is not in the table.
LEMMA NewlyBorn ==
  ASSUME IInv, [Next]_vars, NEW u \in Born', u \notin Born
  PROVE  \/ \E c \in Clients, r \in Requests, mode \in Modes : 
              BeginCall(c, u, r, mode) /\ job'[u] = r /\ IdAvailable(r.id)
         \/ \E m \in Messages : 
              Receive(m) /\ job'[u] = JobFor(m) /\ Solicited(m) /\ jobs[JobId(m)] = NoTicket
<1> USE DEF IInv
<1>1. ASSUME NEW c \in Clients, NEW t \in Tickets, NEW r \in Requests, NEW mode \in Modes, 
             BeginCall(c, t, r, mode)
      PROVE  u = t /\ job'[u] = r /\ IdAvailable(r.id)
  <2>1. MakeTicket(t, r, FirstFlags(r)) /\ IdAvailable(r.id) /\ r \in JobType
    BY <1>1, JobFacts DEF BeginCall
  <2>2. Born' = Born \cup {t} /\ job'[t] = r
    BY <2>1, Made
  <2> QED
    BY <2>1, <2>2
<1>2. ASSUME NEW m \in Messages, Receive(m)
      PROVE  job'[u] = JobFor(m) /\ Solicited(m) /\ jobs[JobId(m)] = NoTicket
  <2>1. job' # job
    BY Derived
  <2>2. Solicited(m) /\ \E t \in Fresh : 
          jobs[JobId(m)] = NoTicket /\ MakeTicket(t, JobFor(m), NewFlags(JobFor(m), {}, m))
    BY <1>2, <2>1 DEF Receive
  <2> QED
    BY <2>2, JobFacts, Made
<1>3. CASE UNCHANGED job
  BY <1>3, Derived
<1>4. CASE \/ UNCHANGED vars \/ ManagerMoves \/ \E c \in Clients : ClientMoves(c)
           \/ PopJob \/ SendDone \/ PutResult \/ Release \/ CollectWaiting
           \/ \E t \in Tickets : FailWaiting(t)
  BY <1>3, <1>4 DEF vars, ticketVars, ManagerMoves, ClientMoves, PopJob, SendDone, 
     PutResult, Release, CollectWaiting, FailWaiting
<1>5. CASE TakeRequest \/ FailQueued \/ \E c \in Clients : Enqueue(c)
  BY <1>3, <1>5, TakeFacts, FailQueuedFacts, EnqueueFacts
<1>6. CASE \E c \in Clients : 
             \/ SeeSent(c) \/ SeeLock(c) \/ Unlock(c)
             \/ \E t \in Tickets : BeginCancel(c, t) \/ \E pc \in Waits : BeginWait(c, t, pc) 
  BY <1>3, <1>6, OtherClients
<1> QED
  BY <1>1, <1>2, <1>4, <1>5, <1>6, StepKinds

\* What takes a job off the table: its end, a removal, or another of its identifier.
LEMMA TableStays ==
  ASSUME IInv, [Next]_vars, NEW i \in Ids, jobs[i] # NoTicket, jobs'[i] # jobs[i]
  PROVE  \/ TakeRequest /\ job[mjob'].id = i /\ jobs'[i] = mjob' /\ mjob' \in Queued
         \/ mpc \in {"release", "pop"} /\ job[mjob].id = i
         \/ \E t \in Visible : IsPersistent(job[t]) /\ job[t].id = i
         \/ \E m \in Messages : Receive(m) /\ Forgets(m) /\ JobId(m) = i
<1> USE DEF IInv
<1>1. CASE \/ UNCHANGED vars \/ ManagerMoves \/ \E c \in Clients : ClientMoves(c)
           \/ SendDone \/ PutResult \/ CollectWaiting \/ \E t \in Tickets : FailWaiting(t)
  BY <1>1 DEF vars, nodeVars, ManagerMoves, ClientMoves, SendDone, PutResult, 
     CollectWaiting, FailWaiting
<1>2. CASE FailQueued \/ \E c \in Clients : Enqueue(c)
  BY <1>2, FailQueuedFacts, EnqueueFacts
<1>3. CASE \E c \in Clients, t \in Tickets, r \in Requests, mode \in Modes : 
             BeginCall(c, t, r, mode)
  BY <1>3, BeginCallFacts
<1>4. CASE PopJob \/ Release
  BY <1>4 DEF PopJob, Release, Forget, TypeOK
<1>5. CASE TakeRequest
  BY <1>5, TakeFacts
<1>6. ASSUME NEW m \in Messages, Receive(m) PROVE Forgets(m) /\ JobId(m) = i
  BY <1>6 DEF Receive, TypeOK
<1>7. ASSUME NEW c \in Clients, NEW t \in Tickets, BeginCancel(c, t)
      PROVE  t \in Visible /\ IsPersistent(job[t]) /\ job[t].id = i
  BY <1>7 DEF BeginCancel, Forget, TypeOK
<1>8. CASE \E c \in Clients : 
             \/ SeeSent(c) \/ SeeLock(c) \/ Unlock(c)
             \/ \E t \in Tickets, pc \in Waits : BeginWait(c, t, pc) 
  BY <1>8 DEF SeeSent, SeeLock, Unlock, BeginWait, nodeVars
<1> QED
  BY <1>1, <1>2, <1>3, <1>4, <1>5, <1>6, <1>7, <1>8, StepKinds

--------------------------------------------------------------------------------
(***************************************************************************)
(* The answer finds its ticket.                                            *)
(***************************************************************************)
LEMMA AloneKept ==
  ASSUME ~SharedIds, IInv, AloneInv, TrackInv, [Next]_vars
  PROVE  AloneInv'
<1>1. /\ \A u \in Born : /\ u \in Tickets /\ job'[u] = job[u]
                         /\ result'[u] = None => result[u] = None
      /\ Asked \subseteq Born /\ wire \subseteq Carried /\ Carried \subseteq Asked
  BY TicketsStay, AskedBorn DEF Carried
<1>2. ASSUME NEW t \in Asked', t \in Asked \/ t \notin Born
      PROVE  job'[t] \in Requests
  <2>1. CASE t \in Asked
    BY <1>1, <2>1 DEF AloneInv
  <2>2. CASE t \notin Asked
    BY <1>2, <2>2, JobFacts, Made, AskedStep DEF BeginCall, IInv
  <2> QED
    BY <2>1, <2>2
<1>3. \A t \in Asked' : t \in Asked \/ t \notin Born
  BY AskedStep, BeginCallFacts DEF IInv
<1>4. Asked' \subseteq Born'
  <2>1. Asked \subseteq Born'
    BY <1>1, TicketsStay
  <2> QED
    BY <2>1, AskedStep, BeginCallFacts DEF IInv
<1>5. ASSUME NEW t \in Own(Asked)', NEW u \in Born', job'[u].id = job'[t].id
      PROVE  u = t
  <2>1. /\ t \in Asked' /\ job'[t].cmd # "WatchGlobal" /\ result'[t] = None
        /\ job'[t].id \in OwnIds
    BY <1>5 DEF Unanswered, Own
  <2>2. CASE t \in Asked /\ u \in Born
    BY <1>1, <1>5, <2>1, <2>2 DEF AloneInv, Own, Unanswered
  <2>3. ASSUME NEW c \in Clients, NEW v \in Tickets, NEW r \in Requests, 
               NEW mode \in Modes, BeginCall(c, v, r, mode)
        PROVE  u = t
    <3>1. MakeTicket(v, r, FirstFlags(r)) /\ IdAvailable(r.id) /\ r \in JobType
      BY <2>3, JobFacts DEF BeginCall
    <3>2. /\ Born' = Born \cup {v} /\ job'[v] = r 
          /\ r.id \in OwnIds => \A w \in Born : job[w].id # r.id
      BY <3>1, Made DEF IdAvailable, OwnIds, IInv
    <3> QED
      BY <1>1, <1>3, <1>4, <1>5, <2>1, <2>2, <3>2
  <2>4. ASSUME u \notin Born, t \in Asked, NEW m \in Messages, 
               job'[u] = JobFor(m), Solicited(m), jobs[JobId(m)] = NoTicket
        PROVE  FALSE
    <3>1. job[t].id = JobId(m) /\ job[t].id \in OwnIds /\ t \in Own(Asked)
      BY <1>1, <1>5, <2>1, <2>4, JobFacts DEF Own, Unanswered
    <3>2. PICK w \in wire : job[w].id = JobId(m)
      BY <2>4, <3>1 DEF Solicited, OwnIds
    <3>3. w = t
      BY <1>1, <3>1, <3>2 DEF AloneInv
    <3>4. jobs[JobId(m)] = t
      BY <1>1, <3>1, <3>3 DEF TrackInv, Own, Unanswered
    <3> QED
      BY <1>1, <2>4, <3>1, <3>3, <3>4, ConstantFacts
  <2>5. ASSUME ~ \E c \in Clients, v \in Tickets, r \in Requests, mode \in Modes : 
                   BeginCall(c, v, r, mode)
        PROVE  u = t
    <3>1. t \in Asked
      BY <2>1, <2>5, AskedStep
    <3>2. CASE u \notin Born
      <4>1. u \in Tickets
        BY DEF Born, Fresh
      <4> QED
        BY <2>4, <2>5, <3>1, <3>2, <4>1, NewlyBorn
    <3> QED
      BY <2>2, <3>1, <3>2
  <2> QED
    BY <2>3, <2>5
<1> QED
  BY <1>2, <1>3, <1>5 DEF AloneInv

LEMMA TrackKept ==
  ASSUME ~SharedIds, IInv, AloneInv, TrackInv, [Next]_vars
  PROVE  TrackInv'
<1>1. /\ \A u \in Born : /\ u \in Tickets /\ job'[u] = job[u] /\ job[u].id \in Ids
                         /\ result'[u] = None => result[u] = None
      /\ Asked \subseteq Born /\ wire \subseteq Carried /\ Carried \subseteq Asked
      /\ Queued \subseteq Born
  BY TicketsStay, AskedBorn DEF Carried, Asked
<1>2. ASSUME NEW t \in Own(Carried)' PROVE jobs'[job'[t].id] = t
  <2>1. /\ t \in Carried' /\ job'[t].cmd # "WatchGlobal" /\ result'[t] = None
        /\ job'[t].id \in OwnIds
    BY <1>2 DEF Own, Unanswered
  <2>2. CASE t \notin Carried
    <3>1. TakeRequest /\ t = mjob' /\ t \in Queued
      BY <2>1, <2>2, AskedStep
    <3> QED
      BY <1>1, <2>1, <3>1 DEF TakeRequest, IInv, TypeOK
  <2>3. CASE t \in Carried
    <3> DEFINE i == job[t].id
    <3>1. /\ t \in Own(Carried) /\ t \in Own(Asked) /\ i \in OwnIds
          /\ i \in Ids /\ job'[t].id = i /\ jobs[i] = t /\ t # NoTicket 
          /\ result[t] = None /\ job[t] \in Requests
      BY <1>1, <2>1, <2>3, ConstantFacts DEF Own, Unanswered, TrackInv, AloneInv
    <3>2. \A u \in Born : job[u].id = i => u = t
      BY <3>1 DEF AloneInv
    <3>3. CASE TakeRequest /\ job[mjob'].id = i /\ jobs'[i] = mjob' /\ mjob' \in Queued
      BY <1>1, <3>1, <3>2, <3>3
    <3>4. ~(mpc \in {"release", "pop"} /\ job[mjob].id = i)
      BY <3>1, <3>2 DEF TrackInv, IInv, ManagerInv
    <3>5. ~ \E v \in Visible : IsPersistent(job[v]) /\ job[v].id = i
      <4>1. Visible \subseteq Born
        BY RegisteredBorn DEF Visible, IInv, TableInv
      <4> QED
        BY <3>1, <3>2, <4>1 DEF OwnIds
    <3>6. ~ \E m \in Messages : Receive(m) /\ Forgets(m) /\ JobId(m) = i
      BY <3>1 DEF OwnIds
    <3> QED
      BY <3>1, <3>3, <3>4, <3>5, <3>6, TableStays
  <2> QED
    BY <2>2, <2>3
<1>3. ASSUME mpc' \in {"release", "pop"} PROVE result'[mjob'] # None
  <2> USE DEF IInv
  <2>1. CASE PutResult
    BY <2>1 DEF PutResult, ManagerInv, TypeOK, Born, Results, None
  <2>2. CASE UNCHANGED <<mpc, mjob, result>>
    BY <1>3, <2>2 DEF TrackInv
  <2>3. CASE Release
    BY <1>3, <2>3 DEF Release, TrackInv, ManagerInv
  <2>4. CASE UNCHANGED vars \/ \E c \in Clients : ClientMoves(c)
    BY <2>2, <2>4 DEF vars, ticketVars, managerVars, ClientMoves
  <2>5. CASE ManagerMoves \/ PopJob \/ SendDone \/ CollectWaiting
             \/ \E t \in Tickets : FailWaiting(t)
    BY <1>3, <2>5 DEF ManagerMoves, PopJob, SendDone, CollectWaiting, FailWaiting
  <2>6. CASE TakeRequest \/ FailQueued \/ \E m \in Messages : Receive(m)
    BY <1>3, <2>6, TakeFacts, FailQueuedFacts, Received
  <2>7. CASE \E c \in Clients : 
               \/ Enqueue(c) \/ SeeSent(c) \/ SeeLock(c) \/ Unlock(c)
               \/ \E t \in Tickets : 
                    \/ BeginCancel(c, t) \/ \E pc \in Waits : BeginWait(c, t, pc)
                    \/ \E r \in Requests, mode \in Modes : BeginCall(c, t, r, mode)
    BY <2>2, <2>7, EnqueueFacts, OtherClients, BeginCallFacts DEF managerVars
  <2> QED
    BY <2>1, <2>3, <2>4, <2>5, <2>6, <2>7, StepKinds
<1> QED
  BY <1>2, <1>3 DEF TrackInv

LEMMA Tracked == 
  ASSUME ~SharedIds PROVE Spec => [](IInv /\ AloneInv /\ TrackInv)
<1>1. Init => AloneInv /\ TrackInv
  <2>1. ASSUME Init PROVE Asked = {} /\ Carried = {}
    BY <2>1 DEF Init, Asked, InSubmission, Carried, Queued, Range, AllModes
  <2> QED
    BY <2>1 DEF Init, AloneInv, TrackInv, Own, Unanswered
<1>2. IInv /\ AloneInv /\ TrackInv /\ [Next]_vars => AloneInv' /\ TrackInv'
  BY AloneKept, TrackKept
<1> QED
  BY <1>1, <1>2, Invariance, PTL DEF Spec

\* As long as callers leave identifiers to _getUniqueId, a request under one that
\* is its connection's own is in node.jobs from before it is sent until it is 
\* answered (_on_clientReq, _on_rxMsg): beside requests under "__global", persistent 
\* ones, those of other connections and removals of these, and whatever fails.
THEOREM OwnAnswerFindsTicket == ASSUME ~SharedIds PROVE Spec => []OwnIsTracked
<1>1. IInv /\ TrackInv => OwnIsTracked
  <2> SUFFICES ASSUME IInv, TrackInv, NEW t \in Own(wire)
               PROVE  t \in Registered
    BY DEF OwnIsTracked
  <2>1. jobs[job[t].id] = t
    BY DEF TrackInv, Own, Unanswered, Carried
  <2>2. t \in Tickets /\ job[t].id \in Ids
    BY JobFacts DEF IInv, WireInv, Born, Fresh, TypeOK, Own, Unanswered
  <2> QED
    BY <2>1, <2>2, RegisteredBorn, ConstantFacts DEF IInv
<1> QED
  BY <1>1, Tracked, PTL

\* A connection with no other requests finds the ticket of every answer.
THEOREM AnswerFindsTicket == ASSUME OwnRequests PROVE Spec => []SentIsTracked
<1>1. IInv /\ AloneInv /\ OwnIsTracked => SentIsTracked
  <2> SUFFICES ASSUME IInv, AloneInv, OwnIsTracked, NEW t \in wire, 
                      job[t].cmd # "WatchGlobal", result[t] = None
               PROVE  t \in Registered
    BY DEF SentIsTracked
  <2>1. job[t] \in Requests
    BY DEF AloneInv, Asked, Carried
  <2> QED
    BY <2>1 DEF OwnRequests, OwnIsTracked, Own, Unanswered
<1> QED
  BY <1>1, Tracked, OwnAnswerFindsTicket, PTL DEF OwnRequests

--------------------------------------------------------------------------------
(***************************************************************************)
(* A node that keeps to the protocol.                                      *)
(***************************************************************************)
\* The node only speaks of what it was sent, by the manager.
LEMMA TalkSteps ==
  ASSUME [Next]_vars
  PROVE  UNCHANGED wireVars \/ SendDone \/ \E m \in Messages : Receive(m) /\ UNCHANGED wire
<1> USE DEF wireVars, vars
<1>1. CASE MgrStep
  BY <1>1 DEF MgrStep, MgrStart, MgrStop, NothingIncoming, CallbackReturns, PopJob, 
     ResendDone, NoRequest, TakeRequest, PutResult, Release, CollectWaiting, FailWaiting, 
     WaitingFailed, FailQueued, QueueDrained, MgrExit, MgrGoto
<1>2. CASE NodeStep
  BY <1>2 DEF NodeStep, Receive, ReceiveUnreadable, Fault, ConnectionClosed, MgrGoto
<1>3. ASSUME NEW c \in Clients, InCall(c) PROVE UNCHANGED wireVars
  BY <1>3 DEF InCall, Enqueue, SeeSent, SeeLock, Unlock, GetResult, CancelSent, ClearRunning, 
     ShutdownDone
<1>4. ASSUME NEW c \in Clients, NewCall(c) PROVE UNCHANGED wireVars
  BY <1>4 DEF NewCall, BeginRefresh, CallRefused, BeginShutdown, SendTimeout, NodeTimeout,
     BeginCall, BeginWait, BeginCancel
<1> QED
  BY <1>1, <1>2, <1>3, <1>4 DEF Next

\* Attributes are set on new tickets and on tickets a message is for.
LEMMA FlagsStay ==
  ASSUME IInv, [Next]_vars, NEW u \in Born
  PROVE  flags[u] \subseteq flags'[u]
<1> USE DEF ticketVars, vars, IInv
<1>0. u \in Tickets /\ u \notin Fresh
  BY DEF Born
<1>1. CASE MgrStep
  BY <1>1 DEF MgrStep, MgrStart, MgrStop, NothingIncoming, CallbackReturns, PopJob, 
     ResendDone, NoRequest, TakeRequest, SendDone, PutResult, Release, CollectWaiting, 
     FailWaiting, WaitingFailed, FailQueued, QueueDrained, MgrExit, MgrGoto
<1>2. CASE NodeStep
  <2>1. ASSUME NEW m \in Messages, Receive(m) PROVE flags[u] \subseteq flags'[u]
    <3>1. \/ \E t : flags' = [flags EXCEPT ![t] = NewFlags(job[t], @, m)]
          \/ \E t \in Fresh : \E fl : flags' = [flags EXCEPT ![t] = fl]
      BY <2>1 DEF Receive, MakeTicket
    <3>2. flags[u] \subseteq NewFlags(job[u], flags[u], m)
      BY DEF NewFlags
    <3> QED
      BY <1>0, <3>1, <3>2 DEF TypeOK
  <2> QED
    BY <1>2, <2>1 DEF NodeStep, ReceiveUnreadable, Fault, ConnectionClosed, MgrGoto
<1>3. ASSUME NEW c \in Clients, InCall(c) PROVE flags[u] \subseteq flags'[u]
  BY <1>3 DEF InCall, Enqueue, SeeSent, SeeLock, Unlock, GetResult, CancelSent, ClearRunning, 
     ShutdownDone
<1>4. ASSUME NEW c \in Clients, NewCall(c) PROVE flags[u] \subseteq flags'[u]
  <2>1. UNCHANGED flags \/ \E t \in Fresh : \E fl : flags' = [flags EXCEPT ![t] = fl]
    BY <1>4 DEF NewCall, BeginRefresh, CallRefused, BeginShutdown, SendTimeout, NodeTimeout,
       BeginCall, BeginWait, BeginCancel, MakeTicket
  <2> QED
    BY <1>0, <2>1 DEF TypeOK
<1> QED
  BY <1>1, <1>2, <1>3, <1>4 DEF Next

LEMMA DataRequests ==
  ASSUME ProtocolKept, NEW i \in DataIds
  PROVE  /\ i \in OwnIds /\ i \in Ids /\ i # Global /\ i \notin ForeignIds 
         /\ AloneInv => \A t \in Asked : job[t].id = i => SaysWhereTo(job[t])
BY DEF ProtocolKept, AloneInv, OwnIds

\* Data come for a get that waits for them: the handler finds all it looks up.
LEMMA DataSafe ==
  ASSUME ProtocolKept, IInv, AloneInv, GetsOpen, 
         NEW m \in Messages, m.hdr \in {"DataFound", "AllData"}, InOrder(m)
  PROVE  /\ JobId(m) = m.ident /\ m.ident \in DataIds /\ jobs[m.ident] \in wire
         /\ jobs[m.ident] # NoTicket
         /\ ~Raises(job[jobs[m.ident]], flags[jobs[m.ident]], m)
<1> DEFINE i == m.ident 
           t == jobs[i]
<1>1. i \in DataIds /\ i \in Ids /\ i # Global /\ JobId(m) = i
  <2>1. i \in DataIds
    BY DEF DataIds
  <2>2. i \in Ids /\ i # Global
    BY <2>1, DataRequests
  <2> QED
    BY <2>1, <2>2, ConstantsAssumption DEF JobId
<1>2. IF m.hdr = "AllData" THEN talk[i] = "found" ELSE talk[i] = "open"
  BY <1>1 DEF InOrder, ProtocolKept, Announcements
<1>3. t \in wire /\ (m.hdr = "AllData" => "mimetype" \in flags[t])
  BY <1>1, <1>2 DEF GetsOpen, Unanswered
<1>4. t \in Asked /\ t \in Tickets /\ t # NoTicket
  BY <1>3, ConstantFacts DEF Asked, Carried, IInv, TypeOK
<1>5. job[t].id = i
  BY <1>1, <1>4 DEF IInv, TableInv
<1>6. SaysWhereTo(job[t])
  BY <1>1, <1>4, <1>5, DataRequests
<1> QED
  BY <1>1, <1>3, <1>4, <1>6 DEF Raises, SaysWhereTo

LEMMA NoCrashKept ==
  ASSUME ProtocolKept, ~Failures, IInv, AloneInv, GetsOpen, NoCrash, [Next]_vars
  PROVE  NoCrash'
<1> USE DEF NoCrash, IInv
<1>1. ASSUME mpc' = mpc, mjob' = mjob, mret' = mret, 
             result' = result
      PROVE  NoCrash'
  BY <1>1
<1>2. CASE \/ MgrStart \/ MgrStop \/ NothingIncoming \/ CallbackReturns \/ PopJob
           \/ ResendDone \/ NoRequest \/ SendDone \/ PutResult \/ Release 
           \/ CollectWaiting \/ (\E t \in Tickets : FailWaiting(t))
           \/ WaitingFailed \/ FailQueued \/ QueueDrained \/ MgrExit
           \/ Fault \/ ConnectionClosed
  BY <1>2 DEF MgrStart, MgrStop, NothingIncoming, CallbackReturns, PopJob, ResendDone, 
     NoRequest, SendDone, PutResult, Release, CollectWaiting, FailWaiting, WaitingFailed, 
     FailQueued, QueueDrained, MgrExit, MgrGoto, Fault, ConnectionClosed, ManagerInv
<1>3. CASE TakeRequest
  BY <1>3, TakeFacts DEF QueueInv
<1>4. ASSUME NEW m \in Messages, Receive(m) PROVE NoCrash'
  <2>1. mpc' # "crash"
    <3> SUFFICES ASSUME mpc' = "crash" PROVE FALSE
      OBVIOUS
    <3>1. InOrder(m) /\ \/ jobs[JobId(m)] # NoTicket 
                           /\ Dispatch(jobs[JobId(m)], job[jobs[JobId(m)]], flags[jobs[JobId(m)]], m)
                        \/ \E t : jobs[JobId(m)] = NoTicket /\ Dispatch(t, JobFor(m), {}, m)
      BY <1>4 DEF Receive
    <3>2. \/ jobs[JobId(m)] # NoTicket /\ Raises(job[jobs[JobId(m)]], flags[jobs[JobId(m)]], m)
          \/ jobs[JobId(m)] = NoTicket /\ Raises(JobFor(m), {}, m)
      BY <3>1 DEF Dispatch
    <3>3. m.hdr \in {"DataFound", "AllData"}
      BY <3>2 DEF Raises
    <3> QED
      BY <3>1, <3>2, <3>3, DataSafe
  <2> QED
    BY <1>4, <2>1, Received
<1>5. ASSUME NEW m \in Messages, ReceiveUnreadable(m) PROVE FALSE
  <2>1. m.hdr = "AllData" /\ InOrder(m) /\ (m.ident \in Ids => jobs[m.ident] = NoTicket)
    BY <1>5 DEF ReceiveUnreadable, Unreadable
  <2> QED
    BY <2>1, DataSafe, DataRequests
<1>6. ASSUME NEW c \in Clients, InCall(c) PROVE NoCrash'
  BY <1>1, <1>6 DEF InCall, Enqueue, SeeSent, SeeLock, Unlock, GetResult, CancelSent, ClearRunning, 
     ShutdownDone, managerVars, ticketVars
<1>7. ASSUME NEW c \in Clients, NewCall(c) PROVE NoCrash'
  BY <1>1, <1>7 DEF NewCall, BeginRefresh, CallRefused, BeginShutdown, SendTimeout, 
     NodeTimeout, BeginCall, BeginWait, BeginCancel, MakeTicket, managerVars, ticketVars
<1>8. CASE UNCHANGED vars
  BY <1>1, <1>8 DEF vars, managerVars, ticketVars
<1> QED
  BY <1>2, <1>3, <1>4, <1>5, <1>6, <1>7, <1>8 DEF Next, MgrStep, NodeStep

\* A message for a request is about the get the table has, and only the last
\* word on a get is its result.
LEMMA GetsSpoken ==
  ASSUME ProtocolKept, IInv, AloneInv, GetsOpen, NEW m \in Messages, Receive(m),
         JobId(m) \in DataIds, talk'[JobId(m)] \in {"open", "found"}, 
         talk[JobId(m)] # "none"
  PROVE  /\ talk[JobId(m)] \in {"open", "found"} /\ mpc' # "put"
         /\ talk'[JobId(m)] = "found" => "mimetype" \in flags'[jobs[JobId(m)]]
<1> DEFINE i == JobId(m)
           t == jobs[i]
<1> USE DEF ProtocolKept
<1>1. i \in Ids /\ i # Global 
  BY DataRequests
<1>2. talk'[i] = LastWord(m) /\ InOrder(m)
  BY <1>1 DEF Receive, Tell, IInv, TypeOK
<1>3. \/ talk[i] = "open" /\ m.hdr \notin Announcements \cup {"PersistentRequestRemoved", "AllData"}
      \/ talk[i] = "found" /\ m.hdr = "AllData"
      \/ m.hdr = "PersistentRequestRemoved"
  BY <1>1, <1>2 DEF InOrder
<1>4. /\ talk[i] = "open" /\ m.hdr \notin Announcements \cup {"PersistentRequestRemoved", "AllData"}
      /\ \/ m.hdr = "DataFound" /\ talk'[i] = "found"
         \/ m.hdr \in Progress \/ Redirected(job[t], m)
      /\ talk'[i] = "found" => m.hdr = "DataFound"
  <2>1. ASSUME talk[i] = "open" PROVE \A w \in wire : job[w].id = i => w = t
    <3>1. t \in Unanswered(wire) /\ job[t].id = i
      BY <1>1, <2>1, ConstantFacts DEF GetsOpen, Unanswered, IInv, TypeOK, TableInv
    <3>2. t \in Own(Asked) /\ wire \subseteq Born
      BY <3>1, DataRequests DEF Own, Unanswered, Asked, Carried, IInv, WireInv
    <3> QED
      BY <3>1, <3>2 DEF AloneInv
  <2>2. \/ talk[i] = "open" /\ m.hdr \notin Announcements \cup {"PersistentRequestRemoved", "AllData"}
        \/ talk'[i] \notin {"open", "found"}
    BY <1>2, <1>3 DEF LastWord, Announcements, Progress, Redirected
  <2> QED
    BY <1>2, <2>1, <2>2 DEF LastWord
<1>5. t \in wire /\ t # NoTicket /\ t \in Tickets /\ job[t].id = i
  BY <1>1, <1>4, ConstantFacts DEF GetsOpen, Unanswered, IInv, TypeOK, TableInv
<1>6. m.hdr = "DataFound" => ~DataElsewhere(job[t])
  BY <1>2, <1>4, <1>5 DEF LastWord, Announcements, Progress, Redirected
<1>7. ~Succeeds(job[t], m) /\ ~Fails(job[t], m)
  BY <1>4, <1>6 DEF Succeeds, Fails, Redirected, ThenPopped, Listings, Progress,
     Announcements, Handled
<1>8. Dispatch(t, job[t], flags[t], m) /\ flags' = [flags EXCEPT ![t] = NewFlags(job[t], @, m)]
  BY <1>5 DEF Receive
<1> QED
  BY <1>4, <1>5, <1>7, <1>8 DEF Dispatch, NewFlags, IInv, TypeOK

\* What the node says of an identifier of this connection follows a request.
LEMMA SolicitedSent ==
  ASSUME NEW m \in Messages, Solicited(m), JobId(m) \notin ForeignIds
  PROVE  \E w \in wire : job[w].id = JobId(m)
BY DEF Solicited

\* Without a crash only messages bring results.
LEMMA PutSteps ==
  ASSUME IInv, NoCrash, [Next]_vars
  PROVE  mpc' # "put" \/ UNCHANGED <<mpc, mjob>> \/ \E m \in Messages : Receive(m)
<1> USE DEF IInv, NoCrash
<1>1. CASE UNCHANGED vars \/ \E c \in Clients : ClientMoves(c)
  BY <1>1 DEF vars, managerVars, ClientMoves
<1>2. CASE ManagerMoves \/ PopJob \/ SendDone \/ PutResult \/ Release \/ CollectWaiting
           \/ \E t \in Tickets : FailWaiting(t)
  BY <1>2 DEF ManagerMoves, PopJob, SendDone, PutResult, Release, CollectWaiting, 
     FailWaiting, ManagerInv
<1>3. CASE TakeRequest \/ FailQueued
  BY <1>3, TakeFacts, FailQueuedFacts
<1>4. CASE \E c \in Clients : 
             \/ Enqueue(c) \/ SeeSent(c) \/ SeeLock(c) \/ Unlock(c)
             \/ \E t \in Tickets : 
                  \/ BeginCancel(c, t) \/ \E pc \in Waits : BeginWait(c, t, pc)
                  \/ \E r \in Requests, mode \in Modes : BeginCall(c, t, r, mode)
  BY <1>4, EnqueueFacts, OtherClients, BeginCallFacts DEF managerVars
<1> QED
  BY <1>1, <1>2, <1>3, <1>4, StepKinds

LEMMA GetsOpenKept ==
  ASSUME ProtocolKept, IInv, AloneInv, TrackInv, TrackInv', GetsOpen, NoCrash, [Next]_vars
  PROVE  GetsOpen'
<1> USE DEF ProtocolKept
<1>0. /\ talk \in [Ids -> {"none", "open", "found", "closed"}]
      /\ wire \subseteq Asked /\ wire \subseteq Born
  BY DEF IInv, TypeOK, WireInv, Asked, Carried
<1>1. ASSUME NEW t \in wire', job'[t].id \in DataIds PROVE talk'[job'[t].id] # "none"
  <2>1. CASE SendDone
    <3>1. /\ wire' = wire \cup {mjob} /\ Tell(job[mjob].id, "open") /\ job' = job
      BY <2>1 DEF SendDone
    <3>2. job[t].id \in Ids /\ job[t].id # Global
      BY <1>1, <3>1, DataRequests
    <3> QED
      BY <1>0, <1>1, <3>1, <3>2, DataRequests DEF Tell, GetsOpen
  <2>2. CASE t \in wire
    <3>1. job'[t] = job[t] /\ talk[job[t].id] # "none" /\ job[t] \in Requests
          /\ job[t].id \in Ids
      BY <1>0, <1>1, <2>2, TicketsStay DEF GetsOpen, AloneInv
    <3>2. ASSUME NEW m \in Messages, Receive(m), JobId(m) = job[t].id
          PROVE  LastWord(m) # "none"
      BY <1>1, <3>1, <3>2, DataRequests DEF OwnIds, Forgets, LastWord
    <3>3. ASSUME NEW m \in Messages, Receive(m) PROVE talk'[job[t].id] # "none"
      <4>1. Tell(JobId(m), LastWord(m)) 
        BY <3>3 DEF Receive
      <4> QED
        BY <1>0, <3>1, <3>2, <3>3, <4>1 DEF Tell
    <3>4. CASE UNCHANGED wireVars
      BY <3>1, <3>4 DEF wireVars
    <3> QED
      BY <2>1, <3>1, <3>3, <3>4, TalkSteps
  <2> QED
    BY <2>1, <2>2, TalkSteps DEF wireVars
<1>2. ASSUME NEW i \in DataIds, talk'[i] \in {"open", "found"}
      PROVE  /\ jobs'[i] \in Unanswered(wire)'
             /\ ~(mpc' = "put" /\ mjob' = jobs'[i])
             /\ talk'[i] = "found" => "mimetype" \in flags'[jobs'[i]]
  <2> DEFINE t == jobs[i]
  <2>1. i \in Ids /\ i # Global /\ i \notin ForeignIds
    BY DataRequests
  <2>2. CASE SendDone /\ job[mjob].id = i
    <3>1. /\ mjob \in Asked /\ mjob \in Carried /\ result[mjob] = None
          /\ wire' = wire \cup {mjob} /\ talk'[i] = "open" /\ mpc' = "poll"
          /\ UNCHANGED <<job, jobs, result>>
      BY <1>0, <2>1, <2>2 DEF SendDone, Tell, Asked, Carried, NoCrash, nodeVars
    <3>2. job[mjob].cmd # "WatchGlobal" /\ i \in OwnIds
      BY <2>2, <3>1, DataRequests DEF SaysWhereTo
    <3>3. jobs[i] = mjob
      BY <2>2, <3>1, <3>2 DEF TrackInv, Own, Unanswered
    <3> QED
      BY <3>1, <3>2, <3>3 DEF Unanswered
  <2>3. ASSUME t \in Unanswered(wire), ~(mpc = "put" /\ mjob = t), 
               ~(mpc' = "put" /\ mjob' = t), wire \subseteq wire',
               talk'[i] = "found" => "mimetype" \in flags'[t]
        PROVE  /\ jobs'[i] \in Unanswered(wire)'
               /\ ~(mpc' = "put" /\ mjob' = jobs'[i])
               /\ talk'[i] = "found" => "mimetype" \in flags'[jobs'[i]]
    <3>1. /\ t \in wire /\ t \in Born /\ t \in Tickets /\ t # NoTicket 
          /\ job[t].cmd # "WatchGlobal" /\ result[t] = None
      BY <1>0, <2>3, ConstantFacts DEF Unanswered, Born
    <3>2. job'[t] = job[t] /\ job[t].id = i
      BY <2>1, <3>1, TicketsStay DEF IInv, TableInv
    <3>3. result'[t] = None
      BY <2>3, <3>1, OnlyPutResults DEF PutResult, IInv, TypeOK
    <3>4. t \in Own(Carried)'
      BY <2>3, <3>1, <3>2, <3>3, DataRequests DEF Own, Unanswered, Carried
    <3>5. jobs'[i] = t
      BY <3>2, <3>4 DEF TrackInv
    <3> QED
      BY <2>3, <3>1, <3>2, <3>3, <3>5 DEF Unanswered
  <2>4. ASSUME NEW m \in Messages, Receive(m), JobId(m) = i
        PROVE  /\ jobs'[i] \in Unanswered(wire)'
               /\ ~(mpc' = "put" /\ mjob' = jobs'[i])
               /\ talk'[i] = "found" => "mimetype" \in flags'[jobs'[i]]
    <3>1. talk[i] # "none"
      <4>1. \E w \in wire : job[w].id = i
        BY <2>1, <2>4, SolicitedSent DEF Receive
      <4> QED
        BY <4>1 DEF GetsOpen
    <3>2. /\ talk[i] \in {"open", "found"} /\ mpc' # "put" /\ mpc = "poll"
          /\ talk'[i] = "found" => "mimetype" \in flags'[t]
      BY <1>2, <2>4, <3>1, GetsSpoken, Received DEF IInv
    <3>3. wire' = wire
      BY <2>4 DEF Receive
    <3> QED
      BY <2>3, <3>2, <3>3 DEF GetsOpen
  <2>5. ASSUME talk'[i] = talk[i], wire \subseteq wire', 
               ~ \E m \in Messages : Receive(m) /\ JobId(m) = i
        PROVE  /\ jobs'[i] \in Unanswered(wire)'
               /\ ~(mpc' = "put" /\ mjob' = jobs'[i])
               /\ talk'[i] = "found" => "mimetype" \in flags'[jobs'[i]]
    <3>1. /\ t \in Unanswered(wire) /\ ~(mpc = "put" /\ mjob = t) /\ t \in Born
          /\ talk[i] = "found" => "mimetype" \in flags[t]
      BY <1>0, <1>2, <2>5 DEF GetsOpen, Unanswered
    <3>2. talk'[i] = "found" => "mimetype" \in flags'[t]
      BY <2>5, <3>1, FlagsStay
    <3>3. ~(mpc' = "put" /\ mjob' = t)
      <4>1. ASSUME NEW m \in Messages, Receive(m), mpc' = "put" PROVE mjob' # t
        <5>1. mjob' = jobs[JobId(m)] \/ mjob' \in Fresh
          BY <4>1 DEF Receive, Dispatch
        <5>2. JobId(m) # i /\ JobId(m) \in Ids
          BY <2>5, <4>1, JobFacts
        <5>3. job[t].id = i /\ t \notin Fresh /\ t # NoTicket
          BY <2>1, <3>1, ConstantFacts DEF IInv, TableInv, Born
        <5> QED
          BY <5>1, <5>2, <5>3 DEF IInv, TableInv
      <4>2. mpc' # "put" \/ UNCHANGED <<mpc, mjob>> \/ \E m \in Messages : Receive(m)
        BY PutSteps
      <4> QED
        BY <3>1, <4>1, <4>2
    <3> QED
      BY <2>3, <2>5, <3>1, <3>2, <3>3
  <2>6. CASE SendDone /\ job[mjob].id # i
    <3>1. Tell(job[mjob].id, "open") /\ wire \subseteq wire' /\ mpc = "sending"
      BY <2>6 DEF SendDone
    <3>2. talk'[i] = talk[i]
      BY <1>0, <2>6, <3>1 DEF Tell
    <3> QED
      BY <2>5, <3>1, <3>2, Received DEF IInv
  <2>7. ASSUME NEW m \in Messages, Receive(m), JobId(m) # i
        PROVE  talk'[i] = talk[i] /\ wire' = wire
    <3>1. Tell(JobId(m), LastWord(m)) /\ wire' = wire
      BY <2>7 DEF Receive
    <3> QED
      BY <1>0, <2>7, <3>1 DEF Tell
  <2> QED
    BY <2>2, <2>4, <2>5, <2>6, <2>7, TalkSteps DEF wireVars
<1> QED
  BY <1>1, <1>2 DEF GetsOpen

\* A node that keeps to the protocol does not make the manager thread raise
\* (_mgrThread, _on_rxMsg) as long as the connection holds, callbacks return, and the
\* data it sends are for requests with identifiers of their own that say where the
\* data go.  Beside them there may be any other requests and messages: under 
\* "__global", persistent or of other connections, announced and removed; these
\* bring no data, and what comes for a job that is gone is not the protocol's.
THEOREM ManagerStays == ASSUME ProtocolKept PROVE Spec => []ManagerSurvives
<1>1. CASE Failures
  BY <1>1, PTL DEF ManagerSurvives
<1>2. CASE ~Failures
  <2>1. Init => GetsOpen /\ NoCrash
    BY DataRequests DEF Init, GetsOpen, NoCrash
  <2>2. /\ IInv /\ AloneInv /\ TrackInv /\ TrackInv' /\ GetsOpen /\ NoCrash /\ [Next]_vars 
        => GetsOpen' /\ NoCrash'
    BY <1>2, GetsOpenKept, NoCrashKept
  <2>3. NoCrash => ManagerSurvives
    BY DEF NoCrash, ManagerSurvives
  <2> QED
    BY <2>1, <2>2, <2>3, Tracked, PTL DEF Spec, ProtocolKept
<1> QED
  BY <1>1, <1>2
================================================================================

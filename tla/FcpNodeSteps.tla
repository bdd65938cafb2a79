----------------------------- MODULE FcpNodeSteps ------------------------------
(***************************************************************************)
(* What each step of FcpNode does to the tickets, the table and the queue, *)
(* in the terms the invariants speak of.  The proofs of FcpNode_proofs go  *)
(* by the kinds of steps named here, so that most of them never look at    *)
(* the text of an action.                                                  *)
(***************************************************************************)
EXTENDS FcpNodeInv, TLAPS

(***************************************************************************)
(* Sequences without repetitions.                                          *)
(***************************************************************************)
\* Taking the head of a sequence without repetitions takes it out of the range.
LEMMA QueueTail ==
  ASSUME NEW S, NEW q \in Seq(S), q # <<>>
  PROVE  /\ Head(q) \in S /\ Tail(q) \in Seq(S)
         /\ Range(q) = {Head(q)} \cup Range(Tail(q))
         /\ IsInjective(q) => IsInjective(Tail(q)) /\ Head(q) \notin Range(Tail(q))
<1>1. Head(q) \in S /\ Tail(q) \in Seq(S)
  OBVIOUS
<1>2. Head(q) = q[1] /\ Len(q) \in Nat \ {0} /\ DOMAIN q = 1..Len(q) 
  OBVIOUS
<1>3. DOMAIN Tail(q) = 1..(Len(q) - 1) /\ \A i \in 1..(Len(q) - 1) : Tail(q)[i] = q[i+1]
  OBVIOUS
<1>4. Range(q) = {Head(q)} \cup Range(Tail(q))
  <2>1. ASSUME NEW i \in 1..Len(q) PROVE q[i] \in {Head(q)} \cup Range(Tail(q))
    <3>1. CASE i = 1 
      BY <3>1, <1>2
    <3>2. CASE i # 1
      <4>1. i - 1 \in 1..(Len(q) - 1) /\ q[i] = Tail(q)[i - 1]
        BY <3>2, <1>2, <1>3
      <4> QED 
        BY <4>1, <1>3 DEF Range
    <3> QED 
      BY <3>1, <3>2
  <2>2. ASSUME NEW i \in 1..(Len(q) - 1) PROVE Tail(q)[i] \in Range(q)
    <3>1. i + 1 \in 1..Len(q) /\ Tail(q)[i] = q[i + 1]
      BY <1>2, <1>3
    <3> QED 
      BY <3>1, <1>2 DEF Range
  <2>3. Head(q) \in Range(q)
    BY <1>2 DEF Range
  <2> QED 
    BY <2>1, <2>2, <2>3, <1>2, <1>3 DEF Range
<1>5. ASSUME IsInjective(q) 
      PROVE  IsInjective(Tail(q)) /\ Head(q) \notin Range(Tail(q))
  <2>1. \A i \in 1..(Len(q) - 1) : 
          /\ i + 1 \in DOMAIN q /\ 1 \in DOMAIN q /\ i + 1 # 1 
          /\ Tail(q)[i] = q[i + 1]
    BY <1>2, <1>3
  <2>2. IsInjective(Tail(q))
    BY <1>3, <1>5, <2>1 DEF IsInjective
  <2>3. Head(q) \notin Range(Tail(q))
    BY <1>2, <1>3, <1>5, <2>1 DEF IsInjective, Range
  <2> QED 
    BY <2>2, <2>3
<1> QED 
  BY <1>1, <1>4, <1>5

\* Appending an element that is not there keeps a sequence without repetitions.
LEMMA QueueAppend ==
  ASSUME NEW S, NEW q \in Seq(S), NEW e \in S
  PROVE  /\ Append(q, e) \in Seq(S)
         /\ Range(Append(q, e)) = Range(q) \cup {e}
         /\ IsInjective(q) /\ e \notin Range(q) => IsInjective(Append(q, e))
<1>1. Append(q, e) \in Seq(S)
  OBVIOUS
<1>2. /\ Len(q) \in Nat /\ DOMAIN q = 1..Len(q)
      /\ DOMAIN Append(q, e) = 1..(Len(q) + 1) 
      /\ Append(q, e)[Len(q) + 1] = e
      /\ \A i \in 1..Len(q) : Append(q, e)[i] = q[i]
  OBVIOUS
<1>3. 1..(Len(q) + 1) = 1..Len(q) \cup {Len(q) + 1}
  BY <1>2
<1>4. Range(Append(q, e)) = Range(q) \cup {e}
  BY <1>2, <1>3 DEF Range
<1>5. ASSUME IsInjective(q), e \notin Range(q) 
      PROVE  IsInjective(Append(q, e))
  BY <1>2, <1>3, <1>5 DEF IsInjective, Range
<1> QED 
  BY <1>1, <1>4, <1>5

\* What most proofs need of the constants.
LEMMA ConstantFacts ==
  /\ NoTicket \notin Tickets /\ Global \in Ids 
  /\ Modes \subseteq AllModes /\ Waits \subseteq AllWaits
BY ConstantsAssumption

\* Jobs are told from the pool's unborn objects by their identifier, also the
\* jobs _on_rxMsg makes for messages of unknown identifiers.
LEMMA JobFacts ==
  /\ \A r \in JobType : r.id \in Ids /\ r # Unborn
  /\ \A r \in Requests : r \in JobType
  /\ \A m \in Messages : 
       JobId(m) \in Ids /\ JobFor(m) \in JobType /\ JobFor(m).id = JobId(m)
<1>1. \A r \in JobType : r.id \in Ids /\ r # Unborn
  <2>1. \A r \in JobType : r.id \in Ids
    BY DEF JobType
  <2>2. Unborn.id \notin Ids
    BY ConstantsAssumption DEF Unborn
  <2> QED 
    BY <2>1, <2>2
<1>2. \A r \in Requests : r \in JobType
  BY ConstantsAssumption
<1>3. ASSUME NEW m \in Messages 
      PROVE  JobId(m) \in Ids /\ JobFor(m) \in JobType /\ JobFor(m).id = JobId(m)
  <2>1. m \in MessageType
    BY ConstantsAssumption
  <2>2. JobId(m) \in Ids
    BY <2>1, ConstantsAssumption DEF MessageType, JobId
  <2>3. m.hdr \in STRING /\ m.kw \in SUBSET STRING
    BY <2>1 DEF MessageType
  <2> QED 
    BY <2>2, <2>3 DEF JobFor, JobType, JobOptions
<1> QED 
  BY <1>1, <1>2, <1>3

--------------------------------------------------------------------------------
(***************************************************************************)
(* The places a ticket can be in, across a step.                           *)
(***************************************************************************)

\* The sets of tickets change only with the variables they are read from.
LEMMA Derived ==
  /\ UNCHANGED job => Born' = Born /\ Fresh' = Fresh
  /\ UNCHANGED jobs => Registered' = Registered
  /\ UNCHANGED queue => Queued' = Queued
  /\ UNCHANGED <<mpc, mjob>> => \A t : AtHand(t)' = AtHand(t)
BY DEF Born, Fresh, Registered, Queued, AtHand

\* Deleting one identifier from node.jobs registers nothing new.
LEMMA Unregister ==
  ASSUME TypeOK, NEW i, jobs' = [jobs EXCEPT ![i] = NoTicket]
  PROVE  /\ Registered' \subseteq Registered
         /\ \A k \in Ids : jobs'[k] # NoTicket => jobs'[k] = jobs[k]
         /\ i \in Ids => jobs'[i] = NoTicket
BY DEF TypeOK, Registered, Range

\* Assigning one identifier in node.jobs registers at most the new ticket.
LEMMA Register ==
  ASSUME TypeOK, NEW i \in Ids, NEW t \in Tickets, jobs' = [jobs EXCEPT ![i] = t]
  PROVE  Registered' \subseteq Registered \cup {t}
BY DEF TypeOK, Registered, Range

\* JobTicket.__init__ makes one ticket and leaves the others as they are.
LEMMA Made ==
  ASSUME TypeOK, NEW t, NEW r \in JobType, NEW fl, MakeTicket(t, r, fl)
  PROVE  /\ t \in Tickets /\ t \notin Born 
         /\ Born' = Born \cup {t} 
         /\ job'[t] = r /\ \A u \in Born : job'[u] = job[u]
BY JobFacts DEF TypeOK, MakeTicket, Born, Fresh

\* What clientReqQueue.get does to the queued tickets.
LEMMA QueueStep0 == 
  ASSUME TypeOK, queue # <<>>, queue' = Tail(queue)
  PROVE  /\ Head(queue) \in Tickets /\ Head(queue) \in Queued /\ queue' \in Seq(Tickets)
         /\ Queued = {Head(queue)} \cup Queued'
         /\ IsInjective(queue) => IsInjective(queue') /\ Queued' = Queued \ {Head(queue)}
BY QueueTail DEF TypeOK, Queued

\* node.jobs holds made tickets only.
LEMMA RegisteredBorn ==
  ASSUME TypeOK, TableInv
  PROVE  /\ Registered \subseteq Born
         /\ \A i \in Ids : jobs[i] # NoTicket => jobs[i] \in Registered
<1>1. \A i \in Ids : jobs[i] # NoTicket => jobs[i] \in Registered /\ jobs[i] \in Tickets
  BY DEF TypeOK, Registered, Range
<1>2. ASSUME NEW i \in Ids, jobs[i] # NoTicket PROVE job[jobs[i]] # Unborn
  <2>1. job[jobs[i]].id \in Ids
    BY <1>2 DEF TableInv
  <2>2. Unborn.id \notin Ids
    BY ConstantsAssumption DEF Unborn
  <2> QED
    BY <2>1, <2>2
<1>3. \A t \in Registered : \E i \in Ids : t = jobs[i] /\ t # NoTicket
  BY DEF TypeOK, Registered, Range
<1> QED
  BY <1>1, <1>2, <1>3 DEF Born, Fresh

(***************************************************************************)
(* Most steps move one thread and leave the tickets where they are.        *)
(***************************************************************************)
ManagerMoves ==
  /\ UNCHANGED <<ticketVars, jobs, queue, clientVars, wire, crashed>>
  /\ mpc' \notin {"put", "release", "pop", "sending", "resending"}
  /\ \/ mpc \notin {"put", "release", "fail", "drain", "exit", "done"} 
        /\ (mpc' = "exit" => ~running) /\ mpc' \notin {"fail", "drain", "done"}
     \/ mpc = "put" /\ ~Failing("fail") /\ mpc' = "crash"
     \/ mpc = "fail" /\ crashed = {} /\ mpc' = "drain"
     \/ mpc = "drain" /\ mpc' = "exit"
     \/ mpc = "exit" /\ mpc' = "done"
  /\ UNCHANGED running

NothingDelivered == 
  \A c \in Clients : cret'[c] = cret[c] \/ cret'[c] \notin Deliveries

ClientMoves(c) ==
  /\ UNCHANGED <<ticketVars, jobs, queue, managerVars, wire>>
  /\ \E pc \in {"idle", "refresh", "stopping", "awaitMgr"} : ClientAt(c, pc)
  /\ cjob' \in {cjob, [cjob EXCEPT ![c] = NoTicket]}
  /\ running' => running
  /\ NothingDelivered \/ GetResult(c)

\* Every step is one of these kinds.
LEMMA StepKinds ==
  ASSUME TypeOK, ManagerInv, [Next]_vars
  PROVE  \/ UNCHANGED vars \/ ManagerMoves \/ \E c \in Clients : ClientMoves(c)
         \/ PopJob \/ TakeRequest \/ SendDone \/ PutResult \/ Release 
         \/ CollectWaiting \/ FailQueued
         \/ \E t \in Tickets : FailWaiting(t)
         \/ \E m \in Messages : Receive(m)
         \/ \E c \in Clients : Enqueue(c) \/ SeeSent(c) \/ SeeLock(c) \/ Unlock(c)
         \/ \E c \in Clients, t \in Tickets : 
              \/ \E r \in Requests, mode \in Modes : BeginCall(c, t, r, mode)
              \/ \E pc \in Waits : BeginWait(c, t, pc)
              \/ BeginCancel(c, t)
<1> USE DEF ticketVars, nodeVars, managerVars, clientVars, wireVars
<1>1. CASE \/ MgrStart \/ MgrStop \/ NothingIncoming \/ CallbackReturns \/ ResendDone 
           \/ NoRequest \/ WaitingFailed \/ QueueDrained \/ MgrExit 
           \/ Fault \/ ConnectionClosed \/ \E m \in Messages : ReceiveUnreadable(m)
  <2>1. ManagerMoves
    BY <1>1 DEF MgrStart, MgrStop, NothingIncoming, CallbackReturns, ResendDone, 
       NoRequest, WaitingFailed, QueueDrained, MgrExit, Fault, ConnectionClosed,
       ReceiveUnreadable, MgrGoto, ManagerMoves, ManagerInv, Failing
  <2> QED
    BY <2>1
<1>2. ASSUME NEW c \in Clients,
             \/ GetResult(c) \/ CancelSent(c) \/ ClearRunning(c) \/ ShutdownDone(c) 
             \/ BeginRefresh(c) \/ CallRefused(c) \/ BeginShutdown(c)
             \/ SendTimeout(c) \/ NodeTimeout(c)
      PROVE  ClientMoves(c)
  <2>1. /\ UNCHANGED <<ticketVars, jobs, queue, managerVars, wire>>
        /\ \E pc \in {"idle", "refresh", "stopping", "awaitMgr"} : ClientAt(c, pc)
        /\ cjob' \in {cjob, [cjob EXCEPT ![c] = NoTicket]}
        /\ running' => running
    BY <1>2 DEF GetResult, CancelSent, ClearRunning, ShutdownDone, BeginRefresh, 
       CallRefused, BeginShutdown, SendTimeout, NodeTimeout, Return, ClientAt
  <2>2. \/ GetResult(c) \/ UNCHANGED cret 
        \/ \E ret \in Outcomes \ Deliveries : cret' = [cret EXCEPT ![c] = ret]
    BY <1>2 DEF CancelSent, ClearRunning, ShutdownDone, BeginRefresh, CallRefused,
       BeginShutdown, SendTimeout, NodeTimeout, Return, ClientAt, Outcomes, 
       Deliveries, Results, None
  <2>3. NothingDelivered \/ GetResult(c)
    BY <2>2 DEF NothingDelivered, TypeOK
  <2> QED
    BY <2>1, <2>3 DEF ClientMoves
<1> QED
  BY <1>1, <1>2 DEF Next, MgrStep, NodeStep, InCall, NewCall

\* What _on_rxMsg does to the tickets: it is about one ticket, a registered one
\* or a new one, and at most that one is resolved next.
LEMMA Received ==
  ASSUME TypeOK, TableInv, NEW m \in Messages, Receive(m)
  PROVE  \E t \in Tickets :
    /\ t \in Registered \/ t \notin Born
    /\ Born' = Born \cup {t} /\ Registered' \subseteq Registered \cup {t}
    /\ \A u \in Born : job'[u] = job[u]
    /\ \A i \in Ids : jobs'[i] \in {jobs[i], NoTicket, t} 
    /\ \A i \in Ids : jobs'[i] = t => job'[t].id = i \/ jobs[i] = t
    /\ lockHeld' = lockHeld \cup ({t} \ Born) /\ sentHeld' = sentHeld \cup ({t} \ Born)
    /\ mpc' \in {"put", "resending", "req", "callback", "crash"}
    /\ mpc' = "put" => /\ mjob' = t /\ mval' \in Results 
                       /\ mret' \in {"req", "pop", "callback"}
    /\ mpc' = "resending" => mret' \in {"req", "callback"}
    /\ mpc = "poll"
    /\ UNCHANGED <<result, queue, handed, wire, crashed, running, clientVars>>
<1>1. PICK t \in Tickets : 
        \/ /\ t = jobs[JobId(m)] /\ t # NoTicket
           /\ Dispatch(t, job[t], flags[t], m)
           /\ jobs' = IF Forgets(m) THEN [jobs EXCEPT ![JobId(m)] = NoTicket] ELSE jobs
           /\ UNCHANGED <<job, lockHeld, sentHeld, result>>
        \/ /\ t \in Fresh
           /\ MakeTicket(t, JobFor(m), NewFlags(JobFor(m), {}, m))
           /\ Dispatch(t, JobFor(m), {}, m)
           /\ jobs' = IF Forgets(m) THEN jobs ELSE [jobs EXCEPT ![JobId(m)] = t]
  BY JobFacts DEF Receive, TypeOK, Fresh
<1>2. \E r, fl : Dispatch(t, r, fl, m)
  BY <1>1
<1>3. /\ mpc' \in {"put", "resending", "req", "callback", "crash"}
      /\ mpc' = "put" => /\ mjob' = t /\ mval' \in Results 
                         /\ mret' \in {"req", "pop", "callback"}
      /\ mpc' = "resending" => mret' \in {"req", "callback"}
  BY <1>2 DEF Dispatch, AfterResult, Results
<1>4. mpc = "poll" /\ UNCHANGED <<queue, handed, wire, crashed, running, clientVars>>
  BY DEF Receive
<1>5. CASE t = jobs[JobId(m)] /\ t # NoTicket /\ UNCHANGED <<job, lockHeld, sentHeld, result>>
           /\ jobs' = IF Forgets(m) THEN [jobs EXCEPT ![JobId(m)] = NoTicket] ELSE jobs
  <2>1. t \in Registered /\ t \in Born 
    BY <1>5, JobFacts, RegisteredBorn
  <2>2. Registered' \subseteq Registered /\ \A i \in Ids : jobs'[i] \in {jobs[i], NoTicket} 
    BY <1>5, Unregister, Derived
  <2>3. Born' = Born
    BY <1>5, Derived
  <2>4. NoTicket # t
    BY <1>5
  <2> QED
    BY <1>3, <1>4, <1>5, <2>1, <2>2, <2>3, <2>4
<1>6. CASE /\ MakeTicket(t, JobFor(m), NewFlags(JobFor(m), {}, m))
           /\ jobs' = IF Forgets(m) THEN jobs ELSE [jobs EXCEPT ![JobId(m)] = t]
  <2>1. /\ t \notin Born /\ Born' = Born \cup {t} 
        /\ job'[t] = JobFor(m) /\ \A u \in Born : job'[u] = job[u]
    BY <1>6, Made, JobFacts
  <2>2. Registered' \subseteq Registered \cup {t}
    BY <1>6, Register, Derived, JobFacts
  <2>3. /\ \A i \in Ids : jobs'[i] \in {jobs[i], NoTicket, t} 
        /\ \A i \in Ids : jobs'[i] = t => job'[t].id = i \/ jobs[i] = t
    BY <1>6, <2>1, JobFacts DEF TypeOK
  <2>4. /\ lockHeld' = lockHeld \cup {t} /\ sentHeld' = sentHeld \cup {t} 
        /\ result' = result
    BY <1>6 DEF MakeTicket
  <2> QED
    BY <1>3, <1>4, <2>1, <2>2, <2>3, <2>4
<1> QED
  BY <1>1, <1>5, <1>6

\* What _on_clientReq does to the tickets before it sends.
LEMMA TakeFacts ==
  ASSUME TypeOK, TableInv, QueueInv, TakeRequest
  PROVE  /\ mpc = "req" /\ mpc' = "sending"
         /\ mjob' \in Tickets /\ mjob' \in Queued /\ Queued' = Queued \ {mjob'}
         /\ IsInjective(queue') /\ Born' = Born
         /\ Registered' \subseteq Registered \cup {mjob'}
         /\ \A i \in Ids : jobs'[i] # jobs[i] => jobs'[i] = mjob' /\ job[mjob'].id = i
         /\ UNCHANGED <<job, result, lockHeld, sentHeld, handed, running, crashed, 
                        clientVars, wire>>
<1>1. /\ mpc = "req" /\ mpc' = "sending" /\ queue # <<>> /\ queue' = Tail(queue)
      /\ mjob' = Head(queue)
      /\ \/ jobs' = jobs 
         \/ jobs' = [jobs EXCEPT ![job[mjob'].id] = mjob']
      /\ UNCHANGED <<job, result, lockHeld, sentHeld, handed, running, crashed, 
                     clientVars, wire>>
  BY DEF TakeRequest, ticketVars, wireVars
<1>2. /\ mjob' \in Tickets /\ mjob' \in Queued /\ Queued' = Queued \ {mjob'}
      /\ IsInjective(queue') /\ Born' = Born
  BY <1>1, QueueStep0, Derived DEF QueueInv
<1>3. job[mjob'].id \in Ids
  BY <1>1, <1>2, JobFacts DEF QueueInv, TypeOK, Born, Fresh
<1>4. Registered' \subseteq Registered \cup {mjob'}
  BY <1>1, <1>2, <1>3, Register, Derived
<1>5. \A i \in Ids : jobs'[i] # jobs[i] => jobs'[i] = mjob' /\ job[mjob'].id = i
  BY <1>1, <1>3 DEF TypeOK
<1> QED
  BY <1>1, <1>2, <1>4, <1>5

\* What the crash branch of _mgrThread does to a queued ticket.
LEMMA FailQueuedFacts ==
  ASSUME TypeOK, QueueInv, FailQueued
  PROVE  /\ mpc = "drain" /\ mpc' = "put" /\ mval' = "exception" /\ mret' = "drain"
         /\ mjob' \in Tickets /\ mjob' \in Queued /\ Queued' = Queued \ {mjob'}
         /\ IsInjective(queue') /\ Born' = Born /\ Registered' = Registered
         /\ UNCHANGED <<job, result, lockHeld, sentHeld, handed, jobs, running, 
                        crashed, clientVars, wire>>
BY QueueStep0, Derived DEF FailQueued, QueueInv, ticketVars, wireVars

\* What clientReqQueue.put and the end of _submitCmd do.
LEMMA EnqueueFacts ==
  ASSUME TypeOK, SubmitInv, QueueInv, NEW c \in Clients, Enqueue(c)
  PROVE  /\ cpc[c] \in AllModes /\ cjob[c] \in Born /\ cjob[c] \in Tickets
         /\ Queued' = Queued \cup {cjob[c]} /\ IsInjective(queue')
         /\ Born' = Born /\ Registered' = Registered
         /\ \A d \in Clients : d # c => cpc'[d] = cpc[d] /\ cjob'[d] = cjob[d]
         /\ \/ cpc'[c] \in {"idle", "tillSent", "waitSent"}
         /\ cpc'[c] \in {"tillSent", "waitSent"} => cjob'[c] = cjob[c]
         /\ handed' \subseteq handed \cup {cjob[c]}
         /\ UNCHANGED <<job, result, lockHeld, sentHeld, jobs, running, 
                        managerVars, wire>>
<1>1. cpc[c] \in AllModes /\ cjob[c] \in Born /\ cjob[c] \notin Queued
  BY DEF Enqueue, SubmitInv
<1>2. cjob[c] \in Tickets
  BY <1>1 DEF Born
<1>3. Queued' = Queued \cup {cjob[c]} /\ IsInjective(queue')
  BY <1>1, <1>2, QueueAppend DEF Enqueue, TypeOK, QueueInv, Queued
<1>4. Born' = Born /\ Registered' = Registered
  BY Derived DEF Enqueue
<1>5. /\ \A d \in Clients : d # c => cpc'[d] = cpc[d] /\ cjob'[d] = cjob[d]
      /\ cpc'[c] \in {"idle", "tillSent", "waitSent"}
      /\ cpc'[c] \in {"tillSent", "waitSent"} => cjob'[c] = cjob[c]
      /\ handed' \subseteq handed \cup {cjob[c]}
  BY DEF Enqueue, ClientAt, Return, TypeOK
<1> QED
  BY <1>1, <1>2, <1>3, <1>4, <1>5 DEF Enqueue, wireVars

\* What _submitCmd does until it puts the ticket in the queue.
LEMMA BeginCallFacts ==
  ASSUME TypeOK, TableInv, NEW c \in Clients, NEW t \in Tickets, NEW r \in Requests,
         NEW mode \in Modes, BeginCall(c, t, r, mode)
  PROVE  /\ t \notin Born /\ Born' = Born \cup {t} 
         /\ \A u \in Born : job'[u] = job[u]
         /\ Registered' = Registered /\ Queued' = Queued
         /\ result[t] = None
         /\ lockHeld' = lockHeld \cup {t} /\ sentHeld' = sentHeld \cup {t}
         /\ \A d \in Clients : d # c => cpc'[d] = cpc[d] /\ cjob'[d] = cjob[d]
         /\ cpc'[c] \in AllModes /\ cjob'[c] = t
         /\ cpc[c] \in {"idle", "refresh"}
         /\ UNCHANGED <<result, handed, jobs, queue, running, managerVars, wire>>
<1>1. MakeTicket(t, r, FirstFlags(r)) /\ r \in JobType
  BY JobFacts DEF BeginCall
<1>2. /\ t \notin Born /\ Born' = Born \cup {t} /\ \A u \in Born : job'[u] = job[u]
  BY <1>1, Made
<1>3. /\ lockHeld' = lockHeld \cup {t} /\ sentHeld' = sentHeld \cup {t} /\ result' = result
  BY <1>1 DEF MakeTicket
<1>4. t \in Fresh /\ result[t] = None
  BY <1>1 DEF MakeTicket, TableInv
<1>5. /\ \A d \in Clients : d # c => cpc'[d] = cpc[d] /\ cjob'[d] = cjob[d]
      /\ cpc'[c] \in AllModes /\ cjob'[c] = t /\ cpc[c] \in {"idle", "refresh"}
  BY ConstantFacts DEF BeginCall, ClientAt, TypeOK
<1> QED
  BY <1>2, <1>3, <1>4, <1>5, Derived DEF BeginCall, nodeVars, wireVars

\* SeeSent, SeeLock, Unlock, BeginWait and BeginCancel: one client moves.
LEMMA OtherClients ==
  ASSUME TypeOK, NEW c \in Clients,
         \/ SeeSent(c) \/ SeeLock(c) \/ Unlock(c) 
         \/ \E t \in Tickets : BeginCancel(c, t) \/ \E pc \in Waits : BeginWait(c, t, pc) 
  PROVE  /\ Born' = Born /\ Queued' = Queued /\ Registered' \subseteq Registered
         /\ \A i \in Ids : jobs'[i] # jobs[i] => jobs'[i] = NoTicket
         /\ \A d \in Clients : d # c => cpc'[d] = cpc[d] /\ cjob'[d] = cjob[d]
         /\ cpc'[c] \notin AllModes /\ cpc[c] \notin AllModes
         /\ UNCHANGED <<job, result, queue, running, managerVars, wire>>
<1> USE DEF ticketVars, nodeVars, wireVars
<1>1. CASE SeeSent(c) \/ SeeLock(c) \/ Unlock(c)
  BY <1>1, Derived DEF SeeSent, SeeLock, Unlock, ClientAt, Return, TypeOK, AllModes
<1>2. CASE \E t \in Tickets, pc \in Waits : BeginWait(c, t, pc)
  BY <1>2, Derived, ConstantFacts DEF BeginWait, ClientAt, TypeOK, AllModes, AllWaits
<1>3. ASSUME NEW t \in Tickets, BeginCancel(c, t)
      PROVE  /\ Born' = Born /\ Queued' = Queued /\ Registered' \subseteq Registered
             /\ \A i \in Ids : jobs'[i] # jobs[i] => jobs'[i] = NoTicket
             /\ \A d \in Clients : d # c => cpc'[d] = cpc[d] /\ cjob'[d] = cjob[d]
             /\ cpc'[c] \notin AllModes /\ cpc[c] \notin AllModes
             /\ UNCHANGED <<job, result, queue, running, managerVars, wire>>
  <2>1. UNCHANGED jobs \/ jobs' = [jobs EXCEPT ![job[t].id] = NoTicket]
    BY <1>3 DEF BeginCancel, Forget
  <2>2. /\ Registered' \subseteq Registered
        /\ \A i \in Ids : jobs'[i] # jobs[i] => jobs'[i] = NoTicket
    BY <2>1, Derived, Unregister DEF TypeOK
  <2>3. /\ \A d \in Clients : d # c => cpc'[d] = cpc[d] /\ cjob'[d] = cjob[d]
        /\ cpc'[c] \notin AllModes /\ cpc[c] \notin AllModes
        /\ UNCHANGED <<job, result, queue, running, managerVars, wire>>
    BY <1>3 DEF BeginCancel, ClientAt, Return, TypeOK, AllModes
  <2> QED
    BY <2>2, <2>3, Derived
<1> QED
  BY <1>1, <1>2, <1>3

\* Only the end of wait() hands a result to its caller.
LEMMA Deliver ==
  ASSUME TypeOK, NEW c \in Clients,
         \/ Enqueue(c) \/ SeeSent(c) \/ SeeLock(c)
         \/ \E t \in Tickets : 
              \/ BeginCancel(c, t) \/ \E pc \in Waits : BeginWait(c, t, pc) 
              \/ \E r \in Requests, mode \in Modes : BeginCall(c, t, r, mode)
  PROVE  NothingDelivered
<1>1. \/ UNCHANGED cret
      \/ \E ret \in {"none", "ticket", "nothing"} : cret' = [cret EXCEPT ![c] = ret]
  BY DEF Enqueue, SeeSent, SeeLock, BeginCancel, BeginWait, BeginCall, Return, ClientAt
<1> QED
  BY <1>1 DEF NothingDelivered, TypeOK, Deliveries, Results, None
================================================================================

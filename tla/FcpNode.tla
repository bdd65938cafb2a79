-------------------------------- MODULE FcpNode --------------------------------
(***************************************************************************)
(* The FCP connection object of fcp3/node.py: client threads submit        *)
(* commands and wait on JobTickets; one manager thread owns the socket     *)
(* reads, the jobs table and the request queue; shutdown() and cancel()    *)
(* reach into both from any thread.                                        *)
(*                                                                         *)
(* A step is what a thread does between two points where another thread    *)
(* can observe or disturb it.  Times are not modelled: a poll of a lock    *)
(* that is held may give up whenever TimeoutsFire.  Tickets is the pool of *)
(* JobTicket objects, so it also bounds how many are ever made.            *)
(***************************************************************************)
EXTENDS FcpMessages, Naturals, Sequences, Functions

CONSTANTS 
  Clients,      \* client threads
  Tickets,      \* JobTicket objects
  NoTicket,     \* no object
  Ids,          \* job identifiers in use, the global one among them
  Requests,     \* the commands clients submit, as jobs of FcpMessages
  Modes,        \* how they submit them
  Waits,        \* the waits they make later on tickets they hold
  Messages,     \* the messages the node may send
  ForeignIds,   \* identifiers of requests made on other connections
  Orderly,      \* whether the node keeps to the order of the FCP protocol
  SharedIds,    \* whether callers may give two requests the same identifier
  TimeoutsFire, \* whether wait(timeout) ever runs out of time
  Failures,     \* whether the connection, a message or a callback may fail
  Stops         \* whether clients call shutdown()

JobOptions == {"keep", "followRedirect"}
JobType == [id : Ids, cmd : STRING, kw : SUBSET STRING, opts : SUBSET JobOptions]
MessageType == [ident : Ids \cup {NoIdent, DirIdent}, hdr : STRING, 
                kw : SUBSET STRING]

AllModes == {"sync", "async", "asyncSent"}
AllWaits == {"waitSent", "waitForever", "tillSent"}

ASSUME ConstantsAssumption ==
  /\ NoTicket \notin Tickets
  /\ Global \in Ids /\ NoIdent \notin Ids /\ DirIdent \notin Ids
  /\ Requests \subseteq JobType
  /\ Messages \subseteq MessageType
  /\ Modes \subseteq AllModes /\ Waits \subseteq AllWaits
  /\ ForeignIds \subseteq Ids
  /\ {Orderly, SharedIds, TimeoutsFire, Failures, Stops} \subseteq BOOLEAN

VARIABLES
  job,         \* job[t]: what ticket t is for, Unborn before it is made
  result,      \* ticket.result
  flags,       \* attributes dispatch has set on the ticket
  lockHeld,    \* tickets whose lock is held
  sentHeld,    \* tickets whose reqSentLock is held
  handed,      \* tickets an async call has returned to its caller
  jobs,        \* node.jobs
  queue,       \* node.clientReqQueue
  running,     \* node.running
  nodeIsAlive, \* node.nodeIsAlive
  shutdownLock,\* who holds node.shutdownLock
  wire,        \* tickets whose command the socket has carried in full
  talk,        \* what the node has told of each identifier (when Orderly)
  mpc, mjob,   \* the manager: where it is, the ticket at hand,
  mval, mret,  \* the result it delivers, where it goes on after that,
  crashed,     \* and the waiting jobs a crash has still to fail
  cpc, cjob,   \* each client: where it is, the ticket of its call,
  cret         \* and how its last call ended

ticketVars  == <<job, result, flags, lockHeld, sentHeld, handed>>
nodeVars    == <<jobs, queue, running, nodeIsAlive, shutdownLock>>
managerVars == <<mpc, mjob, mval, mret, crashed>>
clientVars  == <<cpc, cjob, cret>>
wireVars    == <<wire, talk>>
vars == <<ticketVars, nodeVars, managerVars, clientVars, wireVars>>

Unborn == [id |-> NoIdent, cmd |-> "", kw |-> {}, opts |-> {}]
None   == "None"          \* Python's None: no result yet

Fresh == {t \in Tickets : job[t] = Unborn}
Born  == Tickets \ Fresh
Transient(t)  == ~Sticky(job[t])
Registered    == Range(jobs) \ {NoTicket}
Queued        == Range(queue)

Init ==
  /\ job = [t \in Tickets |-> Unborn]
  /\ result = [t \in Tickets |-> None]
  /\ flags = [t \in Tickets |-> {}]
  /\ lockHeld = {} /\ sentHeld = {} /\ handed = {}
  /\ jobs = [i \in Ids |-> NoTicket]
  /\ queue = <<>>
  /\ running = TRUE /\ nodeIsAlive = TRUE /\ shutdownLock = "free"
  /\ wire = {} /\ talk = [i \in Ids |-> "none"]
  /\ mpc = "start" /\ mjob = NoTicket /\ mval = None /\ mret = "poll"
  /\ crashed = {}
  /\ cpc = [c \in Clients |-> "idle"]
  /\ cjob = [c \in Clients |-> NoTicket]
  /\ cret = [c \in Clients |-> "none"]

--------------------------------------------------------------------------------
(***************************************************************************)
(* JobTicket                                                               *)
(***************************************************************************)
\* JobTicket.__init__: both locks are taken, there is no result.
MakeTicket(t, r, fl) ==
  /\ t \in Fresh
  /\ job' = [job EXCEPT ![t] = r]
  /\ flags' = [flags EXCEPT ![t] = fl]
  /\ lockHeld' = lockHeld \cup {t}
  /\ sentHeld' = sentHeld \cup {t}
  /\ UNCHANGED result

\* Where the manager goes on after putting the result m brings.
AfterResult(m) == IF m.hdr \in ThenPopped THEN "pop"
                  ELSE IF m.hdr = "PutSuccessful" THEN "callback" ELSE "req"

Forget(i) == jobs' = [jobs EXCEPT ![i] = NoTicket]

\* Variant: the lock is released without a result.
PutNothing ==
  /\ mpc = "put"
  /\ UNCHANGED result
  /\ mpc' = "release"
  /\ UNCHANGED <<job, flags, lockHeld, sentHeld, handed, nodeVars, mjob, mval, 
                 mret, crashed, clientVars, wireVars>>

\* JobTicket._putResult, first half: the result is there to be polled.
PutResult ==
  /\ mpc = "put"
  /\ result' = [result EXCEPT ![mjob] = mval]
  /\ mpc' = "release"
  /\ UNCHANGED <<job, flags, lockHeld, sentHeld, handed, nodeVars, mjob, mval, 
                 mret, crashed, clientVars, wireVars>>

\* Variant: a resolved job stays in the table.
ReleaseKeeping ==
  /\ mpc = "release"
  /\ UNCHANGED jobs
  /\ lockHeld' = lockHeld \ {mjob}
  /\ mpc' = mret
  /\ mjob' = IF mret = "pop" THEN mjob ELSE NoTicket
  /\ mval' = None /\ mret' = "poll"
  /\ UNCHANGED <<job, result, flags, sentHeld, handed, queue, running, 
                 nodeIsAlive, shutdownLock, crashed, clientVars, wireVars>>

\* Second half: a transient job leaves the table by its id; waiters may go on.
\* Releasing a lock nobody holds raises, and the handler swallows it.
Release ==
  /\ mpc = "release"
  /\ IF Transient(mjob) THEN Forget(job[mjob].id) ELSE UNCHANGED jobs
  /\ lockHeld' = lockHeld \ {mjob}
  /\ mpc' = mret
  /\ mjob' = IF mret = "pop" THEN mjob ELSE NoTicket
  /\ mval' = None /\ mret' = "poll"
  /\ UNCHANGED <<job, result, flags, sentHeld, handed, queue, running, 
                 nodeIsAlive, shutdownLock, crashed, clientVars, wireVars>>

--------------------------------------------------------------------------------
(***************************************************************************)
(* The manager thread, FCPNode._mgrThread                                  *)
(***************************************************************************)
MgrGoto(pc) == 
  /\ mpc' = pc
  /\ UNCHANGED <<ticketVars, nodeVars, mjob, mval, mret, crashed, clientVars, 
                 wireVars>>

MgrStart ==
  /\ mpc = "start" /\ shutdownLock = "free"
  /\ shutdownLock' = "manager"
  /\ mpc' = "poll"
  /\ UNCHANGED <<ticketVars, jobs, queue, running, nodeIsAlive, mjob, mval, 
                 mret, crashed, clientVars, wireVars>>

MgrStop == mpc = "poll" /\ ~running /\ MgrGoto("exit")

NothingIncoming == mpc = "poll" /\ running /\ MgrGoto("req")

(***************************************************************************)
(* The node.  It only speaks of requests it has been sent here, or that it *)
(* has first announced, when others made them.  An orderly node opens a    *)
(* request once, tells that data was found before it sends the data, and   *)
(* sends them to those only who asked for them; after its last word on a   *)
(* request, which a redirect that is followed is not, it can only tell     *)
(* that it was removed.                                                    *)
(***************************************************************************)
Announcements == {"PersistentGet", "PersistentPut", "PersistentPutDir"}

Solicited(m) == 
  \/ \E t \in wire : job[t].id = JobId(m)
  \/ /\ JobId(m) \in ForeignIds
     /\ \/ m.hdr \in Announcements
        \/ \E t \in Born : job[t].id = JobId(m) /\ job[t].cmd \in Announcements

InOrder(m) == LET told == talk[JobId(m)] IN
  \/ ~Orderly \/ JobId(m) = Global
  \/ m.hdr \in Announcements /\ told = "none"
  \/ m.hdr = "PersistentRequestRemoved" /\ told # "none"
  \/ m.hdr = "AllData" /\ told = "found"
  \/ /\ m.hdr \notin Announcements \cup {"PersistentRequestRemoved", "AllData"}
     /\ told = "open"

LastWord(m) == LET asked == {t \in wire : job[t].id = JobId(m)} IN
  CASE m.hdr \in Announcements -> "open"
    [] m.hdr = "PersistentRequestRemoved" -> "none"
    [] m.hdr = "DataFound" /\ (\A t \in asked : ~DataElsewhere(job[t])) -> "found"
    [] m.hdr \in Progress \ Announcements \/ (\E t \in asked : Redirected(job[t], m))
         -> talk[JobId(m)]
    [] OTHER -> "closed"

Tell(i, word) == 
  talk' = IF Orderly /\ i # Global THEN [talk EXCEPT ![i] = word] ELSE talk

(***************************************************************************)
(* _rxMsg then _on_rxMsg.                                                  *)
(***************************************************************************)
\* The Data part is read for the job of the raw identifier: KeyError.
Unreadable(m) == /\ m.hdr = "AllData"
                 /\ m.ident \in Ids => jobs[m.ident] = NoTicket

\* The dispatcher's cases, for ticket t of job r with attributes fl.
Dispatch(t, r, fl, m) ==
  \/ /\ ~Raises(r, fl, m) /\ (Succeeds(r, m) \/ Fails(r, m))
     /\ mpc' = "put" /\ mjob' = t
     /\ mval' = IF Succeeds(r, m) THEN "value" ELSE "exception"
     /\ mret' = AfterResult(m)
  \/ /\ ~Raises(r, fl, m) /\ (Redirected(r, m) \/ AsksStatus(r, fl, m))
     /\ mpc' = "resending"
     /\ mret' = IF Redirected(r, m) THEN "req" ELSE "callback"
     /\ UNCHANGED <<mjob, mval>>
  \/ /\ \/ Raises(r, fl, m) /\ mpc' = "crash" 
        \/ Forgets(m) /\ mpc' = "req"
        \/ IsNews(r, fl, m) /\ mpc' = "callback"
     /\ UNCHANGED <<mjob, mval, mret>>

\* The ticket a message is for: the registered one, else a new one.
Receive(m) ==
  LET i == JobId(m) IN
  /\ mpc = "poll" /\ running
  /\ Solicited(m) /\ InOrder(m) /\ ~Unreadable(m)
  /\ Tell(i, LastWord(m))
  /\ \/ LET t == jobs[i] IN
        /\ t # NoTicket
        /\ Dispatch(t, job[t], flags[t], m)
        /\ flags' = [flags EXCEPT ![t] = NewFlags(job[t], @, m)]
        /\ jobs' = IF Forgets(m) THEN [jobs EXCEPT ![i] = NoTicket] ELSE jobs
        /\ UNCHANGED <<job, lockHeld, sentHeld, result>>
     \/ \E t \in Fresh :
        /\ jobs[i] = NoTicket
        /\ MakeTicket(t, JobFor(m), NewFlags(JobFor(m), {}, m))
        /\ Dispatch(t, JobFor(m), {}, m)
        /\ jobs' = IF Forgets(m) THEN jobs ELSE [jobs EXCEPT ![i] = t]
  /\ UNCHANGED <<handed, queue, running, nodeIsAlive, shutdownLock, crashed, 
                 clientVars, wire>>

ReceiveUnreadable(m) ==
  /\ mpc = "poll" /\ running
  /\ Solicited(m) /\ InOrder(m) /\ Unreadable(m)
  /\ MgrGoto("crash")

\* The callback that follows, or takes the place of, a result.
CallbackReturns == mpc = "callback" /\ MgrGoto("req")

\* self.jobs.pop(id) after the result of a one-shot command.
PopJob ==
  /\ mpc = "pop"
  /\ Forget(job[mjob].id)
  /\ mpc' = "req" /\ mjob' = NoTicket
  /\ UNCHANGED <<ticketVars, queue, running, nodeIsAlive, shutdownLock, mval, 
                 mret, crashed, clientVars, wireVars>>

ResendDone ==
  /\ mpc = "resending"
  /\ mpc' = mret /\ mret' = "poll"
  /\ UNCHANGED <<ticketVars, nodeVars, mjob, mval, crashed, clientVars, wireVars>>

--------------------------------------------------------------------------------
(***************************************************************************)
(* clientReqQueue.get and _on_clientReq                                    *)
(***************************************************************************)
NoRequest == mpc = "req" /\ queue = <<>> /\ MgrGoto("poll")

\* Variant: the request is read but not removed.
TakeRequestPeeking ==
  /\ mpc = "req" /\ queue # <<>>
  /\ UNCHANGED queue
  /\ mjob' = Head(queue)
  /\ jobs' = IF job[Head(queue)].cmd = "WatchGlobal" THEN jobs
             ELSE [jobs EXCEPT ![job[Head(queue)].id] = Head(queue)]
  /\ mpc' = "sending"
  /\ UNCHANGED <<ticketVars, running, nodeIsAlive, shutdownLock, mval, mret, 
                 crashed, clientVars, wireVars>>

\* Variant: the job is not registered.
TakeRequestUnregistered ==
  /\ mpc = "req" /\ queue # <<>>
  /\ queue' = Tail(queue)
  /\ mjob' = Head(queue)
  /\ UNCHANGED jobs
  /\ mpc' = "sending"
  /\ UNCHANGED <<ticketVars, running, nodeIsAlive, shutdownLock, mval, mret, 
                 crashed, clientVars, wireVars>>

\* Variant: reqSentLock is released before the send.
TakeRequestAnnouncing ==
  /\ mpc = "req" /\ queue # <<>>
  /\ queue' = Tail(queue)
  /\ mjob' = Head(queue)
  /\ jobs' = IF job[Head(queue)].cmd = "WatchGlobal" THEN jobs
             ELSE [jobs EXCEPT ![job[Head(queue)].id] = Head(queue)]
  /\ mpc' = "sending"
  /\ sentHeld' = sentHeld \ {Head(queue)}
  /\ UNCHANGED <<job, result, flags, lockHeld, handed, running, nodeIsAlive, 
                 shutdownLock, mval, mret, crashed, clientVars, wireVars>>

\* The job is registered before its command is written to the socket.
TakeRequest ==
  /\ mpc = "req" /\ queue # <<>>
  /\ queue' = Tail(queue)
  /\ mjob' = Head(queue)
  /\ jobs' = IF job[Head(queue)].cmd = "WatchGlobal" THEN jobs
             ELSE [jobs EXCEPT ![job[Head(queue)].id] = Head(queue)]
  /\ mpc' = "sending"
  /\ UNCHANGED <<ticketVars, running, nodeIsAlive, shutdownLock, mval, mret, 
                 crashed, clientVars, wireVars>>

\* Variant: reqSentLock is not released.
SendDoneSilent ==
  /\ mpc = "sending"
  /\ wire' = wire \cup {mjob}
  /\ Tell(job[mjob].id, "open")
  /\ UNCHANGED sentHeld
  /\ mpc' = "poll" /\ mjob' = NoTicket
  /\ UNCHANGED <<job, result, flags, lockHeld, handed, nodeVars, mval, mret, 
                 crashed, clientVars>>

SendDone ==
  /\ mpc = "sending"
  /\ wire' = wire \cup {mjob}
  /\ Tell(job[mjob].id, "open")
  /\ sentHeld' = sentHeld \ {mjob}
  /\ mpc' = "poll" /\ mjob' = NoTicket
  /\ UNCHANGED <<job, result, flags, lockHeld, handed, nodeVars, mval, mret, 
                 crashed, clientVars>>

--------------------------------------------------------------------------------
(***************************************************************************)
(* The way out: the except branch of _mgrThread, and its end               *)
(***************************************************************************)
\* A message that cannot be parsed, a callback or a sendall that raises.
\* Callbacks run before a result is put, but after it for PutSuccessful.
Fault ==
  /\ Failures
  /\ \/ mpc = "poll" /\ running
     \/ mpc = "put" /\ mret \in {"req", "pop"}
     \/ mpc \in {"callback", "sending", "resending"}
  /\ mpc' = "crash" /\ mjob' = NoTicket /\ mval' = None /\ mret' = "poll"
  /\ UNCHANGED <<ticketVars, nodeVars, crashed, clientVars, wireVars>>

\* read() sees the end of the stream.
ConnectionClosed ==
  /\ Failures
  /\ mpc = "poll" /\ running
  /\ nodeIsAlive' = FALSE
  /\ mpc' = "crash"
  /\ UNCHANGED <<ticketVars, jobs, queue, running, shutdownLock, mjob, mval, 
                 mret, crashed, clientVars, wireVars>>

\* list(self.jobs.items()): the jobs that are failed are those of this moment.
CollectWaiting ==
  /\ mpc = "crash"
  /\ crashed' = Registered
  /\ mpc' = "fail"
  /\ UNCHANGED <<ticketVars, nodeVars, mjob, mval, mret, clientVars, wireVars>>

FailWaiting(t) ==
  /\ mpc = "fail" /\ t \in crashed
  /\ crashed' = crashed \ {t}
  /\ mjob' = t /\ mval' = "exception" /\ mret' = "fail"
  /\ mpc' = "put"
  /\ UNCHANGED <<ticketVars, nodeVars, clientVars, wireVars>>

\* Variant: only one waiting job is failed.
WaitingFailedEarly == mpc = "fail" /\ MgrGoto("drain")

WaitingFailed == mpc = "fail" /\ crashed = {} /\ MgrGoto("drain")

\* Variant: the failed job stays in the queue.
FailQueuedPeeking ==
  /\ mpc = "drain" /\ queue # <<>>
  /\ UNCHANGED queue
  /\ mjob' = Head(queue) /\ mval' = "exception" /\ mret' = "drain"
  /\ mpc' = "put"
  /\ UNCHANGED <<ticketVars, jobs, running, nodeIsAlive, shutdownLock, crashed, 
                 clientVars, wireVars>>

FailQueued ==
  /\ mpc = "drain" /\ queue # <<>>
  /\ queue' = Tail(queue)
  /\ mjob' = Head(queue) /\ mval' = "exception" /\ mret' = "drain"
  /\ mpc' = "put"
  /\ UNCHANGED <<ticketVars, jobs, running, nodeIsAlive, shutdownLock, crashed, 
                 clientVars, wireVars>>

\* Variant: the queue is not drained.
QueueDrainedEarly == mpc = "drain" /\ MgrGoto("exit")

QueueDrained == mpc = "drain" /\ queue = <<>> /\ MgrGoto("exit")

\* Variant: the manager leaves with shutdownLock.
MgrExitHolding ==
  /\ mpc = "exit"
  /\ UNCHANGED shutdownLock
  /\ mpc' = "done"
  /\ UNCHANGED <<ticketVars, jobs, queue, running, nodeIsAlive, mjob, mval, 
                 mret, crashed, clientVars, wireVars>>

MgrExit ==
  /\ mpc = "exit"
  /\ shutdownLock' = "free"
  /\ mpc' = "done"
  /\ UNCHANGED <<ticketVars, jobs, queue, running, nodeIsAlive, mjob, mval, 
                 mret, crashed, clientVars, wireVars>>

--------------------------------------------------------------------------------
(***************************************************************************)
(* Client threads                                                          *)
(***************************************************************************)
ClientAt(c, pc) == cpc' = [cpc EXCEPT ![c] = pc]

\* The call of client c is over, with outcome ret.
Return(c, ret) == /\ cpc' = [cpc EXCEPT ![c] = "idle"]
                  /\ cjob' = [cjob EXCEPT ![c] = NoTicket]
                  /\ cret' = [cret EXCEPT ![c] = ret]

\* refreshPersistentRequests: the table is looked at before the call is made.
BeginRefresh(c) ==
  /\ cpc[c] = "idle"
  /\ \E r \in Requests : r.cmd = "ListPersistentRequests"
  /\ IF jobs[Global] = NoTicket 
     THEN ClientAt(c, "refresh") /\ UNCHANGED <<cjob, cret>>
     ELSE Return(c, "busy")
  /\ UNCHANGED <<ticketVars, nodeVars, managerVars, wireVars>>

\* _getUniqueId never repeats one; "__global" is what commands without one use.
IdAvailable(i) == \/ SharedIds \/ i = Global
                  \/ \A t \in Born : job[t].id # i

\* _submitCmd up to clientReqQueue.put: the liveness check, then the ticket.
BeginCall(c, t, r, mode) ==
  /\ cpc[c] = IF r.cmd = "ListPersistentRequests" THEN "refresh" ELSE "idle"
  /\ nodeIsAlive
  /\ IdAvailable(r.id)
  /\ MakeTicket(t, r, FirstFlags(r))
  /\ ClientAt(c, mode)
  /\ cjob' = [cjob EXCEPT ![c] = t]
  /\ cret' = [cret EXCEPT ![c] = "none"]
  /\ UNCHANGED <<handed, nodeVars, managerVars, wireVars>>

CallRefused(c) ==
  /\ cpc[c] \in {"idle", "refresh"}
  /\ ~nodeIsAlive
  /\ Return(c, "FCPNodeFailure")
  /\ UNCHANGED <<ticketVars, nodeVars, managerVars, wireVars>>

\* The rest of _submitCmd.
Enqueue(c) ==
  /\ cpc[c] \in AllModes
  /\ queue' = Append(queue, cjob[c])
  /\ \/ /\ cpc[c] = "async" 
        /\ Return(c, "ticket")
        /\ handed' = handed \cup {cjob[c]}
     \/ /\ cpc[c] = "asyncSent"
        /\ ClientAt(c, "tillSent")
        /\ UNCHANGED <<cjob, cret, handed>>
     \/ /\ cpc[c] = "sync"
        /\ IF job[cjob[c]].cmd \in {"WatchGlobal", "RemovePersistentRequest"} 
           THEN Return(c, "nothing")
           ELSE ClientAt(c, "waitSent") /\ UNCHANGED <<cjob, cret>>
        /\ UNCHANGED handed
  /\ UNCHANGED <<job, result, flags, lockHeld, sentHeld, jobs, running, 
                 nodeIsAlive, shutdownLock, managerVars, wireVars>>

\* Tickets a client can get hold of: what it was given, what getAllJobs lists.
Visible == handed \cup Registered

\* JobTicket.wait(timeout), wait() and waitTillReqSent() on ticket t.
BeginWait(c, t, pc) ==
  /\ cpc[c] = "idle" /\ t \in Visible
  /\ pc \in Waits
  /\ ClientAt(c, pc)
  /\ cjob' = [cjob EXCEPT ![c] = t]
  /\ cret' = [cret EXCEPT ![c] = "none"]
  /\ UNCHANGED <<ticketVars, nodeVars, managerVars, wireVars>>

\* reqSentLock.acquire succeeds; neither caller ever releases it.
SeeSent(c) ==
  /\ cpc[c] \in {"waitSent", "tillSent"} /\ cjob[c] \notin sentHeld
  /\ sentHeld' = sentHeld \cup {cjob[c]}
  /\ \/ /\ cpc[c] = "waitSent" 
        /\ ClientAt(c, "waitLock") 
        /\ UNCHANGED <<cjob, cret, handed>>
     \/ /\ cpc[c] = "tillSent" 
        /\ Return(c, "ticket") 
        /\ handed' = handed \cup {cjob[c]}
  /\ UNCHANGED <<job, result, flags, lockHeld, nodeVars, managerVars, wireVars>>

SendTimeout(c) ==
  /\ TimeoutsFire
  /\ cpc[c] = "waitSent" /\ cjob[c] \in sentHeld
  /\ Return(c, "FCPSendTimeout")
  /\ UNCHANGED <<ticketVars, nodeVars, managerVars, wireVars>>

\* Variant: the outcome of acquire(False) is ignored.
SeeLockUnchecked(c) ==
  /\ cpc[c] \in {"waitLock", "waitForever"}
  /\ lockHeld' = lockHeld \cup {cjob[c]}
  /\ ClientAt(c, "unlock")
  /\ UNCHANGED <<job, result, flags, sentHeld, handed, nodeVars, managerVars, 
                 cjob, cret, wireVars>>

\* Variant: the lock is looked at, not taken.
SeeLockPeeking(c) ==
  /\ cpc[c] \in {"waitLock", "waitForever"} /\ cjob[c] \notin lockHeld
  /\ UNCHANGED lockHeld
  /\ ClientAt(c, "unlock")
  /\ UNCHANGED <<job, result, flags, sentHeld, handed, nodeVars, managerVars, 
                 cjob, cret, wireVars>>

\* lock.acquire(False) succeeds.
SeeLock(c) ==
  /\ cpc[c] \in {"waitLock", "waitForever"} /\ cjob[c] \notin lockHeld
  /\ lockHeld' = lockHeld \cup {cjob[c]}
  /\ ClientAt(c, "unlock")
  /\ UNCHANGED <<job, result, flags, sentHeld, handed, nodeVars, managerVars, 
                 cjob, cret, wireVars>>

NodeTimeout(c) ==
  /\ TimeoutsFire
  /\ cpc[c] = "waitLock" /\ cjob[c] \in lockHeld
  /\ Return(c, "FCPNodeTimeout")
  /\ UNCHANGED <<ticketVars, nodeVars, managerVars, wireVars>>

\* lock.release(), which raises if nobody holds it.
Unlock(c) ==
  /\ cpc[c] = "unlock"
  /\ \/ /\ cjob[c] \in lockHeld
        /\ ClientAt(c, "getResult")
        /\ UNCHANGED <<cjob, cret>>
     \/ /\ cjob[c] \notin lockHeld
        /\ Return(c, "RuntimeError")
  /\ lockHeld' = lockHeld \ {cjob[c]}
  /\ UNCHANGED <<job, result, flags, sentHeld, handed, nodeVars, managerVars, 
                 wireVars>>

\* getResult(): a kept job may have got another result since the release.
GetResult(c) ==
  /\ cpc[c] = "getResult"
  /\ Return(c, result[cjob[c]])
  /\ UNCHANGED <<ticketVars, nodeVars, managerVars, wireVars>>

\* JobTicket.cancel: nothing at all for a job not known to be persistent.
BeginCancel(c, t) ==
  /\ cpc[c] = "idle" /\ t \in Visible
  /\ IF IsPersistent(job[t]) 
     THEN /\ Forget(job[t].id)
          /\ ClientAt(c, "cancelling")
          /\ cjob' = [cjob EXCEPT ![c] = t]
          /\ UNCHANGED cret
     ELSE Return(c, "nothing") /\ UNCHANGED jobs
  /\ UNCHANGED <<ticketVars, queue, running, nodeIsAlive, shutdownLock, 
                 managerVars, wireVars>>

\* The RemovePersistentRequest is on the socket, written by this thread.
CancelSent(c) ==
  /\ cpc[c] = "cancelling"
  /\ Return(c, "nothing")
  /\ UNCHANGED <<ticketVars, nodeVars, managerVars, wireVars>>

\* FCPNode.shutdown
BeginShutdown(c) ==
  /\ Stops
  /\ cpc[c] = "idle"
  /\ IF running THEN ClientAt(c, "stopping") /\ UNCHANGED <<cjob, cret>>
     ELSE Return(c, "nothing")
  /\ UNCHANGED <<ticketVars, nodeVars, managerVars, wireVars>>

ClearRunning(c) ==
  /\ cpc[c] = "stopping"
  /\ running' = FALSE
  /\ ClientAt(c, "awaitMgr")
  /\ UNCHANGED <<ticketVars, jobs, queue, nodeIsAlive, shutdownLock, 
                 managerVars, cjob, cret, wireVars>>

\* Variant: shutdown does not wait for the manager.
ShutdownUnlocked(c) ==
  /\ cpc[c] = "awaitMgr"
  /\ shutdownLock' = "client"
  /\ Return(c, "stopped")
  /\ UNCHANGED <<ticketVars, jobs, queue, running, nodeIsAlive, managerVars, 
                 wireVars>>

\* shutdownLock is taken and kept.
ShutdownDone(c) ==
  /\ cpc[c] = "awaitMgr" /\ shutdownLock = "free"
  /\ shutdownLock' = "client"
  /\ Return(c, "stopped")
  /\ UNCHANGED <<ticketVars, jobs, queue, running, nodeIsAlive, managerVars, 
                 wireVars>>

--------------------------------------------------------------------------------
\* The steps a thread takes once it is in a call, for the fairness below.
MgrStep ==
  \/ MgrStart \/ MgrStop \/ NothingIncoming \/ CallbackReturns \/ PopJob
  \/ ResendDone \/ NoRequest \/ TakeRequest \/ SendDone
  \/ PutResult \/ Release
  \/ CollectWaiting \/ \E t \in Tickets : FailWaiting(t)
  \/ WaitingFailed \/ FailQueued \/ QueueDrained \/ MgrExit

NodeStep ==
  \/ \E m \in Messages : Receive(m) \/ ReceiveUnreadable(m)
  \/ Fault \/ ConnectionClosed

InCall(c) == 
  \/ Enqueue(c) \/ SeeSent(c) \/ SeeLock(c) \/ Unlock(c) \/ GetResult(c)
  \/ CancelSent(c) \/ ClearRunning(c) \/ ShutdownDone(c)

NewCall(c) ==
  \/ BeginRefresh(c) \/ CallRefused(c) \/ BeginShutdown(c)
  \/ SendTimeout(c) \/ NodeTimeout(c)
  \/ \E t \in Tickets : 
       \/ \E r \in Requests, mode \in Modes : BeginCall(c, t, r, mode)
       \/ \E pc \in Waits : BeginWait(c, t, pc)
       \/ BeginCancel(c, t)

Next == \/ MgrStep \/ NodeStep 
        \/ \E c \in Clients : InCall(c) \/ NewCall(c)

Spec == Init /\ [][Next]_vars

--------------------------------------------------------------------------------
(***************************************************************************)
(* Fairness.  Threads are scheduled, and the calls they make on the socket *)
(* return; nothing obliges a client to make a call, or the node to send    *)
(* anything, except where a property says that the node answers.           *)
(***************************************************************************)
\* The node resolves the job of t, as long as the manager keeps reading.
Answer(t) == \E m \in Messages : 
  Receive(m) /\ jobs[JobId(m)] = t /\ mpc' = "put"

Fairness     == WF_vars(MgrStep) /\ \A c \in Clients : WF_vars(InCall(c))
FairSpec     == Spec /\ Fairness
AnsweredSpec == FairSpec /\ \A t \in Tickets : SF_vars(Answer(t))

--------------------------------------------------------------------------------
(***************************************************************************)
(* Properties                                                              *)
(***************************************************************************)
MgrPoints == {"start", "poll", "req", "put", "release", "pop", "callback", 
              "sending", "resending", "crash", "fail", "drain", "exit", "done"}
ClientPoints == AllModes \cup 
  {"idle", "refresh", "tillSent", "waitSent", "waitLock", "waitForever", 
   "unlock", "getResult", "cancelling", "stopping", "awaitMgr"}
Results  == {"value", "exception"}
Outcomes == Results \cup
  {"none", "None", "ticket", "nothing", "busy", "stopped", "FCPNodeFailure", 
   "FCPSendTimeout", "FCPNodeTimeout", "RuntimeError"}

\* Every variable has the type the code gives it.
TypeOK ==
  /\ job \in [Tickets -> JobType \cup {Unborn}]
  /\ result \in [Tickets -> Results \cup {None}]
  /\ flags \in [Tickets -> SUBSET {"mimetype", "gotPersistentDataFound"}]
  /\ lockHeld \subseteq Tickets /\ sentHeld \subseteq Tickets
  /\ handed \subseteq Tickets /\ wire \subseteq Tickets
  /\ talk \in [Ids -> {"none", "open", "found", "closed"}]
  /\ jobs \in [Ids -> Tickets \cup {NoTicket}]
  /\ queue \in Seq(Tickets)
  /\ running \in BOOLEAN /\ nodeIsAlive \in BOOLEAN
  /\ shutdownLock \in {"free", "manager", "client"}
  /\ mpc \in MgrPoints
  /\ mjob \in Tickets \cup {NoTicket}
  /\ mval \in Results \cup {None}
  /\ mret \in MgrPoints
  /\ crashed \subseteq Tickets
  /\ cpc \in [Clients -> ClientPoints]
  /\ cjob \in [Clients -> Tickets \cup {NoTicket}]
  /\ cret \in [Clients -> Outcomes]

\* "if we get here, we got the lock, command completed": a waiter that has got
\* the lock of a ticket finds its result there until it has read it, and for a
\* transient job still holds the lock when it comes to release it.
WaiterHasResult ==
  \A c \in Clients : 
    /\ cpc[c] \in {"unlock", "getResult"} => result[cjob[c]] # None
    /\ cpc[c] = "unlock" /\ Transient(cjob[c]) => cjob[c] \in lockHeld

\* Two waiters are never both between the acquire and the release of a lock.
WaitersExclude ==
  \A c, d \in Clients : 
    /\ c # d /\ cpc[c] = "unlock" /\ cpc[d] = "unlock" /\ cjob[c] = cjob[d]
    => ~Transient(cjob[c])

\* A transient job is resolved once: neither a late message, a crash nor the
\* draining of the queue replaces the result its callers may have read.
ResultIsFinal ==
  [][\A t \in Tickets : 
       t \in Born /\ Transient(t) /\ result[t] # None => result'[t] = result[t]]_vars

\* Once its result is put, a transient job is out of the manager's reach: not in
\* the jobs table, the request queue or the list of jobs a crash has to fail.
ResolvedIsGone ==
  \A t \in Born : 
    Transient(t) /\ result[t] # None /\ ~(mpc = "release" /\ mjob = t)
    => t \notin Registered \cup Queued \cup crashed

\* waitTillReqSent and wait(timeout) get past reqSentLock only after the whole
\* command went over the socket, and a command does that once.
SentIsOnWire ==
  /\ \A t \in Born : t \notin sentHeld => t \in wire
  /\ \A t \in wire : t \notin Queued /\ ~(mpc = "sending" /\ mjob = t)

\* Every job in the table is found under its own identifier, and no ticket is
\* queued twice or both queued and registered.
TableMatchesTickets ==
  /\ \A i \in Ids : jobs[i] # NoTicket => job[jobs[i]].id = i
  /\ Queued \cap Registered = {}
  /\ IsInjective(queue)

\* "send the exception to all waiting jobs": past that loop of the crash branch
\* no registered job is left without a result.
CrashFailsWaiting ==
  running /\ mpc \in {"drain", "exit", "done"} => 
    \A t \in Registered : result[t] # None

\* A command the node has received keeps its place in the jobs table until it
\* is resolved, so that the answer finds its ticket.
SentIsTracked ==
  \A t \in wire : 
    job[t].cmd # "WatchGlobal" /\ result[t] = None => t \in Registered

\* When shutdown() returns, the manager thread is past its last step.
StoppedMeansStopped ==
  /\ shutdownLock = "manager" <=> mpc \notin {"start", "done"}
  /\ \A c \in Clients : cret[c] = "stopped" => shutdownLock = "client"

\* Whatever is in the queue while the manager is there is sent to the node or
\* failed with the exception that ended the manager, unless shutdown() ends it.
EnqueuedIsServed ==
  \A t \in Tickets : 
    t \in Queued /\ job[t].cmd # "WatchGlobal" /\ mpc \notin {"exit", "done"} ~>
      t \in wire \/ result[t] # None \/ ~running

\* A call whose command the node answers comes back.
SyncCallReturns ==
  \A c \in Clients : cpc[c] \in AllModes ~> cpc[c] = "idle"

\* A node that keeps to the protocol never makes the manager thread raise.
ManagerSurvives == ~Failures => mpc # "crash"

\* However the manager ends, and at whatever it is when shutdown() is called, it
\* hands over shutdownLock, and one of the calls to shutdown() comes back.
ShutdownReturns == 
  (\E c \in Clients : cpc[c] = "stopping") ~> shutdownLock = "client"

(***************************************************************************)
(* What callers are promised about a ticket, as JobPromise states it.      *)
(***************************************************************************)
OutcomeBar   == [t \in Tickets |-> 
                   IF t \in Fresh THEN "unmade"
                   ELSE IF result[t] = None THEN "pending" ELSE result[t]]
KeptBar      == {t \in Born : ~Transient(t)}
Deliveries   == Results \cup {None, "RuntimeError"}
DeliveredBar == [c \in Clients |-> IF cret[c] \in Deliveries THEN cret[c] ELSE "none"]

Promise == INSTANCE JobPromise WITH 
  outcome <- OutcomeBar, kept <- KeptBar, delivered <- DeliveredBar

\* Every behaviour of the connection keeps the promise.
KeepsPromise == Promise!Spec

--------------------------------------------------------------------------------
(***************************************************************************)
(* What a comment says, and the code does not do.                          *)
(***************************************************************************)
\* "send the exception to all waiting jobs", "to all queued jobs" (_mgrThread):
\* every wait() on a job that has its exception comes back.
CrashReachesWaiters ==
  \A c \in Clients : 
    cpc[c] = "waitSent" /\ result[cjob[c]] # None ~> cpc[c] = "idle"
================================================================================

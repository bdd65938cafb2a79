------------------------------ MODULE FcpNodeInv ------------------------------
(***************************************************************************)
(* The inductive invariant behind the safety properties of FcpNode.  At    *)
(* any moment a ticket that is not resolved has one place where the next   *)
(* thing will happen to it: with the client that is submitting it, in the  *)
(* queue, at the manager's hand, in the jobs table or among the jobs a     *)
(* crash has to fail.  A transient ticket that is resolved has none.       *)
(***************************************************************************)
EXTENDS FcpNode

\* The ticket the manager is about to resolve, has just resolved or is sending.
AtHand(t) == mpc \in {"put", "release", "pop", "sending"} /\ mjob = t

Failing(ret) == mpc = ret \/ (mpc \in {"put", "release"} /\ mret = ret)

ManagerInv ==
  /\ mpc \in {"put", "release", "pop", "sending"} => mjob \in Born
  /\ mpc \in {"put", "release"} => 
       /\ mval \in Results 
       /\ mret \in {"req", "pop", "callback", "fail", "drain"}
       /\ mjob \notin crashed
  /\ mpc = "resending" => mret \in {"req", "callback"}
  /\ mpc = "release" => result[mjob] # None
  /\ crashed \subseteq Born
  /\ crashed # {} => Failing("fail")

TableInv ==
  /\ \A i \in Ids : jobs[i] # NoTicket => job[jobs[i]].id = i
  /\ handed \subseteq Born
  /\ \A t \in Fresh : result[t] = None

QueueInv ==
  /\ IsInjective(queue)
  /\ \A t \in Queued : 
       /\ t \in Born /\ result[t] = None /\ t \in sentHeld
       /\ t \notin Registered \cup wire \cup crashed
       /\ ~AtHand(t)

SubmitInv ==
  /\ \A c \in Clients : 
       cpc[c] \in AllModes \cup AllWaits \cup {"waitLock", "unlock", "getResult"}
       => cjob[c] \in Born
  /\ \A c \in Clients : cpc[c] \in AllModes => 
       /\ result[cjob[c]] = None /\ cjob[c] \in sentHeld
       /\ cjob[c] \notin Queued \cup Registered \cup wire \cup crashed \cup handed
       /\ ~AtHand(cjob[c])
  /\ \A c, d \in Clients : 
       c # d /\ cpc[c] \in AllModes /\ cpc[d] \in AllModes => cjob[c] # cjob[d]

LockInv ==
  /\ \A t \in Born : result[t] = None => t \in lockHeld
  /\ WaiterHasResult
  /\ WaitersExclude
  /\ mpc = "release" /\ Transient(mjob) =>
       /\ mjob \in lockHeld
       /\ \A c \in Clients : cpc[c] = "unlock" => cjob[c] # mjob

GoneInv ==
  /\ ResolvedIsGone
  /\ mpc = "put" /\ Transient(mjob) => result[mjob] = None

WireInv ==
  /\ \A t \in Born : t \notin sentHeld => t \in wire
  /\ wire \subseteq Born
  /\ mpc = "sending" => mjob \notin wire

CrashInv ==
  /\ Failing("fail") => \A t \in Registered : 
       result[t] # None \/ t \in crashed \/ AtHand(t)
  /\ Failing("drain") \/ (running /\ mpc \in {"exit", "done"}) =>
       \A t \in Registered : result[t] # None

IInv == /\ TypeOK
        /\ ManagerInv /\ TableInv /\ QueueInv /\ SubmitInv 
        /\ LockInv /\ GoneInv /\ WireInv /\ CrashInv 
        /\ StoppedMeansStopped
--------------------------------------------------------------------------------
(***************************************************************************)
(* The identifiers of a connection whose callers leave them to             *)
(* _getUniqueId: those of its requests that no other connection uses, that *)
(* are no "__global", and whose jobs neither cancel() nor a message that   *)
(* tells of a removal takes off the table.                                 *)
(***************************************************************************)
OwnIds == {i \in Ids \ (ForeignIds \cup {Global}) : 
             /\ \A r \in Requests : r.id = i => ~IsPersistent(r)
             /\ \A m \in Messages : JobId(m) = i => ~Forgets(m)}

OwnRequests == ~SharedIds /\ \A r \in Requests : r.id \in OwnIds

\* The tickets of client calls that have not been failed unsent.
InSubmission == {cjob[c] : c \in {d \in Clients : cpc[d] \in AllModes}}
Carried      == wire \cup (IF mpc = "sending" THEN {mjob} ELSE {})
Asked        == InSubmission \cup Queued \cup Carried

\* Those of them that wait under an identifier of their own.
Unanswered(T) == {t \in T : job[t].cmd # "WatchGlobal" /\ result[t] = None}
Own(T)        == {t \in Unanswered(T) : job[t].id \in OwnIds}

\* Until it is answered a request shares its own identifier with no other ticket,
\* not even one of those the dispatcher makes for messages without a job.
AloneInv ==
  /\ \A t \in Asked : job[t] \in Requests
  /\ \A t \in Own(Asked), u \in Born : job[u].id = job[t].id => u = t

TrackInv ==
  /\ \A t \in Own(Carried) : jobs[job[t].id] = t
  /\ mpc \in {"release", "pop"} => result[mjob] # None

\* The answer to a request under an identifier of its own finds its ticket
\* (_on_clientReq, _on_rxMsg), whatever the requests beside it are.
OwnIsTracked == Own(wire) \subseteq Registered

(***************************************************************************)
(* A node that keeps to the protocol, and speaks of data under identifiers *)
(* of the connection's own only: data under those of other connections     *)
(* raise when cancel() has forgotten the announced job, data under         *)
(* "__global" when nobody has asked.                                       *)
(***************************************************************************)
DataIds == {m.ident : m \in {n \in Messages : n.hdr \in {"DataFound", "AllData"}}}

SaysWhereTo(r) == r.cmd # "WatchGlobal" /\ r.kw \cap (ReturnTypes \cup {"Filename"}) # {}

ProtocolKept == 
  /\ Orderly /\ ~SharedIds
  /\ DataIds \subseteq OwnIds
  /\ \A r \in Requests : r.id \in DataIds => SaysWhereTo(r)

\* While the node may still speak of a get, the get is there and not resolved,
\* and it has its type before its data come.
GetsOpen ==
  /\ \A t \in wire : job[t].id \in DataIds => talk[job[t].id] # "none"
  /\ \A i \in DataIds : talk[i] \in {"open", "found"} =>
       /\ jobs[i] \in Unanswered(wire) 
       /\ ~(mpc = "put" /\ mjob = jobs[i])
       /\ talk[i] = "found" => "mimetype" \in flags[jobs[i]]

NoCrash == 
  /\ mpc \notin {"crash", "fail", "drain"} 
  /\ mpc \in {"put", "release"} => mret \notin {"fail", "drain"}
  /\ mpc = "sending" => result[mjob] = None
================================================================================

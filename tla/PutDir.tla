-------------------------------- MODULE PutDir ---------------------------------
(***************************************************************************)
(* FCPNode.putdir (src/fcp3/node.py): a directory is inserted file by      *)
(* file, each insert an asynchronous job that the manager thread resolves  *)
(* while the loop counts, sleeps and launches; then a manifest of          *)
(* redirects is inserted.                                                  *)
(*                                                                         *)
(* The tickets are those of JobPromise: outcome, kept and delivered are    *)
(* its variables.  A step is what putdir does between two looks at a job   *)
(* another thread may resolve.  Times, MIME types, the bytes of the files  *)
(* and the fate of the manifest's own job are left out.                    *)
(***************************************************************************)
EXTENDS FiniteSets, Naturals

CONSTANTS
  Files,          \* the files there may be
  MaxConcurrent,  \* the keyword maxconcurrent, or its default
  Modes,          \* "whole": not file by file; "oneByOne", "allAtOnce"
  Globals,        \* whether the jobs are put on the global queue
  Faults          \* whether inserts fail, files vanish, the connection is lost

AllModes == {"whole", "oneByOne", "allAtOnce"}
NoFile   == "__none"
putdir   == "putdir"

ASSUME PutDirAssumption ==
  /\ IsFiniteSet(Files) /\ NoFile \notin Files
  /\ MaxConcurrent \in Nat
  /\ Modes \subseteq AllModes
  /\ Globals \subseteq BOOLEAN /\ Faults \in BOOLEAN

VARIABLES
  mode, global, pc,
  manifest,    \* files not launched yet
  total,       \* how many files there are to insert
  jobs,        \* files whose job is in the list of jobs
  cur,         \* the file at hand
  inserting,   \* jobs counted as running,
  complete,    \* and as complete, in the last round
  unbuilt,     \* jobs not looked at yet for the manifest
  entries,     \* files the manifest names
  bad,         \* entries whose URI is an exception
  sent,        \* files whose insert command the node was sent
  alive,       \* the connection works
  outcome, kept, delivered

loopVars == <<manifest, total, jobs, cur, inserting, complete>>
listVars == <<unbuilt, entries, bad>>
connVars == <<sent, alive>>
jobVars  == <<outcome, kept, delivered>>
vars     == <<mode, global, pc, loopVars, listVars, connVars, jobVars>>

Ticket == INSTANCE JobPromise WITH Clients <- {putdir}, Tickets <- Files

Running(F)  == {f \in F : outcome[f] = "pending"}
\* Variant: a job that failed is not complete.
CompleteIfGood(F) == {f \in F : outcome[f] = "value"}

\* isComplete(): the result is there, be it an exception.
Complete(F) == {f \in F : outcome[f] \in Ticket!Results}

\* Any files may be there to insert: those the caller's manifest calls changed, with 
\* index.html if it has one, or without a manifest those readdir() finds.
Init ==
  /\ mode \in Modes /\ global \in Globals
  /\ manifest \in SUBSET Files
  /\ total = Cardinality(manifest)
  /\ pc = IF mode = "whole" THEN "build" ELSE "count"
  /\ jobs = {} /\ cur = NoFile /\ inserting = 0 /\ complete = 0
  /\ unbuilt = {} /\ entries = {} /\ bad = {}
  /\ sent = {} /\ alive = TRUE
  /\ Ticket!Init

--------------------------------------------------------------------------------
(***************************************************************************)
(* The loop                                                                *)
(***************************************************************************)
\* Variant: the count of the last round is not reset.
CountOn ==
  /\ pc = "count" /\ pc' = "decide"
  /\ complete'  = complete + Cardinality(Complete(jobs))
  /\ inserting' = Cardinality(jobs)
  /\ UNCHANGED <<mode, global, manifest, total, jobs, cur, listVars, connVars, 
                 jobVars>>

Count ==
  /\ pc = "count" /\ pc' = "decide"
  /\ complete'  = Cardinality(Complete(jobs))
  /\ inserting' = Cardinality(jobs) - complete'
  /\ UNCHANGED <<mode, global, manifest, total, jobs, cur, listVars, connVars, 
                 jobVars>>

AllDone ==
  /\ pc = "decide" /\ complete = total
  /\ pc' = "build" /\ unbuilt' = jobs
  /\ UNCHANGED <<mode, global, loopVars, entries, bad, connVars, jobVars>>

\* Too many inserts running, or none left to start: sleep and go round again.
Sleep ==
  /\ pc = "decide" /\ complete # total
  /\ inserting >= MaxConcurrent \/ manifest = {}
  /\ pc' = "count"
  /\ UNCHANGED <<mode, global, loopVars, listVars, connVars, jobVars>>

\* Variant: the file is not taken off the list.
LaunchPeeking(f) ==
  /\ pc = "decide" /\ complete # total /\ inserting < MaxConcurrent
  /\ f \in manifest /\ alive
  /\ cur' = f /\ pc' = "waitsent"
  /\ outcome' = [outcome EXCEPT ![f] = "pending"]
  /\ UNCHANGED <<mode, global, manifest, total, jobs, inserting, complete, listVars,
                 connVars, kept, delivered>>

\* Variant: one insert too many.
LaunchMore(f) ==
  /\ pc = "decide" /\ complete # total /\ inserting <= MaxConcurrent
  /\ f \in manifest /\ alive
  /\ manifest' = manifest \ {f} /\ cur' = f /\ pc' = "waitsent"
  /\ outcome' = [outcome EXCEPT ![f] = "pending"]
  /\ UNCHANGED <<mode, global, total, jobs, inserting, complete, listVars, connVars,
                 kept, delivered>>

\* The next file is read and put; put() refuses when the connection is lost.
Launch(f) ==
  /\ pc = "decide" /\ complete # total /\ inserting < MaxConcurrent
  /\ f \in manifest
  /\ manifest' = manifest \ {f} /\ cur' = f
  /\ UNCHANGED <<mode, global, total, jobs, inserting, complete, listVars, 
                 connVars>>
  /\ \/ /\ alive /\ pc' = "waitsent"
        /\ outcome' = [outcome EXCEPT ![f] = "pending"]
        /\ kept' = IF global THEN kept \cup {f} ELSE kept
        /\ UNCHANGED delivered
     \/ /\ Faults            \* the file is gone, or ~alive
        /\ pc' = "raised" /\ UNCHANGED jobVars

\* Variant: waits for the job in every mode.
LaunchedWaiting ==
  /\ pc = "waitsent" /\ cur \in sent
  /\ jobs' = jobs \cup {cur} /\ pc' = "waitjob"
  /\ UNCHANGED <<mode, global, manifest, total, cur, inserting, complete, listVars,
                 connVars, jobVars>>

\* put() waits until the command is sent, and returns the job.
Launched ==
  /\ pc = "waitsent" /\ cur \in sent
  /\ jobs' = jobs \cup {cur}
  /\ pc' = IF mode = "oneByOne" THEN "waitjob" ELSE "count"
  /\ UNCHANGED <<mode, global, manifest, total, cur, inserting, complete, listVars,
                 connVars, jobVars>>

\* job.wait() of the slow mode hands the result over, or raises it.
JobEnded ==
  /\ pc = "waitjob"
  /\ Ticket!Deliver(putdir, cur)
  /\ pc' = IF delivered'[putdir] = "value" THEN "count" ELSE "raised"
  /\ UNCHANGED <<mode, global, loopVars, listVars, connVars>>

--------------------------------------------------------------------------------
(***************************************************************************)
(* The manifest                                                            *)
(***************************************************************************)
\* A file that failed to insert is left out,
LeaveOut(f) ==
  /\ pc = "build" /\ f \in unbuilt /\ outcome[f] = "exception"
  /\ unbuilt' = unbuilt \ {f}
  /\ UNCHANGED <<mode, global, pc, loopVars, entries, bad, connVars, jobVars>>

\* Variant: no look at whether the insert failed.
NameAny(f) ==
  /\ pc = "build" /\ f \in unbuilt
  /\ pc' = "entry" /\ cur' = f /\ unbuilt' = unbuilt \ {f}
  /\ UNCHANGED <<mode, global, manifest, total, jobs, inserting, complete, entries, 
                 bad, connVars, jobVars>>

\* any other is named, with what its result is by then.
Name(f) ==
  /\ pc = "build" /\ f \in unbuilt /\ outcome[f] = "value"
  /\ pc' = "entry" /\ cur' = f /\ unbuilt' = unbuilt \ {f}
  /\ UNCHANGED <<mode, global, manifest, total, jobs, inserting, complete, entries,
                 bad, connVars, jobVars>>

Entry ==
  /\ pc = "entry" /\ pc' = "build"
  /\ entries' = entries \cup {cur}
  /\ bad' = IF outcome[cur] = "exception" THEN bad \cup {cur} ELSE bad
  /\ UNCHANGED <<mode, global, loopVars, unbuilt, connVars, jobVars>>

\* ClientPutComplexDir goes the way of all commands.
Dispatch ==
  /\ pc = "build" /\ unbuilt = {}
  /\ pc' = IF alive THEN "done" ELSE "raised"
  /\ UNCHANGED <<mode, global, loopVars, listVars, connVars, jobVars>>

Program == \/ Count \/ AllDone \/ Sleep \/ Launched \/ JobEnded
           \/ Entry \/ Dispatch
           \/ \E f \in Files : Launch(f) \/ LeaveOut(f) \/ Name(f)

--------------------------------------------------------------------------------
(***************************************************************************)
(* The manager thread and the node                                         *)
(***************************************************************************)
Send(f) ==
  /\ alive /\ outcome[f] = "pending" /\ f \notin sent
  /\ sent' = sent \cup {f}
  /\ UNCHANGED <<mode, global, pc, loopVars, listVars, alive, jobVars>>

Answer(f) ==
  /\ alive /\ f \in sent
  /\ Ticket!Resolve(f)
  /\ ~Faults => outcome'[f] = "value"
  /\ UNCHANGED <<mode, global, pc, loopVars, listVars, connVars>>

ConnectionLost ==
  /\ Faults /\ alive
  /\ alive' = FALSE
  /\ UNCHANGED <<mode, global, pc, loopVars, listVars, sent, jobVars>>

\* The manager fails every job of its table and its queue: those that wait, and those
\* that have a result and are kept all the same.
FailWaiting(f) ==
  /\ ~alive
  /\ Ticket!Resolve(f) /\ outcome'[f] = "exception"
  /\ UNCHANGED <<mode, global, pc, loopVars, listVars, connVars>>

Next == \/ Program
        \/ ConnectionLost
        \/ \E f \in Files : Send(f) \/ Answer(f) \/ FailWaiting(f)

Spec == Init /\ [][Next]_vars

\* Threads run, and the node answers every insert it was sent.
FairSpec == 
  /\ Spec /\ WF_vars(Program)
  /\ \A f \in Files : /\ WF_vars(Send(f))
                      /\ WF_vars(outcome[f] = "pending" /\ Answer(f))
                      /\ WF_vars(FailWaiting(f))

--------------------------------------------------------------------------------
(***************************************************************************)
(* Properties                                                              *)
(***************************************************************************)
Launchings == {f \in Files : outcome[f] # "unmade"}
Site       == manifest \cup Launchings \cup ({cur} \cap Files)
Limit      == IF mode = "oneByOne" THEN 1 ELSE MaxConcurrent
Inserted   == {f \in Files : outcome[f] = "value"}
NotInserted == {f \in Files : outcome[f] = "exception"}

\* Every variable keeps the type the code gives it; counts stay within the
\* number of files to insert.
TypeOK ==
  /\ mode \in Modes /\ global \in Globals
  /\ pc \in {"count", "decide", "waitsent", "waitjob", "build", "entry", "done", 
             "raised"}
  /\ {manifest, jobs, unbuilt, entries, bad, sent, kept} \subseteq SUBSET Files
  /\ cur \in Files \cup {NoFile}
  /\ total \in 0..Cardinality(Files)
  /\ inserting \in 0..total /\ complete \in 0..total
  /\ alive \in BOOLEAN
  /\ outcome \in [Files -> {"unmade", "pending"} \cup Ticket!Results]
  /\ delivered \in [{putdir} -> {"none", "RuntimeError"} \cup Ticket!Results]

\* Every file is in one place: still to be launched, launched, or at hand.
PlaceInv ==
  /\ manifest \cap Launchings = {}
  /\ Launchings = IF pc = "waitsent" THEN jobs \cup {cur} ELSE jobs
  /\ pc = "waitsent" => cur \in Files \ jobs
  /\ pc = "waitjob" => cur \in jobs
  /\ pc # "raised" => /\ total = Cardinality(manifest \cup Launchings)
                      /\ cur \in Launchings \cup {NoFile}
  /\ cur \notin manifest

\* The counts of a round stay on the safe side while the manager resolves jobs.
CountInv == 
  pc = "decide" => /\ inserting + complete = Cardinality(jobs)
                   /\ complete <= Cardinality(Complete(jobs))

\* So never too many inserts run, and none when the manifest is made.
RunInv ==
  /\ Cardinality(Running(Files)) <= Limit
  /\ mode = "oneByOne" => 
        Running(Files) \subseteq IF pc \in {"waitsent", "waitjob"} THEN {cur} ELSE {}
  /\ pc \in {"build", "entry", "done"} /\ mode # "whole" => 
        manifest = {} /\ Running(Files) = {}

\* What the list of entries holds while it is made.
ListInv ==
  /\ pc \notin {"build", "entry", "done", "raised"} => 
        entries = {} /\ unbuilt = {} /\ bad = {}
  /\ pc = "entry" => cur \in jobs \ (unbuilt \cup entries)
  /\ ~global => kept = {}
  /\ \A f \in Files \ kept : 
       /\ pc = "entry" /\ f = cur => outcome[f] = "value"
       /\ pc \in {"build", "entry", "done"} /\ mode # "whole" => 
            (f \in entries <=> 
               /\ outcome[f] = "value" /\ f \notin unbuilt 
               /\ ~(pc = "entry" /\ f = cur))
  /\ entries \cup unbuilt \subseteq jobs /\ entries \cap unbuilt = {}
  /\ pc = "done" => unbuilt = {}

\* Only what was launched is sent, resolved or kept; only the slow mode waits.
TicketInv ==
  /\ sent \cup kept \subseteq Launchings
  /\ pc = "waitjob" => mode = "oneByOne"

PutDirInv == TypeOK /\ PlaceInv /\ CountInv /\ RunInv /\ ListInv /\ TicketInv

\* The loop keeps what DirInsert says: never more than maxconcurrent inserts run
\* (one in the slow mode), no file is inserted twice, and the manifest comes when
\* every insert has ended and names just the files that were inserted.
Promise == INSTANCE DirInsert WITH
  unsettled <- kept,
  limit     <- Limit,
  site      <- Site,
  running   <- Running(Files),
  inserted  <- Inserted,
  failed    <- NotInserted,
  manifest  <- [made |-> pc = "done", files |-> IF pc = "done" THEN entries ELSE {}]

KeepsDirPromise == Promise!Spec

\* An exception can only take the place of an URI in the manifest for jobs that
\* are reported on again between the check of the result and its use (node.py
\* 1083 and 1093).
BadEntriesAreKept == bad \subseteq kept

\* With several inserts at once a failed one stops nobody: what ends putdir early
\* is a file that cannot be read or the loss of the connection ("all inserts
\* completed (or failed)", 1004).
FailuresAreCarried == 
  pc = "raised" /\ mode = "allAtOnce" /\ alive => outcome[cur] = "unmade"

\* The loop comes to an end, unless the connection is lost while it waits for a
\* command to be sent.
PutDirEnds == 
  <>(pc \in {"done", "raised"} \/ (pc = "waitsent" /\ ~alive))

\* The manifest names every file of the site whose insert did not fail.
NamesEveryFile == pc = "done" => Site \subseteq entries \cup NotInserted
================================================================================

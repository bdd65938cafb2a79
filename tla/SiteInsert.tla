------------------------------ MODULE SiteInsert ------------------------------
(***************************************************************************)
(* The life of one freesite under freesitemgr: SiteState of                *)
(* fcp3/sitemgr.py, the state file it keeps, the directory it is made from *)
(* and the global queue of the Freenet node it inserts through.            *)
(*                                                                         *)
(* A run of freesitemgr loads the state file, carries out one command and  *)
(* ends; the user edits files and the node works on its queue all the      *)
(* time.  A step is what the program does up to the next thing that        *)
(* outlives it: a write of the state file or a change of the queue.        *)
(*                                                                         *)
(* The contents of a file are versions 1, 2, ... (0 is no file, and no     *)
(* content ever comes back); the CHK of a content is its version.  The     *)
(* index page is a file of the directory, and the sitemap may be one.      *)
(* Left out are the sitemap that is generated where the directory has      *)
(* none, and its insert; the CHK of the index page, which nothing reads;   *)
(* DDA and the edition number of the site.  The state file gives back what *)
(* was saved: names that its reader rewrites are left to StateFile.        *)
(***************************************************************************)
EXTENDS Naturals

CONSTANTS
  Files,         \* names of files the directory may have
  Index,         \* the index page, always part of the manifest
  Sitemap,       \* the name of the sitemap, which may be in Files
  MaxVersion,    \* how often a file may change
  LeftOut(_, _), \* the files for which the manifest has no room, given the
                 \* contents scanned and that of the index page when it is read
  TakenBack(_, _),\* those of them that go in after all: too many are left out
  FileJobsFail,  \* whether the insert of a single file may fail
  Cancels,       \* whether the user cancels updates, or calls for --no-insert
  Crashes,       \* whether the program may be killed, or its files vanish
  Interrupts     \* the saves a KeyboardInterrupt may hit, by what follows them

Versions == 0..MaxVersion
NoFile   == 0
Failed   == MaxVersion + 1     \* an exception in place of an URI
Manifest == "__manifest"
Names    == Files \cup {Manifest}

\* What the program goes on to after it has saved its state.
SavePoints == {"begin", "pending", "scan", "mark", "sitemap", "loop", "manifest", "check", 
               "exit"}

ASSUME SiteAssumption ==
  /\ Index \in Files /\ Manifest \notin Files
  /\ MaxVersion \in Nat \ {0}
  /\ Sitemap \notin {Index, Manifest}
  /\ \A d \in [Files -> Versions], i \in Versions : 
       TakenBack(d, i) \subseteq LeftOut(d, i) /\ LeftOut(d, i) \subseteq Files \ {Index}
  /\ {FileJobsFail, Cancels, Crashes} \subseteq BOOLEAN /\ Interrupts \subseteq SavePoints

Commands == {"update", "dry", "reinsert", "cancel", "cleanup"}

\* What the state file says of a file, and what it says of a new one.
FileRec == [state  : {"unknown", "changed", "waiting", "inserting", "idle"},
            hash   : Versions,
            uri    : Versions \cup {Failed},
            target : {"manifest", "separate"}]
NoRec  == [state |-> "unknown", hash |-> NoFile, uri |-> NoFile, target |-> "separate"]
NoRecs == [f \in Files |-> NoRec]

\* A manifest names a content for each file.
NoManifest == [f \in Files |-> NoFile]

VARIABLES
  edits,       \* the last content of each file,
  gone,        \* and the files that have been deleted
  disk,        \* the state file
  mem,         \* the SiteState object of the running program
  command,     \* what freesitemgr was called for
  pc, after,   \* where it is, and where it goes on after a save
  queued, todo,\* jobs managePendingInsert found, and has still to look at
  queue,       \* the node: the status of each job on its global queue,
  raw,         \* the content a file job was given,
  manifest,    \* the contents the manifest job was given,
  site,        \* the contents of the manifest that was inserted last
  interrupted  \* history: an update was cancelled, cut short or not inserted,
               \* or its failure was cleaned up

userVars == <<edits, gone>>
progVars == <<mem, command, pc, after, queued, todo>>
nodeVars == <<queue, raw, manifest, site>>
vars     == <<userVars, disk, progVars, nodeVars, interrupted>>

Content(f)   == IF f \in gone THEN NoFile ELSE edits[f]
Known        == {f \in Files : mem.files[f].state # "unknown"}
Unmade       == [files |-> NoRecs, updateInProgress |-> FALSE, 
                 insertingManifest |-> FALSE, needToUpdate |-> FALSE]
Busy(n)      == queue[n] # "none"

\* The site has just been added: __init__ leaves updateInProgress set.
Init ==
  /\ edits = [f \in Files |-> IF f = Index THEN 1 ELSE NoFile] /\ gone = {}
  /\ disk = [status |-> "readable", files |-> NoRecs, 
             updateInProgress |-> TRUE, insertingManifest |-> FALSE]
  /\ mem = Unmade
  /\ command = "update" /\ pc = "off" /\ after = "off"
  /\ queued = {} /\ todo = {}
  /\ queue = [n \in Names |-> "none"]
  /\ raw = [f \in Files |-> NoFile] /\ manifest = NoManifest
  /\ site = NoManifest
  /\ interrupted = FALSE

--------------------------------------------------------------------------------
(***************************************************************************)
(* Loading and saving                                                      *)
(***************************************************************************)
Goto(p) == pc' = p /\ after' = "off"
Save(p) == pc' = "unlink" /\ after' = p

\* SiteState.__init__: load(), then save().
Load(c) ==
  /\ pc = "off" /\ disk.status = "readable"
  /\ c \in {"cancel", "dry"} => Cancels
  /\ command' = c
  /\ mem' = [files |-> disk.files, updateInProgress |-> disk.updateInProgress,
             insertingManifest |-> disk.insertingManifest, needToUpdate |-> FALSE]
  /\ Save("begin")
  /\ UNCHANGED <<userVars, disk, queued, todo, nodeVars, interrupted>>

\* save(): the old file is removed,
Unlink ==
  /\ pc = "unlink"
  /\ disk' = [status |-> "missing", files |-> NoRecs, 
              updateInProgress |-> FALSE, insertingManifest |-> FALSE]
  /\ pc' = "rename" /\ UNCHANGED after
  /\ UNCHANGED <<userVars, mem, command, queued, todo, nodeVars, interrupted>>

\* then the new one takes its place.  An exception is not written at all, and
\* the list of files that holds it with it.
Rename ==
  /\ pc = "rename"
  /\ LET bad == \E f \in Files : mem.files[f].uri = Failed IN
     disk' = [status |-> IF bad THEN "unreadable" ELSE "readable", 
              files |-> IF bad THEN NoRecs ELSE mem.files,
              updateInProgress |-> mem.updateInProgress, 
              insertingManifest |-> mem.insertingManifest]
  /\ Goto(after)
  /\ UNCHANGED <<userVars, mem, command, queued, todo, nodeVars, interrupted>>

\* KeyboardInterrupt: the new file is removed, and the program goes on.
SaveInterrupted ==
  /\ pc \in {"unlink", "rename"} /\ after \in Interrupts
  /\ Goto(after)
  /\ interrupted' = TRUE
  /\ UNCHANGED <<userVars, disk, mem, command, queued, todo, nodeVars>>

\* What an exiting program leaves behind is on disk and in the queue.
Forget ==
  /\ mem' = Unmade /\ command' = "update" /\ queued' = {} /\ todo' = {} 
  /\ pc' = "off" /\ after' = "off"

Exit == pc = "exit" /\ Forget /\ UNCHANGED <<userVars, disk, nodeVars, interrupted>>

--------------------------------------------------------------------------------
(***************************************************************************)
(* The commands                                                            *)
(***************************************************************************)
\* clearNodeQueue() removes the jobs of the site from the queue, one by one.
Clearing == \/ pc = "clear"
            \/ pc = "begin" /\ command = "cancel"
            \/ pc = "begin" /\ command = "cleanup" /\ ~mem.updateInProgress
Cleared  == \A n \in Names : ~Busy(n)

ClearJob(n) == 
  /\ queue' = [queue EXCEPT ![n] = "none"]
  /\ raw' = [f \in Files |-> IF f = n THEN NoFile ELSE raw[f]]
  /\ manifest' = IF n = Manifest THEN NoManifest ELSE manifest

RemoveJob(n) ==
  /\ Clearing /\ Busy(n) /\ ClearJob(n)
  /\ interrupted' = (interrupted \/ command = "cancel")
  /\ UNCHANGED <<userVars, disk, progVars, site>>

Mark(files, state) == [f \in Files |-> IF f \in files 
                                       THEN [mem.files[f] EXCEPT !.state = state] 
                                       ELSE mem.files[f]]

\* insert() and cleanup() look at the queue when an update is in progress.
LookAtQueue ==
  /\ queued' = {n \in Names : Busy(n)} /\ todo' = queued'
  /\ Goto("pending")
  /\ UNCHANGED <<queue, raw, manifest>>

Insert ==
  /\ pc = "begin" /\ command \in {"update", "dry"}
  /\ IF mem.updateInProgress THEN LookAtQueue
     ELSE Goto("scan") /\ UNCHANGED <<queued, todo, queue, raw, manifest>>
  /\ UNCHANGED <<userVars, disk, mem, command, site, interrupted>>

\* mark_for_reinsert(), then insert().
Reinsert ==
  /\ pc = "begin" /\ command = "reinsert"
  /\ mem' = [mem EXCEPT !.files = Mark(Known, "changed"), !.needToUpdate = TRUE]
  /\ command' = "update"
  /\ Save("begin")
  /\ UNCHANGED <<userVars, disk, queued, todo, nodeVars, interrupted>>

Cleanup ==
  /\ pc = "begin" /\ command = "cleanup"
  /\ IF mem.updateInProgress THEN LookAtQueue
     ELSE Cleared /\ Goto("exit") /\ UNCHANGED <<queued, todo, queue, raw, manifest>>
  /\ UNCHANGED <<userVars, disk, mem, command, site, interrupted>>

CancelUpdate ==
  /\ pc = "begin" /\ command = "cancel"
  /\ Cleared
  /\ mem' = [mem EXCEPT 
       !.updateInProgress = FALSE, !.insertingManifest = FALSE,
       !.files = Mark({f \in Files : mem.files[f].state = "inserting"}, "waiting")]
  /\ Save("exit")
  /\ interrupted' = TRUE
  /\ UNCHANGED <<userVars, disk, command, queued, todo, nodeVars>>

--------------------------------------------------------------------------------
(***************************************************************************)
(* managePendingInsert                                                     *)
(***************************************************************************)
\* One job of the loop.  A job still running is passed over; one that has ended
\* is cleared from the queue.
Look(n) ==
  /\ pc = "pending" /\ n \in todo
  /\ todo' = todo \ {n}
  /\ UNCHANGED <<userVars, disk, command, queued, site>>

JobRunning(n) ==
  /\ Look(n)
  /\ queue[n] = "running"
  /\ UNCHANGED <<mem, queue, raw, manifest, pc, after, interrupted>>

\* Variant: the status of the job becomes the state of the file.
SettledAs(r, n) == [r EXCEPT !.uri = IF queue[n] = "done" THEN raw[n] ELSE Failed,
                             !.state = queue[n]]

\* "that file is now done", whether or not it was inserted.
Settled(r, n) == [r EXCEPT !.uri = IF queue[n] = "done" THEN raw[n] ELSE Failed,
                           !.state = "idle"]

\* A sitemap that failed is also a reason to insert again.
FileJobEnded(f) ==
  /\ Look(f)
  /\ queue[f] \in {"done", "failed"} /\ ClearJob(f)
  /\ mem' = [mem EXCEPT 
       !.files[f] = IF f \in Known THEN Settled(@, f) ELSE @,
       !.needToUpdate = @ \/ (f = Sitemap /\ queue[f] = "failed")]
  /\ UNCHANGED <<pc, after, interrupted>>

ManifestJobDone ==
  /\ Look(Manifest)
  /\ queue[Manifest] = "done" /\ ClearJob(Manifest)
  /\ mem' = [mem EXCEPT !.insertingManifest = FALSE]
  /\ Save("pending")
  /\ UNCHANGED interrupted

\* Variant: the failure is not taken as a reason to insert again.
ManifestFailureIgnored ==
  /\ Look(Manifest)
  /\ queue[Manifest] = "failed" /\ ClearJob(Manifest)
  /\ UNCHANGED mem
  /\ interrupted' = (interrupted \/ command # "update")
  /\ UNCHANGED <<pc, after>>

\* needToUpdate is not saved: only insert() itself makes use of it.
ManifestJobFailed ==
  /\ Look(Manifest)
  /\ queue[Manifest] = "failed" /\ ClearJob(Manifest)
  /\ mem' = [mem EXCEPT !.needToUpdate = TRUE]
  /\ interrupted' = (interrupted \/ command # "update")
  /\ UNCHANGED <<pc, after>>

\* Variant: the update is over as soon as no file is left to insert.
PendingDoneEarly ==
  /\ pc = "pending" /\ todo = {}
  /\ LET lost == {f \in Files : mem.files[f].state = "inserting"} \ queued
         files == Mark(lost, "waiting")
         need == mem.needToUpdate \/ lost # {}
         inserting == \E f \in Known : files[f].state # "idle"
     IN /\ mem' = [mem EXCEPT !.files = files, !.needToUpdate = need,
                              !.updateInProgress = @ /\ inserting]
        /\ Save(IF command = "cleanup" \/ (inserting /\ ~need) THEN "exit" ELSE "scan")
  /\ queued' = {}
  /\ UNCHANGED <<userVars, disk, command, todo, nodeVars, interrupted>>

\* Forgotten jobs are noticed, the update is over or not, and insert() goes on
\* unless it has to wait.
PendingDone ==
  /\ pc = "pending" /\ todo = {}
  /\ LET lost == {f \in Files : mem.files[f].state = "inserting"} \ queued
         files == Mark(lost, "waiting")
         need == mem.needToUpdate \/ lost # {}
         inserting == mem.insertingManifest \/ \E f \in Known : files[f].state # "idle"
     IN /\ mem' = [mem EXCEPT !.files = files, !.needToUpdate = need,
                              !.updateInProgress = @ /\ inserting]
        /\ Save(IF command = "cleanup" \/ (inserting /\ ~need) THEN "exit" ELSE "scan")
  /\ queued' = {}
  /\ UNCHANGED <<userVars, disk, command, todo, nodeVars, interrupted>>

--------------------------------------------------------------------------------
(***************************************************************************)
(* The rest of insert()                                                    *)
(***************************************************************************)
\* A file is marked as changed when it is new, marked already, different from
\* what was scanned last, or separate and without a CHK.
Changed(f) ==
  LET r == mem.files[f] IN
  \/ r.state \in {"unknown", "changed", "waiting"}
  \/ r.hash # Content(f)
  \/ r.uri = NoFile /\ r.target = "separate"

\* scan(): deleted files leave the records, changed ones get their new hash and
\* keep the URI of the old content.
Scan ==
  /\ pc = "scan"
  /\ LET Changing == {f \in Files : Content(f) # NoFile /\ Changed(f)}
         Removed == {f \in Known : Content(f) = NoFile}
     IN IF Changing \cup Removed # {}
        THEN /\ mem' = [mem EXCEPT 
                  !.needToUpdate = TRUE,
                  !.files = [f \in Files |-> 
                     IF f \in Removed THEN NoRec
                     ELSE IF f \in Changing 
                     THEN [mem.files[f] EXCEPT !.state = "changed", !.hash = Content(f)]
                     ELSE mem.files[f]]]
             /\ Save("mark")
        ELSE Goto("mark") /\ UNCHANGED mem
  /\ UNCHANGED <<userVars, disk, command, queued, todo, nodeVars, interrupted>>

Scanned == [f \in Files |-> mem.files[f].hash]

\* Variant: files that leave the manifest are not marked as changed.
MarkTargetsOnly ==
  /\ pc = "mark"
  /\ LET large == Known \cap (LeftOut(Scanned, Content(Index)) 
                              \ TakenBack(Scanned, Content(Index)))
     IN mem' = [mem EXCEPT 
             !.files = [f \in Files |-> 
                IF f \notin Known THEN NoRec
                ELSE [mem.files[f] EXCEPT 
                        !.target = IF f \in large THEN "separate" ELSE "manifest"]]]
  /\ Goto(IF ~mem'.needToUpdate THEN "uptodate" 
          ELSE IF command = "dry" THEN "exit" ELSE "clear")
  /\ interrupted' = (interrupted \/ (mem'.needToUpdate /\ command = "dry"))
  /\ UNCHANGED <<userVars, disk, command, queued, todo, nodeVars>>

\* markManifestFiles(), which reads the index page again: a file for which there
\* is no room any more is to be inserted, if it has no CHK, and so is the site,
\* taken back or not.  Then insert() stops if there is nothing to do, or with
\* --no-insert.
MarkManifestFiles ==
  /\ pc = "mark"
  /\ LET out   == Known \cap LeftOut(Scanned, Content(Index))
         large == out \ TakenBack(Scanned, Content(Index))
         moved == {f \in out : /\ mem.files[f].target = "manifest" 
                               /\ mem.files[f].uri = NoFile}
     IN mem' = [mem EXCEPT 
             !.needToUpdate = @ \/ moved # {},
             !.files = [f \in Files |-> 
                IF f \notin Known THEN NoRec
                ELSE [mem.files[f] EXCEPT 
                        !.target = IF f \in large THEN "separate" ELSE "manifest",
                        !.state = IF f \in moved THEN "changed" ELSE @]]]
  /\ Goto(IF ~mem'.needToUpdate THEN "uptodate" 
          ELSE IF command = "dry" THEN "exit" ELSE "clear")
  /\ interrupted' = (interrupted \/ (mem'.needToUpdate /\ command = "dry"))
  /\ UNCHANGED <<userVars, disk, command, queued, todo, nodeVars>>

\* "No update required"
UpToDate ==
  /\ pc = "uptodate" /\ Goto("exit")
  /\ UNCHANGED <<userVars, disk, mem, command, queued, todo, nodeVars, interrupted>>

\* Variant: the jobs are left on the queue.
GenIndexUriAtOnce ==
  /\ pc = "clear"
  /\ IF mem.files[Index].state # "idle" THEN Save("sitemap") ELSE Goto("sitemap")
  /\ UNCHANGED <<userVars, disk, mem, command, queued, todo, nodeVars, interrupted>>

\* Past clearNodeQueue() the index page is looked at,
GenIndexUri ==
  /\ pc = "clear" /\ Cleared
  /\ IF mem.files[Index].state # "idle" THEN Save("sitemap") ELSE Goto("sitemap")
  /\ UNCHANGED <<userVars, disk, mem, command, queued, todo, nodeVars, interrupted>>

\* and the sitemap of the directory gets a CHK if it has none, as long as it is
\* in the manifest, too.
NeedsUri == Sitemap \in Known /\ mem.files[Sitemap].uri = NoFile

GenSitemapUri ==
  /\ pc = "sitemap" /\ (NeedsUri => Content(Sitemap) # NoFile)
  /\ mem' = [mem EXCEPT !.files = [f \in Files |->
       IF f = Sitemap /\ NeedsUri 
       THEN [mem.files[f] EXCEPT !.uri = Content(f)] ELSE mem.files[f]]]
  /\ Goto("loop")
  /\ UNCHANGED <<userVars, disk, command, queued, todo, nodeVars, interrupted>>

ToInsert == {f \in Files : /\ mem.files[f].state = "changed" 
                           /\ mem.files[f].target = "separate"}

\* A file's CHK is computed and its insert put on the queue.  The state is saved
\* after every tenth file, which one being left open here.
QueueFile(f) ==
  /\ pc = "loop" /\ f \in ToInsert /\ Content(f) # NoFile
  /\ queue' = [queue EXCEPT ![f] = "running"]
  /\ raw' = [raw EXCEPT ![f] = Content(f)]
  /\ mem' = [mem EXCEPT !.files[f].uri = Content(f), !.files[f].state = "inserting"]
  /\ Save("loop") \/ Goto("loop")
  /\ UNCHANGED <<userVars, disk, command, queued, todo, manifest, site, 
                 interrupted>>

FilesQueued ==
  /\ pc = "loop" /\ ToInsert = {}
  /\ Save("manifest")
  /\ UNCHANGED <<userVars, disk, mem, command, queued, todo, nodeVars, interrupted>>

\* makeManifest() and its submission.  A separate file without a CHK is left
\* out; every file that is in the manifest needs nothing more.
Redirects == {f \in Known : mem.files[f].target = "separate" 
                            /\ mem.files[f].uri # NoFile}
Embedded  == {f \in Known : mem.files[f].target = "manifest"}
CanMake   == /\ \A f \in Embedded : Content(f) # NoFile
             /\ \A f \in Redirects : mem.files[f].uri # Failed

SubmitManifest ==
  /\ pc = "manifest" /\ CanMake
  /\ manifest' = [f \in Files |-> IF f \in Redirects THEN mem.files[f].uri
                                ELSE IF f \in Embedded THEN Content(f) ELSE NoFile]
  /\ queue' = [queue EXCEPT ![Manifest] = "running"]
  /\ mem' = [mem EXCEPT !.files = Mark(Redirects \cup Embedded, "idle"),
                        !.updateInProgress = TRUE, !.insertingManifest = TRUE]
  /\ Save("check")
  /\ UNCHANGED <<userVars, disk, command, queued, todo, raw, site, 
                 interrupted>>

\* The queue is looked at a few times, which only logs; the state is saved again.
CheckQueue ==
  /\ pc = "check" /\ Save("exit")
  /\ UNCHANGED <<userVars, disk, mem, command, queued, todo, nodeVars, interrupted>>

\* A file has vanished, or an URI is an exception: Python raises, the program ends.
Abort ==
  /\ \/ pc = "sitemap" /\ NeedsUri /\ Content(Sitemap) = NoFile
     \/ pc = "loop" /\ \E f \in ToInsert : Content(f) = NoFile
     \/ pc = "manifest" /\ ~CanMake
  /\ Forget
  /\ interrupted' = TRUE
  /\ UNCHANGED <<userVars, disk, nodeVars>>

--------------------------------------------------------------------------------
(***************************************************************************)
(* Everything else: the node, the user, a kill                             *)
(***************************************************************************)
JobDone(n) ==
  /\ queue[n] = "running"
  /\ queue' = [queue EXCEPT ![n] = "done"]
  /\ site' = IF n = Manifest THEN manifest ELSE site
  /\ UNCHANGED <<userVars, disk, progVars, raw, manifest, interrupted>>

JobFails(n) ==
  /\ queue[n] = "running"
  /\ n \in Files => FileJobsFail
  /\ queue' = [queue EXCEPT ![n] = "failed"]
  /\ UNCHANGED <<userVars, disk, progVars, raw, manifest, site, interrupted>>

Edit(f) ==
  /\ edits[f] < MaxVersion
  /\ edits' = [edits EXCEPT ![f] = @ + 1]
  /\ gone' = gone \ {f}
  /\ UNCHANGED <<disk, progVars, nodeVars, interrupted>>

Delete(f) ==
  /\ f # Index /\ Content(f) # NoFile 
  /\ pc # "off" => Crashes
  /\ gone' = gone \cup {f}
  /\ UNCHANGED <<edits, disk, progVars, nodeVars, interrupted>>

Crash ==
  /\ Crashes /\ pc # "off"
  /\ Forget
  /\ interrupted' = TRUE
  /\ UNCHANGED <<userVars, disk, nodeVars>>

ProgramStep ==
  \/ Unlink \/ Rename \/ Exit
  \/ Insert \/ Reinsert \/ Cleanup \/ CancelUpdate \/ (\E n \in Names : RemoveJob(n))
  \/ (\E n \in Names : JobRunning(n)) \/ (\E f \in Files : FileJobEnded(f))
  \/ ManifestJobDone \/ ManifestJobFailed \/ PendingDone
  \/ Scan \/ MarkManifestFiles \/ UpToDate \/ GenIndexUri \/ GenSitemapUri
  \/ (\E f \in Files : QueueFile(f)) \/ FilesQueued 
  \/ SubmitManifest \/ CheckQueue \/ Abort

Next ==
  \/ ProgramStep \/ SaveInterrupted \/ Crash
  \/ \E c \in Commands : Load(c)
  \/ \E n \in Names : JobDone(n) \/ JobFails(n)
  \/ \E f \in Files : Edit(f) \/ Delete(f)

Spec == Init /\ [][Next]_vars

(***************************************************************************)
(* The program runs once started, freesitemgr update is called again and   *)
(* again (--cron), jobs end, and a manifest is not rejected for ever.      *)
(***************************************************************************)
Fairness ==
  /\ WF_vars(ProgramStep)
  /\ SF_vars(Load("update"))
  /\ \A f \in Files : WF_vars(JobDone(f) \/ JobFails(f))
  /\ SF_vars(JobDone(Manifest))

FairSpec == Spec /\ Fairness

--------------------------------------------------------------------------------
(***************************************************************************)
(* Properties                                                              *)
(***************************************************************************)
Points == SavePoints \cup {"off", "unlink", "rename", "uptodate", "clear"}

\* Every variable has the type the code gives it.
TypeOK ==
  /\ edits \in [Files -> Versions] /\ gone \subseteq Files
  /\ disk \in [status : {"readable", "missing", "unreadable"}, files : [Files -> FileRec],
               updateInProgress : BOOLEAN, insertingManifest : BOOLEAN]
  /\ mem \in [files : [Files -> FileRec], updateInProgress : BOOLEAN, 
              insertingManifest : BOOLEAN, needToUpdate : BOOLEAN]
  /\ command \in Commands /\ pc \in Points /\ after \in SavePoints \cup {"off"}
  /\ queued \subseteq Names /\ todo \subseteq Names
  /\ queue \in [Names -> {"none", "running", "done", "failed"}]
  /\ raw \in [Files -> Versions]
  /\ manifest \in [Files -> Versions] /\ site \in [Files -> Versions]
  /\ interrupted \in BOOLEAN

\* The node rejects a job whose identifier is on its queue, and identifiers are
\* made of the names of site and file alone: whatever was interrupted before,
\* an insert finds none of the identifiers it is about to use on the queue.
NoCollision ==
  /\ pc = "loop" => \A f \in ToInsert : ~Busy(f)
  /\ pc \in {"loop", "manifest"} => ~Busy(Manifest)

\* makeManifest leaves out separate files that have no URI; there are none: the
\* manifest names every file the scan found.
ManifestComplete ==
  [][ pc = "manifest" /\ pc' = "unlink" => 
      \A f \in Known : manifest'[f] # NoFile ]_vars

\* The sitemap is not among the files spoken of below: when it leaves the
\* manifest it has a CHK already, of an older content perhaps, and is not inserted.
Pages == Files \ {Sitemap}

\* "No update required" is said of a site whose last manifest has been inserted
\* and shows every file as it has just been scanned.
UpToDateIsPublished ==
  pc = "uptodate" /\ ~interrupted => 
    \A f \in Pages : site[f] = mem.files[f].hash

\* Between two runs the state file and the queue agree on whether a manifest is
\* on its way, so that the next run takes up where the last one ended.
ResumeFindsManifest ==
  pc = "off" /\ ~interrupted => (Busy(Manifest) <=> disk.insertingManifest)

\* Called again and again, freesitemgr update publishes what is in the directory
\* once the user has stopped editing, however often the manifest fails.  A single
\* file must not fail: the state file cannot be read after that.
Converges ==
  <>[](interrupted \/ disk.status = "unreadable" \/ \A f \in Pages : site[f] = Content(f))

(***************************************************************************)
(* The inductive invariant behind NoCollision and ResumeFindsManifest.     *)
(***************************************************************************)
\* The program is at p, or saves before it goes on to p.
At(p) == pc = p \/ (pc \in {"unlink", "rename"} /\ after = p)

SaveInv == pc \in {"unlink", "rename"} => after \in SavePoints

FreeInv ==
  /\ At("sitemap") => Cleared
  /\ At("loop") => \A f \in ToInsert : ~Busy(f)
  /\ At("loop") \/ At("manifest") => ~Busy(Manifest)

\* Memory and queue agree on the manifest, or the program is about to make a new one.
Agree    == mem.insertingManifest <=> Busy(Manifest)
Retrying == mem.needToUpdate /\ command = "update"

ResumeInv ==
  /\ mem.insertingManifest => mem.updateInProgress
  /\ disk.insertingManifest => disk.updateInProgress
  /\ ~interrupted =>
       /\ pc = "off" => (disk.insertingManifest <=> Busy(Manifest))
       /\ pc \notin {"off", "unlink", "rename"} => 
            disk.insertingManifest = mem.insertingManifest
       /\ \A p \in {"begin", "pending", "scan", "mark"} : At(p) => Agree \/ Retrying
       /\ \A p \in {"uptodate", "check", "exit"} : At(p) => Agree

SiteInv == TypeOK /\ SaveInv /\ FreeInv /\ ResumeInv
================================================================================

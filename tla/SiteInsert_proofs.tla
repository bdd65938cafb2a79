--------------------------- MODULE SiteInsert_proofs ---------------------------
(***************************************************************************)
(* SiteInv is an inductive invariant of SiteInsert, for any files, any     *)
(* division of them between manifest and separate inserts, any failures,   *)
(* edits, cancellations and kills; with what follows from it.              *)
(***************************************************************************)
EXTENDS SiteInsert, TLAPS

MemType  == [files : [Files -> FileRec], updateInProgress : BOOLEAN, 
             insertingManifest : BOOLEAN, needToUpdate : BOOLEAN]
Contents == [Files -> Versions]
Statuses == {"none", "running", "done", "failed"}

(***************************************************************************)
(* The values the steps write                                              *)
(***************************************************************************)
LEMMA MemFacts ==
  ASSUME TypeOK
  PROVE  /\ mem \in MemType
         /\ mem.files \in [Files -> FileRec]
         /\ \A f \in Files : mem.files[f] \in FileRec
         /\ mem.updateInProgress \in BOOLEAN
         /\ mem.insertingManifest \in BOOLEAN
         /\ mem.needToUpdate \in BOOLEAN
  BY DEF TypeOK, MemType

LEMMA ContentType ==
  ASSUME TypeOK, NEW f \in Files
  PROVE  Content(f) \in Versions
  BY SiteAssumption DEF TypeOK, Content, Versions, NoFile

LEMMA RecUpdates ==
  ASSUME NEW r \in FileRec, NEW v \in Versions
  PROVE  /\ \A s \in {"changed", "waiting", "inserting", "idle"} : 
              [r EXCEPT !.state = s] \in FileRec
         /\ [r EXCEPT !.state = "changed", !.hash = v] \in FileRec
         /\ [r EXCEPT !.uri = v] \in FileRec
         /\ [r EXCEPT !.uri = v, !.state = "inserting"] \in FileRec
         /\ \A u \in Versions \cup {Failed} : 
              [r EXCEPT !.uri = u, !.state = "idle"] \in FileRec
         /\ \A t \in {"manifest", "separate"} : 
              /\ [r EXCEPT !.target = t, !.state = "changed"] \in FileRec
              /\ [r EXCEPT !.target = t, !.state = r.state] \in FileRec
  BY DEF FileRec

LEMMA MarkType ==
  ASSUME TypeOK, NEW F, NEW s \in {"changed", "waiting", "idle"}
  PROVE  Mark(F, s) \in [Files -> FileRec]
  <1> SUFFICES ASSUME NEW f \in Files PROVE Mark(F, s)[f] \in FileRec
    BY DEF Mark
  <1>1. 0 \in Versions
    BY SiteAssumption DEF Versions
  <1>2. mem.files[f] \in FileRec /\ [mem.files[f] EXCEPT !.state = s] \in FileRec
    BY <1>1, MemFacts, RecUpdates
  <1> QED
    BY <1>2 DEF Mark

LEMMA NoRecType == NoRec \in FileRec
  BY SiteAssumption DEF NoRec, FileRec, Versions, NoFile

LEMMA NoRecsType == NoRecs \in [Files -> FileRec]
  BY NoRecType DEF NoRecs

LEMMA EmptyTypes == NoManifest \in Contents /\ [f \in Files |-> NoFile] \in Contents
  BY SiteAssumption DEF NoManifest, NoFile, Versions, Contents

LEMMA UnmadeType == Unmade \in MemType /\ Unmade.insertingManifest = FALSE
  BY NoRecsType DEF Unmade, MemType

LEMMA InitInv == Init => SiteInv
  <1> SUFFICES ASSUME Init PROVE SiteInv
    OBVIOUS
  <1>1. TypeOK
    <2>1. edits \in [Files -> Versions]
      BY SiteAssumption DEF Init, Versions, NoFile
    <2>2. disk \in [status : {"readable", "missing", "unreadable"}, files : [Files -> FileRec],
               updateInProgress : BOOLEAN, insertingManifest : BOOLEAN]
      BY NoRecsType DEF Init
    <2>3. /\ raw \in [Files -> Versions] /\ manifest \in [Files -> Versions] 
          /\ site \in [Files -> Versions] 
      BY EmptyTypes DEF Init, Contents
    <2>4. mem \in MemType
      BY UnmadeType DEF Init
    <2>5. /\ command \in Commands /\ pc \in Points /\ after \in SavePoints \cup {"off"}
          /\ queued \subseteq Names /\ todo \subseteq Names /\ gone \subseteq Files
          /\ queue \in [Names -> {"none", "running", "done", "failed"}]
          /\ interrupted \in BOOLEAN
      BY DEF Init, Points, SavePoints, Commands
    <2> QED
      BY <2>1, <2>2, <2>3, <2>4, <2>5 DEF TypeOK, MemType
  <1>2. SaveInv /\ FreeInv
    BY DEF Init, SaveInv, FreeInv, At
  <1>3. ResumeInv
    <2>1. ~disk.insertingManifest /\ disk.updateInProgress
      BY DEF Init
    <2>2. ~Busy(Manifest)
      BY DEF Init, Busy, Names
    <2> QED
      BY <2>1, <2>2, UnmadeType DEF Init, ResumeInv, At
  <1> QED
    BY <1>1, <1>2, <1>3 DEF SiteInv

(***************************************************************************)
(* Types                                                                   *)
(***************************************************************************)
UserOK == edits \in Contents /\ gone \subseteq Files
DiskOK == disk \in [status : {"readable", "missing", "unreadable"}, files : [Files -> FileRec],
                    updateInProgress : BOOLEAN, insertingManifest : BOOLEAN]
MemOK  == mem \in MemType
ProgOK == /\ command \in Commands /\ pc \in Points /\ after \in SavePoints \cup {"off"}
          /\ queued \subseteq Names /\ todo \subseteq Names
NodeOK == /\ queue \in [Names -> Statuses]
          /\ raw \in Contents /\ manifest \in Contents /\ site \in Contents
HistOK == interrupted \in BOOLEAN

LEMMA Parts == TypeOK <=> UserOK /\ DiskOK /\ MemOK /\ ProgOK /\ NodeOK /\ HistOK
  BY DEF TypeOK, UserOK, DiskOK, MemOK, MemType, ProgOK, NodeOK, HistOK, Contents, Statuses

LEMMA PartsNext == 
  TypeOK' <=> UserOK' /\ DiskOK' /\ MemOK' /\ ProgOK' /\ NodeOK' /\ HistOK'
  BY DEF TypeOK, UserOK, DiskOK, MemOK, MemType, ProgOK, NodeOK, HistOK, Contents, Statuses

\* Only Insert and Cleanup look at the queue, only the node and the user write
\* their variables, only a save writes the disk.
LEMMA ProgType ==
  ASSUME TypeOK, SaveInv, Next
  PROVE  ProgOK'
  <1>1. ProgOK
    BY Parts
  <1>2. CASE Insert
    BY <1>1, <1>2 DEF ProgOK, Insert, LookAtQueue, Goto, Points, SavePoints
  <1>3. CASE Cleanup
    BY <1>1, <1>3 DEF ProgOK, Cleanup, LookAtQueue, Goto, Points, SavePoints
  <1>4. CASE Unlink \/ Rename \/ Exit \/ Reinsert \/ CancelUpdate \/ \E c \in Commands : Load(c)
    BY <1>1, <1>4 DEF ProgOK, SaveInv, Unlink, Rename, Exit, Reinsert, CancelUpdate, Load,
       Goto, Save, Forget, Points, SavePoints, Commands
  <1>5. CASE \E n \in Names : JobRunning(n)
    BY <1>1, <1>5 DEF ProgOK, JobRunning, Look
  <1>6. CASE \E f \in Files : FileJobEnded(f)
    BY <1>1, <1>6 DEF ProgOK, FileJobEnded, Look
  <1>7. CASE ManifestJobDone \/ ManifestJobFailed
    BY <1>1, <1>7 DEF ProgOK, ManifestJobDone, ManifestJobFailed, Look, Save, 
       Points, SavePoints
  <1>8. CASE PendingDone
    BY <1>1, <1>8 DEF ProgOK, PendingDone, Save, Points, SavePoints
  <1>9. CASE Scan \/ UpToDate \/ GenIndexUri \/ GenSitemapUri \/ FilesQueued \/ CheckQueue 
    BY <1>1, <1>9 DEF ProgOK, Scan, UpToDate, GenIndexUri, GenSitemapUri, FilesQueued, 
       CheckQueue, Goto, Save, Points, SavePoints
  <1>10. CASE MarkManifestFiles
    BY <1>1, <1>10 DEF ProgOK, MarkManifestFiles, Goto, Points, SavePoints
  <1>11. CASE SubmitManifest \/ \E f \in Files : QueueFile(f)
    BY <1>1, <1>11 DEF ProgOK, SubmitManifest, QueueFile, Goto, Save, Points, SavePoints
  <1>12. CASE Abort \/ Crash
    BY <1>1, <1>12 DEF ProgOK, Abort, Crash, Forget, Points, SavePoints, Commands
  <1>13. CASE \/ \E n \in Names : JobDone(n) \/ JobFails(n)
              \/ \E f \in Files : Edit(f) \/ Delete(f)
              \/ \E n \in Names : RemoveJob(n)
    BY <1>1, <1>13 DEF ProgOK, progVars, JobDone, JobFails, Edit, Delete, RemoveJob
  <1>14. CASE SaveInterrupted
    BY <1>1, <1>14 DEF ProgOK, SaveInv, SaveInterrupted, Goto, Points
  <1> QED
    BY <1>2, <1>3, <1>4, <1>5, <1>6, <1>7, <1>8, <1>9, <1>10, <1>11, <1>12, <1>13, <1>14
    DEF Next, ProgramStep

LEMMA UserType ==
  ASSUME TypeOK, Next
  PROVE  UserOK'
  <1>1. UserOK
    BY Parts
  <1>2. CASE \E f \in Files : Edit(f)
    <2> PICK f \in Files : Edit(f)
      BY <1>2
    <2>1. edits[f] + 1 \in Versions
      BY <1>1, SiteAssumption DEF Edit, UserOK, Contents, Versions
    <2> QED
      BY <1>1, <2>1 DEF Edit, UserOK, Contents
  <1>3. CASE \E f \in Files : Delete(f)
    BY <1>1, <1>3 DEF Delete, UserOK
  <1>4. CASE UNCHANGED userVars
    BY <1>1, <1>4 DEF userVars, UserOK
  <1>5. CASE ProgramStep \/ Crash
    <2> UNCHANGED userVars
      BY <1>5 DEF ProgramStep, Crash, Unlink, Rename, Exit, Insert, Reinsert, Cleanup, 
         CancelUpdate, RemoveJob, JobRunning, FileJobEnded, ManifestJobDone, ManifestJobFailed,
         Look, PendingDone, Scan, MarkManifestFiles, UpToDate, GenIndexUri, GenSitemapUri, 
         QueueFile, FilesQueued, SubmitManifest, CheckQueue, Abort
    <2> QED
      BY <1>4
  <1>6. CASE \/ \E c \in Commands : Load(c)
             \/ \E n \in Names : JobDone(n) \/ JobFails(n)
             \/ SaveInterrupted
    BY <1>4, <1>6 DEF Load, JobDone, JobFails, SaveInterrupted
  <1> QED
    BY <1>2, <1>3, <1>5, <1>6 DEF Next

LEMMA DiskType ==
  ASSUME TypeOK, Next
  PROVE  DiskOK'
  <1>1. DiskOK /\ MemOK
    BY Parts
  <1>2. CASE Unlink
    BY <1>2, NoRecsType DEF Unlink, DiskOK
  <1>3. CASE Rename
    BY <1>1, <1>3, NoRecsType DEF Rename, DiskOK, MemOK, MemType
  <1>4. CASE UNCHANGED disk
    BY <1>1, <1>4 DEF DiskOK
  <1>5. ProgramStep => Unlink \/ Rename \/ UNCHANGED disk
    BY DEF ProgramStep, Exit, Insert, Reinsert, Cleanup, 
         CancelUpdate, RemoveJob, JobRunning, FileJobEnded, ManifestJobDone, ManifestJobFailed,
         Look, PendingDone, Scan, MarkManifestFiles, UpToDate, GenIndexUri, GenSitemapUri, 
         QueueFile, FilesQueued, SubmitManifest, CheckQueue, Abort
  <1>6. Next => ProgramStep \/ UNCHANGED disk
    BY DEF Next, SaveInterrupted, Crash, Load, JobDone, JobFails, Edit, Delete
  <1> QED
    BY <1>2, <1>3, <1>4, <1>5, <1>6

LEMMA HistType ==
  ASSUME TypeOK, Next
  PROVE  HistOK'
  <1>1. HistOK /\ mem.needToUpdate \in BOOLEAN
    BY Parts DEF MemOK, MemType
  <1>2. ProgramStep => HistOK'
    BY <1>1 DEF HistOK, ProgramStep, Unlink, Rename, Exit, Insert, Reinsert, Cleanup, 
         CancelUpdate, RemoveJob, JobRunning, FileJobEnded, ManifestJobDone, ManifestJobFailed,
         Look, PendingDone, Scan, MarkManifestFiles, UpToDate, GenIndexUri, GenSitemapUri, 
         QueueFile, FilesQueued, SubmitManifest, CheckQueue, Abort
  <1>3. Next => ProgramStep \/ HistOK'
    BY <1>1 DEF HistOK, Next, SaveInterrupted, Crash, Load, JobDone, JobFails, Edit, Delete
  <1> QED
    BY <1>2, <1>3

LEMMA ClearJobType ==
  ASSUME NodeOK, NEW n \in Names, ClearJob(n)
  PROVE  queue' \in [Names -> Statuses] /\ raw' \in Contents /\ manifest' \in Contents
  <1>1. 0 \in Versions
    BY SiteAssumption DEF Versions
  <1> QED
    BY <1>1, EmptyTypes DEF ClearJob, NodeOK, Statuses, Contents, NoFile

LEMMA NodeType ==
  ASSUME TypeOK, Next
  PROVE  NodeOK'
  <1>0. NoFile \in Versions
    BY SiteAssumption DEF NoFile, Versions
  <1>1. NodeOK /\ MemOK
    BY Parts
  <1>2. CASE UNCHANGED nodeVars
    BY <1>1, <1>2 DEF NodeOK, nodeVars
  <1>3. CASE Insert \/ Cleanup
    BY <1>1, <1>3 DEF NodeOK, Insert, Cleanup, LookAtQueue
  <1>11. CASE \E n \in Names : RemoveJob(n)
    BY <1>1, <1>11, ClearJobType DEF RemoveJob, NodeOK
  <1>4. CASE \E n \in Names : JobRunning(n)
    BY <1>1, <1>4 DEF JobRunning, Look, NodeOK
  <1>5. CASE \E f \in Files : FileJobEnded(f)
    BY <1>1, <1>5, ClearJobType DEF FileJobEnded, Look, NodeOK, Names
  <1>6. CASE ManifestJobDone \/ ManifestJobFailed
    BY <1>1, <1>6, ClearJobType DEF ManifestJobDone, ManifestJobFailed, Look, NodeOK, Names
  <1>7. CASE \E f \in Files : QueueFile(f)
    BY <1>1, <1>7, ContentType DEF QueueFile, NodeOK, Statuses, Contents, Names
  <1>8. CASE SubmitManifest
    <2>1. \A f \in Redirects : mem.files[f].uri \in Versions
      <3> SUFFICES ASSUME NEW f \in Redirects PROVE mem.files[f].uri \in Versions
        OBVIOUS
      <3>1. f \in Files /\ mem.files[f].uri # Failed
        BY <1>8 DEF SubmitManifest, CanMake, Redirects, Known
      <3> QED
        BY <3>1, MemFacts DEF FileRec
    <2>2. NoFile \in Versions /\ \A f \in Files : Content(f) \in Versions
      BY <1>0, ContentType
    <2>3. manifest' \in Contents
      BY <1>8, <2>1, <2>2 DEF SubmitManifest, Contents
    <2> QED
      BY <1>1, <1>8, <2>3 DEF SubmitManifest, NodeOK, Statuses
  <1>9. CASE \E n \in Names : JobDone(n) \/ JobFails(n)
    BY <1>1, <1>9 DEF JobDone, JobFails, NodeOK, Statuses
  <1>10. CASE \/ Unlink \/ Rename \/ Exit \/ Reinsert \/ PendingDone \/ Scan \/ MarkManifestFiles
              \/ UpToDate \/ FilesQueued \/ CheckQueue \/ Abort \/ Crash
              \/ CancelUpdate \/ GenIndexUri \/ GenSitemapUri \/ SaveInterrupted
              \/ (\E c \in Commands : Load(c)) \/ (\E f \in Files : Edit(f) \/ Delete(f))
    BY <1>2, <1>10 DEF Unlink, Rename, Exit, Reinsert, PendingDone, Scan,
       MarkManifestFiles, UpToDate,
       FilesQueued, CheckQueue, Abort, Crash, Load, Edit, Delete, CancelUpdate, 
       GenIndexUri, GenSitemapUri, SaveInterrupted
  <1> QED
    BY <1>2, <1>3, <1>4, <1>5, <1>6, <1>7, <1>8, <1>9, <1>10, <1>11
    DEF Next, ProgramStep

LEMMA MemStepType ==
  ASSUME TypeOK, Next
  PROVE  MemOK'
  <1>1. MemOK /\ DiskOK /\ NodeOK
    BY Parts
  <1>0. NoFile \in Versions
    BY SiteAssumption DEF NoFile, Versions
  <1>2. CASE UNCHANGED mem
    BY <1>1, <1>2 DEF MemOK
  <1>3. CASE \E c \in Commands : Load(c)
    BY <1>1, <1>3 DEF Load, MemOK, MemType, DiskOK
  <1>4. CASE Exit \/ Abort \/ Crash
    BY <1>4, UnmadeType DEF Exit, Abort, Crash, Forget, MemOK
  <1>5. CASE Reinsert
    <2>1. Mark(Known, "changed") \in [Files -> FileRec]
      BY MarkType
    <2> QED
      BY <1>1, <1>5, <2>1 DEF Reinsert, MemOK, MemType
  <1>6. CASE CancelUpdate
    <2>1. Mark({f \in Files : mem.files[f].state = "inserting"}, "waiting") \in [Files -> FileRec]
      BY MarkType
    <2> QED
      BY <1>1, <1>6, <2>1 DEF CancelUpdate, MemOK, MemType
  <1>7. CASE \E f \in Files : FileJobEnded(f)
    <2> PICK f \in Files : FileJobEnded(f)
      BY <1>7
    <2>1. Settled(mem.files[f], f) \in FileRec
      <3>1. raw[f] \in Versions
        BY <1>1 DEF NodeOK, Contents
      <3>2. (IF queue[f] = "done" THEN raw[f] ELSE Failed) \in Versions \cup {Failed}
        BY <3>1
      <3> QED
        BY <1>0, <3>2, MemFacts, RecUpdates DEF Settled
    <2> DEFINE r    == IF f \in Known THEN Settled(mem.files[f], f) ELSE mem.files[f]
               need == mem.needToUpdate \/ (f = Sitemap /\ queue[f] = "failed")
    <2>2. r \in FileRec /\ need \in BOOLEAN
      BY <2>1, MemFacts
    <2>3. mem' = [mem EXCEPT !.files[f] = r, !.needToUpdate = need]
      BY DEF FileJobEnded
    <2> HIDE DEF r, need
    <2> QED
      BY <1>1, <2>2, <2>3 DEF MemOK, MemType
  <1>8. CASE ManifestJobDone \/ ManifestJobFailed
    BY <1>1, <1>8 DEF ManifestJobDone, ManifestJobFailed, MemOK, MemType
  <1>9. CASE PendingDone
    <2>1. Mark({f \in Files : mem.files[f].state = "inserting"} \ queued, "waiting") 
            \in [Files -> FileRec]
      BY MarkType
    <2> DEFINE lost == {f \in Files : mem.files[f].state = "inserting"} \ queued
               inserting == \/ mem.insertingManifest
                            \/ \E f \in Known : Mark(lost, "waiting")[f].state # "idle"
    <2>2. mem' = [mem EXCEPT !.files = Mark(lost, "waiting"), 
                             !.needToUpdate = mem.needToUpdate \/ lost # {},
                             !.updateInProgress = mem.updateInProgress /\ inserting]
      BY <1>9 DEF PendingDone
    <2>3. inserting \in BOOLEAN /\ (mem.needToUpdate \/ lost # {}) \in BOOLEAN
      BY <1>1 DEF MemOK, MemType
    <2> HIDE DEF inserting
    <2> QED
      BY <1>1, <2>1, <2>2, <2>3, MemFacts DEF MemOK, MemType
  <1>10. CASE Scan
    <2> DEFINE Changing == {f \in Files : Content(f) # NoFile /\ Changed(f)}
               Removed == {f \in Known : Content(f) = NoFile}
               files == [f \in Files |-> 
                     IF f \in Removed THEN NoRec
                     ELSE IF f \in Changing 
                     THEN [mem.files[f] EXCEPT !.state = "changed", !.hash = Content(f)]
                     ELSE mem.files[f]]
    <2>1. files \in [Files -> FileRec]
      <3> SUFFICES ASSUME NEW f \in Files PROVE files[f] \in FileRec
        BY Zenon
      <3>1. /\ mem.files[f] \in FileRec
            /\ [mem.files[f] EXCEPT !.state = "changed", !.hash = Content(f)] \in FileRec
        BY MemFacts, ContentType, RecUpdates
      <3> QED
        BY <3>1, NoRecType
    <2>2. mem' = mem \/ mem' = [mem EXCEPT !.needToUpdate = TRUE, !.files = files]
      BY <1>10 DEF Scan
    <2> HIDE DEF files
    <2> QED
      BY <1>1, <2>1, <2>2 DEF MemOK, MemType
  <1>11. CASE MarkManifestFiles
    <2> DEFINE out   == Known \cap LeftOut(Scanned, Content(Index))
               large == out \ TakenBack(Scanned, Content(Index))
               moved == {f \in out : /\ mem.files[f].target = "manifest" 
                                     /\ mem.files[f].uri = NoFile}
               files == [f \in Files |-> 
                IF f \notin Known THEN NoRec
                ELSE [mem.files[f] EXCEPT 
                        !.target = IF f \in large THEN "separate" ELSE "manifest",
                        !.state = IF f \in moved THEN "changed" ELSE @]]
    <2>1. files \in [Files -> FileRec]
      <3> SUFFICES ASSUME NEW f \in Files PROVE files[f] \in FileRec
        BY Zenon
      <3>1. mem.files[f] \in FileRec
        BY MemFacts
      <3>2. \A t \in {"manifest", "separate"} : 
              /\ [mem.files[f] EXCEPT !.target = t, !.state = "changed"] \in FileRec
              /\ [mem.files[f] EXCEPT !.target = t, !.state = mem.files[f].state] \in FileRec
        BY <1>0, <3>1, RecUpdates
      <3> QED
        BY <3>2, NoRecType
    <2>2. mem' = [mem EXCEPT !.needToUpdate = mem.needToUpdate \/ moved # {}, !.files = files]
      BY <1>11 DEF MarkManifestFiles
    <2> HIDE DEF files, moved
    <2> QED
      BY <1>1, <2>1, <2>2 DEF MemOK, MemType
  <1>12. CASE \E f \in Files : QueueFile(f)
    <2> PICK f \in Files : QueueFile(f)
      BY <1>12
    <2>1. [mem.files[f] EXCEPT !.uri = Content(f), !.state = "inserting"] \in FileRec
      BY MemFacts, ContentType, RecUpdates
    <2>2. mem' = [mem EXCEPT !.files[f].uri = Content(f), !.files[f].state = "inserting"]
      BY DEF QueueFile
    <2>3. mem' = [mem EXCEPT !.files = [mem.files EXCEPT ![f] =
                    [mem.files[f] EXCEPT !.uri = Content(f), !.state = "inserting"]]]
      BY <1>1, <2>2, MemFacts DEF MemOK, MemType, FileRec
    <2> QED
      BY <1>1, <2>1, <2>3 DEF MemOK, MemType
  <1>13. CASE SubmitManifest
    <2>1. Mark(Redirects \cup Embedded, "idle") \in [Files -> FileRec]
      BY MarkType
    <2> QED
      BY <1>1, <1>13, <2>1 DEF SubmitManifest, MemOK, MemType
  <1>14. CASE \/ Unlink \/ Rename \/ Insert \/ Cleanup \/ (\E n \in Names : JobRunning(n))
              \/ UpToDate \/ GenIndexUri \/ FilesQueued \/ CheckQueue \/ SaveInterrupted
              \/ (\E n \in Names : JobDone(n) \/ JobFails(n) \/ RemoveJob(n))
              \/ (\E f \in Files : Edit(f) \/ Delete(f))
    BY <1>2, <1>14 DEF Unlink, Rename, Insert, Cleanup, JobRunning, UpToDate, GenIndexUri, 
       FilesQueued, CheckQueue, SaveInterrupted, Edit, Delete, JobDone, JobFails, RemoveJob,
       progVars
  <1>15. CASE GenSitemapUri
    <2> DEFINE files == [f \in Files |->
                 IF f = Sitemap /\ NeedsUri 
                 THEN [mem.files[f] EXCEPT !.uri = Content(f)] ELSE mem.files[f]]
    <2>1. files \in [Files -> FileRec]
      <3> SUFFICES ASSUME NEW f \in Files PROVE files[f] \in FileRec
        BY Zenon
      <3>1. mem.files[f] \in FileRec /\ [mem.files[f] EXCEPT !.uri = Content(f)] \in FileRec
        BY MemFacts, ContentType, RecUpdates
      <3> QED
        BY <3>1
    <2>2. mem' = [mem EXCEPT !.files = files]
      BY <1>15 DEF GenSitemapUri
    <2> HIDE DEF files
    <2> QED
      BY <1>1, <2>1, <2>2 DEF MemOK, MemType
  <1> QED
    BY <1>2, <1>3, <1>4, <1>5, <1>6, <1>7, <1>8, <1>9, <1>10, <1>11, <1>12, <1>13, <1>14, <1>15
    DEF Next, ProgramStep

LEMMA TypeStep == TypeOK /\ SaveInv /\ Next => TypeOK'
  BY ProgType, UserType, DiskType, HistType, NodeType, MemStepType, PartsNext

(***************************************************************************)
(* Saves, and the queue as others change it                                *)
(***************************************************************************)
LEMMA SaveStep == TypeOK /\ SaveInv /\ Next => SaveInv'
  <1> SUFFICES ASSUME TypeOK, SaveInv, Next PROVE SaveInv'
    OBVIOUS
  <1>1. CASE Insert \/ Cleanup
    BY <1>1 DEF SaveInv, Insert, Cleanup, LookAtQueue, Goto
  <1>2. CASE Unlink \/ Rename \/ Exit \/ Reinsert \/ CancelUpdate \/ Abort \/ Crash 
             \/ \E c \in Commands : Load(c)
    BY <1>2 DEF SaveInv, Unlink, Rename, Exit, Reinsert, CancelUpdate, Abort, Crash, Load,
       Goto, Save, Forget, SavePoints
  <1>3. CASE (\E n \in Names : JobRunning(n)) \/ \E f \in Files : FileJobEnded(f)
    BY <1>3 DEF SaveInv, JobRunning, FileJobEnded
  <1>4. CASE ManifestJobDone \/ ManifestJobFailed
    BY <1>4 DEF SaveInv, ManifestJobDone, ManifestJobFailed, Save, SavePoints
  <1>5. CASE PendingDone
    BY <1>5 DEF SaveInv, PendingDone, Save, SavePoints
  <1>6. CASE MarkManifestFiles
    BY <1>6 DEF SaveInv, MarkManifestFiles, Goto
  <1>7. CASE Scan \/ UpToDate \/ GenIndexUri \/ GenSitemapUri \/ FilesQueued \/ CheckQueue 
             \/ SubmitManifest \/ SaveInterrupted \/ \E f \in Files : QueueFile(f)
    BY <1>7 DEF SaveInv, Scan, UpToDate, GenIndexUri, GenSitemapUri, FilesQueued, CheckQueue, 
       SaveInterrupted, SubmitManifest, QueueFile, Goto, Save, SavePoints
  <1>8. CASE \/ \E n \in Names : JobDone(n) \/ JobFails(n) \/ RemoveJob(n)
             \/ \E f \in Files : Edit(f) \/ Delete(f)
    BY <1>8 DEF SaveInv, progVars, JobDone, JobFails, RemoveJob, Edit, Delete
  <1> QED
    BY <1>1, <1>2, <1>3, <1>4, <1>5, <1>6, <1>7, <1>8 DEF Next, ProgramStep

\* A save changes neither where the program is going nor what it holds.
LEMMA SaveSteps ==
  ASSUME SaveInv, Unlink \/ Rename
  PROVE  /\ \A p \in SavePoints \cup {"uptodate", "clear"} : At(p)' => At(p)
         /\ pc' # "off"
         /\ UNCHANGED <<mem, command, queue, interrupted>>
  BY DEF SaveInv, Unlink, Rename, At, Goto, SavePoints, nodeVars

LEMMA InterruptSteps ==
  ASSUME SaveInv, SaveInterrupted
  PROVE  /\ \A p \in SavePoints : At(p)' => At(p)
         /\ UNCHANGED <<mem, disk, queue>>
  BY DEF SaveInv, SaveInterrupted, At, Goto, SavePoints, nodeVars

\* The node does not forget a job by itself.
LEMMA NodeSteps ==
  ASSUME TypeOK, NEW n \in Names, JobDone(n) \/ JobFails(n)
  PROVE  /\ \A m \in Names : Busy(m)' <=> Busy(m)
         /\ UNCHANGED <<mem, command, pc, after, disk, interrupted>>
  BY DEF TypeOK, JobDone, JobFails, Busy, progVars

LEMMA UserSteps ==
  ASSUME NEW f \in Files, Edit(f) \/ Delete(f)
  PROVE  UNCHANGED <<queue, mem, command, pc, after, disk, interrupted>>
  BY DEF Edit, Delete, progVars, nodeVars

\* A removed job leaves the others where they are.
LEMMA RemoveSteps ==
  ASSUME TypeOK, NEW n \in Names, RemoveJob(n)
  PROVE  /\ \A m \in Names \ {n} : Busy(m)' <=> Busy(m)
         /\ UNCHANGED <<mem, command, pc, after, disk>>
  BY DEF TypeOK, RemoveJob, ClearJob, Busy, progVars

(***************************************************************************)
(* No identifier is used twice                                             *)
(***************************************************************************)
LEMMA FreeStep == SiteInv /\ Next => FreeInv'
  <1> SUFFICES ASSUME SiteInv, Next PROVE FreeInv'
    OBVIOUS
  <1>0. TypeOK /\ SaveInv /\ FreeInv
    BY DEF SiteInv
  <1>n. Manifest \in Names /\ Manifest \notin Files /\ Files \subseteq Names
    BY SiteAssumption DEF Names
  <1>1. CASE Unlink \/ Rename
    <2>1. At("loop")' => At("loop")
      BY <1>0, <1>1, SaveSteps DEF SavePoints
    <2>2. At("manifest")' => At("manifest")
      BY <1>0, <1>1, SaveSteps DEF SavePoints
    <2>3. At("sitemap")' => At("sitemap")
      BY <1>0, <1>1, SaveSteps DEF SavePoints
    <2>4. mem' = mem /\ queue' = queue
      BY <1>0, <1>1, SaveSteps
    <2> QED
      BY <1>0, <2>1, <2>2, <2>3, <2>4 DEF FreeInv, ToInsert, Busy, Cleared
  <1>2. CASE \E n \in Names : JobDone(n) \/ JobFails(n)
    BY <1>0, <1>2, <1>n, NodeSteps DEF FreeInv, ToInsert, At, Cleared
  <1>3. CASE \E f \in Files : Edit(f) \/ Delete(f)
    BY <1>0, <1>3, UserSteps DEF FreeInv, ToInsert, At, Busy, Cleared
  <1>4. CASE GenIndexUri
    BY <1>4, <1>n DEF GenIndexUri, FreeInv, Cleared, Save, Goto, At, Busy, nodeVars
  <1>11. CASE GenSitemapUri
    <2>1. \A n \in Names : ~Busy(n)'
      BY <1>0, <1>11 DEF GenSitemapUri, FreeInv, Cleared, At, Busy, nodeVars
    <2> QED
      BY <1>11, <1>n, <2>1 DEF GenSitemapUri, FreeInv, Cleared, ToInsert
  <1>12. CASE SaveInterrupted
    BY <1>0, <1>12, InterruptSteps DEF FreeInv, ToInsert, Busy, Cleared, SavePoints
  <1>13. CASE \E n \in Names : RemoveJob(n)
    <2>1. ~At("loop") /\ ~At("manifest") /\ ~At("sitemap")
      BY <1>13 DEF RemoveJob, Clearing, At
    <2>2. pc' = pc /\ after' = after
      BY <1>0, <1>13, RemoveSteps
    <2> QED
      BY <2>1, <2>2 DEF FreeInv, At
  <1>5. CASE \E f \in Files : QueueFile(f)
    <2> PICK f \in Files : QueueFile(f)
      BY <1>5
    <2>1. At("loop")
      BY DEF QueueFile, At
    <2>2. \A n \in Names \ {f} : Busy(n)' <=> Busy(n)
      BY <1>0 DEF TypeOK, QueueFile, Busy
    <2>3. ToInsert' \subseteq ToInsert \ {f}
      <3>1. \A g \in Files \ {f} : mem'.files[g] = mem.files[g]
        BY <1>0 DEF QueueFile, TypeOK
      <3>2. mem'.files[f].state = "inserting"
        BY <1>0, MemFacts DEF QueueFile, TypeOK, FileRec
      <3> QED
        BY <3>1, <3>2 DEF ToInsert
    <2>4. ToInsert \subseteq Files
      BY DEF ToInsert
    <2>5. ~At("sitemap")'
      BY DEF QueueFile, Save, Goto, At
    <2> QED
      BY <1>0, <1>n, <2>1, <2>2, <2>3, <2>4, <2>5 DEF FreeInv
  <1>6. CASE FilesQueued
    BY <1>0, <1>6 DEF FilesQueued, FreeInv, Save, At, Busy, ToInsert, nodeVars
  <1>7. CASE SubmitManifest \/ Exit \/ Abort \/ Crash \/ Reinsert \/ CancelUpdate 
             \/ Insert \/ Cleanup \/ UpToDate \/ CheckQueue \/ Scan
             \/ \E c \in Commands : Load(c)
    <2>1. ~At("loop")' /\ ~At("manifest")' /\ ~At("sitemap")'
      BY <1>7 DEF SubmitManifest, Exit, Abort, Crash, Forget, Reinsert, CancelUpdate, 
         Insert, Cleanup, LookAtQueue, UpToDate, CheckQueue, Scan, Load, Goto, Save, At
    <2> QED
      BY <2>1 DEF FreeInv
  <1>8. CASE MarkManifestFiles
    <2>1. ~At("loop")' /\ ~At("manifest")' /\ ~At("sitemap")'
      BY <1>8 DEF MarkManifestFiles, Goto, At
    <2> QED
      BY <2>1 DEF FreeInv
  <1>9. CASE PendingDone
    <2>1. ~At("loop")' /\ ~At("manifest")' /\ ~At("sitemap")'
      BY <1>9 DEF PendingDone, Save, At
    <2> QED
      BY <2>1 DEF FreeInv
  <1>10. CASE \/ (\E n \in Names : JobRunning(n)) \/ (\E f \in Files : FileJobEnded(f))
              \/ ManifestJobDone \/ ManifestJobFailed
    <2>1. ~At("loop")' /\ ~At("manifest")' /\ ~At("sitemap")'
      BY <1>10 DEF JobRunning, FileJobEnded, ManifestJobDone, ManifestJobFailed, Look, Save, At
    <2> QED
      BY <2>1 DEF FreeInv
  <1> QED
    BY <1>1, <1>2, <1>3, <1>4, <1>5, <1>6, <1>7, <1>8, <1>9, <1>10, <1>11, <1>12, <1>13
    DEF Next, ProgramStep

(***************************************************************************)
(* Memory, state file and queue agree on the manifest                      *)
(***************************************************************************)
\* What a program that is running knows, apart from what it has saved.
KnowsInv == /\ \A p \in {"begin", "pending", "scan", "mark"} : At(p) => Agree \/ Retrying
            /\ \A p \in {"uptodate", "check", "exit"} : At(p) => Agree
SavedInv == /\ pc = "off" => (disk.insertingManifest <=> Busy(Manifest))
            /\ pc \notin {"off", "unlink", "rename"} => 
                 disk.insertingManifest = mem.insertingManifest
FlagsInv == /\ mem.insertingManifest => mem.updateInProgress
            /\ disk.insertingManifest => disk.updateInProgress

LEMMA ResumeParts == 
  ResumeInv <=> FlagsInv /\ (~interrupted => SavedInv /\ KnowsInv)
  BY DEF ResumeInv, FlagsInv, SavedInv, KnowsInv

LEMMA ResumePartsNext == 
  ResumeInv' <=> FlagsInv' /\ (~interrupted' => SavedInv' /\ KnowsInv')
  BY DEF ResumeInv, FlagsInv, SavedInv, KnowsInv

LEMMA FlagsStep == SiteInv /\ Next => FlagsInv'
  <1> SUFFICES ASSUME SiteInv, Next PROVE FlagsInv'
    OBVIOUS
  <1>0. TypeOK /\ FlagsInv /\ mem \in MemType /\ DiskOK
    BY ResumeParts, MemFacts, Parts DEF SiteInv
  <1>1. CASE Unlink \/ Rename
    BY <1>0, <1>1 DEF Unlink, Rename, FlagsInv
  <1>2. CASE UNCHANGED <<mem, disk>>
    BY <1>0, <1>2 DEF FlagsInv
  <1>3. CASE Exit \/ Abort \/ Crash
    BY <1>0, <1>3, UnmadeType DEF Exit, Abort, Crash, Forget, FlagsInv
  <1>4. CASE \E c \in Commands : Load(c)
    BY <1>0, <1>4 DEF Load, FlagsInv
  <1>5. CASE CancelUpdate \/ SubmitManifest
    BY <1>0, <1>5 DEF CancelUpdate, SubmitManifest, FlagsInv, MemType
  <1>6. CASE \/ Reinsert \/ ManifestJobDone \/ ManifestJobFailed
             \/ \E f \in Files : QueueFile(f) \/ FileJobEnded(f)
    BY <1>0, <1>6 DEF Reinsert, ManifestJobDone, ManifestJobFailed, QueueFile, 
       FileJobEnded, Look, FlagsInv, MemType
  <1>7. CASE PendingDone
    BY <1>0, <1>7 DEF PendingDone, FlagsInv, MemType
  <1>8. CASE Scan \/ MarkManifestFiles
    <2>1. /\ mem'.updateInProgress = mem.updateInProgress 
          /\ mem'.insertingManifest = mem.insertingManifest
          /\ disk' = disk
      BY <1>0, <1>8 DEF Scan, MarkManifestFiles, MemType
    <2> QED
      BY <1>0, <2>1 DEF FlagsInv
  <1>9. CASE \/ Insert \/ Cleanup \/ (\E n \in Names : JobRunning(n))
             \/ UpToDate \/ GenIndexUri \/ FilesQueued \/ CheckQueue \/ SaveInterrupted
             \/ (\E n \in Names : JobDone(n) \/ JobFails(n) \/ RemoveJob(n))
             \/ (\E f \in Files : Edit(f) \/ Delete(f))
    BY <1>2, <1>9 DEF Insert, Cleanup, JobRunning, Look, UpToDate, GenIndexUri, 
       FilesQueued, CheckQueue, SaveInterrupted, Edit, Delete, JobDone, JobFails, RemoveJob,
       progVars
  <1>10. CASE GenSitemapUri
    <2>1. /\ mem'.updateInProgress = mem.updateInProgress 
          /\ mem'.insertingManifest = mem.insertingManifest
          /\ disk' = disk
      BY <1>0, <1>10 DEF GenSitemapUri, MemType
    <2> QED
      BY <1>0, <2>1 DEF FlagsInv
  <1> QED
    BY <1>1, <1>3, <1>4, <1>5, <1>6, <1>7, <1>8, <1>9, <1>10 DEF Next, ProgramStep

\* One step of an update nobody interrupts.
LEMMA AgreeStep ==
  ASSUME SiteInv, Next, ~interrupted, ~interrupted', SavedInv, KnowsInv
  PROVE  SavedInv' /\ KnowsInv'
  <1>0. TypeOK /\ SaveInv /\ FreeInv /\ FlagsInv /\ mem \in MemType
    BY ResumeParts, MemFacts DEF SiteInv
  <1>n. Manifest \in Names /\ Manifest \notin Files /\ Files \subseteq Names
    BY SiteAssumption DEF Names
  <1>1. CASE Unlink \/ Rename
    <2>1. KnowsInv'
      BY <1>0, <1>1, SaveSteps DEF KnowsInv, Agree, Retrying, Busy, SavePoints
    <2>2. SavedInv'
      BY <1>0, <1>1, SaveSteps DEF SavedInv, Unlink, Rename
    <2> QED
      BY <2>1, <2>2
  <1>2. CASE \E n \in Names : JobDone(n) \/ JobFails(n)
    BY <1>0, <1>n, <1>2, NodeSteps DEF KnowsInv, SavedInv, Agree, Retrying, At
  <1>3. CASE \E f \in Files : Edit(f) \/ Delete(f)
    BY <1>3, UserSteps DEF KnowsInv, SavedInv, Agree, Retrying, At, Busy
  <1>4. CASE \E c \in Commands : Load(c)
    BY <1>4 DEF Load, Save, SavedInv, KnowsInv, At, Agree, Busy, nodeVars
  <1>5. CASE Exit
    BY <1>5 DEF Exit, Forget, SavedInv, KnowsInv, At, Agree, Busy, nodeVars
  <1>6. CASE Abort \/ Crash \/ CancelUpdate \/ SaveInterrupted
    BY <1>6 DEF Abort, Crash, CancelUpdate, SaveInterrupted
  <1>7. CASE Insert
    BY <1>7 DEF Insert, LookAtQueue, Goto, SavedInv, KnowsInv, At, Agree, Retrying, Busy
  <1>8. CASE Reinsert
    <2>1. Agree
      BY <1>8 DEF Reinsert, KnowsInv, At, Retrying
    <2>2. Agree'
      BY <1>0, <1>8, <2>1 DEF Reinsert, Agree, Busy, nodeVars, MemType
    <2> QED
      BY <1>8, <2>2 DEF Reinsert, Save, SavedInv, KnowsInv, At
  <1>9. CASE Cleanup
    <2>1. CASE mem.updateInProgress
      BY <1>9, <2>1 DEF Cleanup, LookAtQueue, Goto, SavedInv, KnowsInv, At, Agree, Retrying, 
         Busy
    <2>2. CASE ~mem.updateInProgress
      <3>1. Agree'
        BY <1>9, <2>2 DEF Cleanup, KnowsInv, At, Agree, Retrying, Busy
      <3> QED
        BY <1>9, <2>2, <3>1 DEF Cleanup, Goto, SavedInv, KnowsInv, At
    <2> QED
      BY <2>1, <2>2
  <1>10. CASE \E n \in Names : JobRunning(n)
    BY <1>10 DEF JobRunning, Look, SavedInv, KnowsInv, At, Agree, Retrying, Busy
  <1>11. CASE \E f \in Files : FileJobEnded(f)
    <2> PICK f \in Files : FileJobEnded(f)
      BY <1>11
    <2>1. Busy(Manifest)' <=> Busy(Manifest)
      BY <1>0, <1>n DEF FileJobEnded, ClearJob, Busy, TypeOK
    <2>2. /\ mem'.insertingManifest = mem.insertingManifest
          /\ mem.needToUpdate => mem'.needToUpdate
      BY <1>0 DEF FileJobEnded, MemType
    <2> QED
      BY <2>1, <2>2 DEF FileJobEnded, Look, SavedInv, KnowsInv, At, Agree, Retrying
  <1>12. CASE ManifestJobDone
    <2>1. ~Busy(Manifest)' /\ ~mem'.insertingManifest
      BY <1>0, <1>n, <1>12 DEF ManifestJobDone, ClearJob, Busy, TypeOK
    <2> QED
      BY <1>12, <2>1 DEF ManifestJobDone, Save, SavedInv, KnowsInv, At, Agree
  <1>13. CASE ManifestJobFailed
    <2>1. Retrying' /\ mem'.insertingManifest = mem.insertingManifest
      BY <1>0, <1>13 DEF ManifestJobFailed, Look, Retrying, MemType
    <2> QED
      BY <1>13, <2>1 DEF ManifestJobFailed, Look, SavedInv, KnowsInv, At
  <1>14. CASE PendingDone
    <2>1. Agree \/ Retrying
      BY <1>14 DEF PendingDone, KnowsInv, At
    <2>2. /\ mem'.insertingManifest = mem.insertingManifest
          /\ mem.needToUpdate => mem'.needToUpdate
          /\ UNCHANGED <<queue, command>>
      BY <1>0, <1>14 DEF PendingDone, MemType, nodeVars
    <2>3. pc' = "unlink" /\ \/ after' = "scan"
                            \/ after' = "exit" /\ ~Retrying
      BY <1>14 DEF PendingDone, Save, Retrying
    <2> QED
      BY <2>1, <2>2, <2>3 DEF SavedInv, KnowsInv, At, Agree, Retrying, Busy
  <1>15. CASE Scan
    <2>1. /\ mem'.insertingManifest = mem.insertingManifest
          /\ mem.needToUpdate => mem'.needToUpdate
          /\ UNCHANGED <<queue, command, disk>>
      BY <1>0, <1>15 DEF Scan, MemType, nodeVars
    <2>2. pc = "scan" /\ At("mark")' /\ (pc' = "unlink" \/ (pc' = "mark" /\ mem' = mem))
            /\ \A p \in {"begin", "pending", "scan", "uptodate", "check", "exit"} : ~At(p)'
      BY <1>15 DEF Scan, Goto, Save, At
    <2> QED
      BY <2>1, <2>2 DEF SavedInv, KnowsInv, At, Agree, Retrying, Busy
  <1>16. CASE MarkManifestFiles
    <2>1. /\ mem'.insertingManifest = mem.insertingManifest
          /\ mem.needToUpdate => mem'.needToUpdate
          /\ UNCHANGED <<queue, command, disk>>
      BY <1>0, <1>16 DEF MarkManifestFiles, MemType, nodeVars
    <2>2. pc = "mark" /\ \/ pc' = "uptodate" /\ ~mem'.needToUpdate
                         \/ pc' = "clear"
      BY <1>16 DEF MarkManifestFiles, Goto
    <2> QED
      BY <2>1, <2>2 DEF SavedInv, KnowsInv, At, Agree, Retrying, Busy
  <1>17. CASE UpToDate \/ CheckQueue
    BY <1>17 DEF UpToDate, CheckQueue, Goto, Save, SavedInv, KnowsInv, At, Agree, Busy, 
       nodeVars
  <1>18. CASE GenIndexUri \/ FilesQueued
    BY <1>18 DEF GenIndexUri, FilesQueued, Goto, Save, SavedInv, KnowsInv, At
  <1>19. CASE \E f \in Files : QueueFile(f)
    <2>1. mem'.insertingManifest = mem.insertingManifest
      BY <1>0, <1>19 DEF QueueFile, MemType
    <2> QED
      BY <1>19, <2>1 DEF QueueFile, Goto, Save, SavedInv, KnowsInv, At
  <1>20. CASE SubmitManifest
    <2>1. Busy(Manifest)' /\ mem'.insertingManifest
      BY <1>0, <1>n, <1>20 DEF SubmitManifest, Busy, TypeOK
    <2> QED
      BY <1>20, <2>1 DEF SubmitManifest, Save, SavedInv, KnowsInv, At, Agree
  <1>21. CASE \E n \in Names : RemoveJob(n)
    <2> PICK n \in Names : RemoveJob(n)
      BY <1>21
    <2>1. pc = "clear" \/ (pc = "begin" /\ command = "cleanup" /\ ~mem.updateInProgress)
      BY <1>0 DEF RemoveJob, Clearing
    <2>2. UNCHANGED <<mem, command, pc, after, disk>>
      BY <1>0, RemoveSteps
    <2>3. pc = "begin" => Agree'
      <3> SUFFICES ASSUME pc = "begin" PROVE Agree'
        OBVIOUS
      <3>1. Agree /\ ~mem.insertingManifest
        BY <1>0, <2>1 DEF KnowsInv, At, Retrying, FlagsInv
      <3>2. n # Manifest
        BY <3>1 DEF Agree, RemoveJob
      <3> QED
        BY <1>0, <1>n, <2>2, <3>1, <3>2, RemoveSteps DEF Agree
    <2> QED
      BY <2>1, <2>2, <2>3 DEF SavedInv, KnowsInv, At
  <1>22. CASE GenSitemapUri
    <2>1. mem'.insertingManifest = mem.insertingManifest
      BY <1>0, <1>22 DEF GenSitemapUri, MemType
    <2> QED
      BY <1>22, <2>1 DEF GenSitemapUri, Goto, SavedInv, KnowsInv, At
  <1> QED
    BY <1>1, <1>2, <1>3, <1>4, <1>5, <1>6, <1>7, <1>8, <1>9, <1>10, <1>11, <1>12, <1>13,
       <1>14, <1>15, <1>16, <1>17, <1>18, <1>19, <1>20, <1>21, <1>22 DEF Next, ProgramStep

\* What was interrupted stays so.
LEMMA HistoryStep == 
  ASSUME TypeOK, Next, interrupted
  PROVE  interrupted'
  BY DEF Next, ProgramStep, Unlink, Rename, Exit, Insert, Reinsert, Cleanup, 
     CancelUpdate, RemoveJob, JobRunning, FileJobEnded, ManifestJobDone, ManifestJobFailed, 
     Look, PendingDone, Scan, MarkManifestFiles, UpToDate, GenIndexUri, GenSitemapUri, 
     QueueFile, FilesQueued, SubmitManifest, CheckQueue, Abort, SaveInterrupted, Crash, Load, JobDone, JobFails, 
     Edit, Delete

LEMMA ResumeStep == SiteInv /\ Next => ResumeInv'
  <1> SUFFICES ASSUME SiteInv, Next PROVE ResumeInv'
    OBVIOUS
  <1>1. FlagsInv'
    BY FlagsStep
  <1>2. TypeOK /\ TypeOK' /\ (~interrupted => SavedInv /\ KnowsInv)
    BY ResumeParts, TypeStep DEF SiteInv
  <1>3. ASSUME ~interrupted' PROVE SavedInv' /\ KnowsInv'
    <2>1. ~interrupted
      BY <1>2, <1>3, HistoryStep
    <2> QED
      BY <1>2, <1>3, <2>1, AgreeStep
  <1> QED
    BY <1>1, <1>3, ResumePartsNext

(***************************************************************************)
(* The theorems                                                            *)
(***************************************************************************)
LEMMA StutterStep == SiteInv /\ UNCHANGED vars => SiteInv'
  BY DEF SiteInv, TypeOK, SaveInv, FreeInv, ResumeInv, At, Agree, Retrying, Busy, Cleared, 
     ToInsert, vars, userVars, progVars, nodeVars

\* Every state the site, its state file and the node's queue can get into
\* satisfies the inductive invariant.
THEOREM SiteInvariance == Spec => []SiteInv
  <1>1. SiteInv /\ [Next]_vars => SiteInv'
    BY TypeStep, SaveStep, FreeStep, ResumeStep, StutterStep DEF SiteInv
  <1> QED
    BY InitInv, <1>1, PTL DEF Spec

\* The fields of SiteState and of its state file keep their types: no URI but a
\* CHK or an exception, no state of a file that save() has no word for.
THEOREM SiteTypeCorrect == Spec => []TypeOK
  <1>1. SiteInv => TypeOK
    BY DEF SiteInv
  <1> QED
    BY SiteInvariance, <1>1, PTL

\* Whatever was cancelled, killed or left running before, insert() finds the
\* identifiers it is about to use free on the node's queue.
THEOREM IdentifiersFree == Spec => []NoCollision
  <1>1. SiteInv => NoCollision
    BY DEF SiteInv, FreeInv, NoCollision, At
  <1> QED
    BY SiteInvariance, <1>1, PTL

\* If nothing was interrupted, the state file tells the next run whether a
\* manifest is on the queue.
THEOREM ResumeCorrect == Spec => []ResumeFindsManifest
  <1>1. SiteInv => ResumeFindsManifest
    BY DEF SiteInv, ResumeInv, ResumeFindsManifest
  <1> QED
    BY SiteInvariance, <1>1, PTL
================================================================================

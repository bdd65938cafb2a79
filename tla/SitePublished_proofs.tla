------------------------- MODULE SitePublished_proofs -------------------------
(***************************************************************************)
(* What a site shows: a manifest names every file (ManifestComplete), and  *)
(* "No update required" is said of what has been published                 *)
(* (UpToDateIsPublished), as long as no file that has a CHK is taken back  *)
(* into the manifest.                                                      *)
(*                                                                         *)
(* The invariants follow an update that nobody interrupts: what the        *)
(* records say of the directory (Sound), of the queue (Matched) and of the *)
(* last manifest (Shown), in memory and in the state file, each from the   *)
(* point on where the program relies on it.                                *)
(***************************************************************************)
EXTENDS SiteInsert_proofs

(***************************************************************************)
(* A manifest names every file                                             *)
(***************************************************************************)
\* No file waits, and a separate file without a CHK is marked as changed.
Marked == \A f \in Known : 
            /\ mem.files[f].state # "waiting"
            /\ mem.files[f].target = "separate" /\ mem.files[f].uri = NoFile
                 => mem.files[f].state = "changed"

\* From the scan to the manifest files are marked; none is left when it is made.
UriInv == /\ At("mark") \/ At("clear") \/ At("sitemap") \/ At("loop") \/ At("manifest")
                => Marked
          /\ At("manifest") => ToInsert = {}

\* What the scan leaves.
LEMMA ScanMarks ==
  ASSUME TypeOK, Scan
  PROVE  Marked'
  <1> SUFFICES ASSUME NEW f \in Files, mem'.files[f].state # "unknown"
               PROVE  /\ mem'.files[f].state # "waiting"
                      /\ mem'.files[f].target = "separate" /\ mem'.files[f].uri = NoFile
                           => mem'.files[f].state = "changed"
    BY DEF Marked, Known
  <1> DEFINE Changing == {g \in Files : Content(g) # NoFile /\ Changed(g)}
             Removed == {g \in Known : Content(g) = NoFile}
             files == [g \in Files |-> 
                     IF g \in Removed THEN NoRec
                     ELSE IF g \in Changing 
                     THEN [mem.files[g] EXCEPT !.state = "changed", !.hash = Content(g)]
                     ELSE mem.files[g]]
  <1>0. mem \in MemType /\ mem.files[f] \in FileRec
    BY MemFacts
  <1>1. \/ Changing \cup Removed # {} /\ mem'.files = files
        \/ Changing \cup Removed = {} /\ mem' = mem
    BY <1>0 DEF Scan, MemType
  <1>2. f \notin Removed
    <2> SUFFICES ASSUME f \in Removed PROVE FALSE
      OBVIOUS
    <2>1. mem'.files = files
      BY <1>1
    <2>2. mem'.files[f] = NoRec
      BY <2>1, Zenon
    <2> QED
      BY <2>2 DEF NoRec
  <1>3. CASE f \in Changing
    <2>1. mem'.files[f] = [mem.files[f] EXCEPT !.state = "changed", !.hash = Content(f)]
      BY <1>1, <1>2, <1>3
    <2> QED
      BY <1>0, <2>1 DEF FileRec
  <1>4. CASE f \notin Changing
    <2>1. mem'.files[f] = mem.files[f]
      BY <1>1, <1>2, <1>4
    <2>2. f \in Known /\ Content(f) # NoFile
      BY <1>2, <2>1 DEF Known
    <2>3. ~Changed(f)
      BY <1>4, <2>2
    <2> QED
      BY <2>1, <2>3 DEF Changed
  <1> QED
    BY <1>3, <1>4

\* What markManifestFiles does to a record.
LEMMA MarkedRecord ==
  ASSUME TypeOK, MarkManifestFiles, NEW f \in Files
  PROVE  /\ f \notin Known => mem'.files[f] = NoRec
         /\ f \in Known => 
              /\ mem'.files[f].uri = mem.files[f].uri
              /\ mem'.files[f].hash = mem.files[f].hash
              /\ mem'.files[f].target \in {"manifest", "separate"}
              /\ \/ mem'.files[f].state = mem.files[f].state
                 \/ mem'.files[f].state = "changed"
              /\ mem'.files[f].target = "separate" =>
                   \/ mem.files[f].target = "separate" 
                   \/ mem.files[f].uri = NoFile => mem'.files[f].state = "changed"
  <1> DEFINE out   == Known \cap LeftOut(Scanned, Content(Index))
             large == out \ TakenBack(Scanned, Content(Index))
             moved == {g \in out : /\ mem.files[g].target = "manifest" 
                                   /\ mem.files[g].uri = NoFile}
             files == [g \in Files |-> 
                IF g \notin Known THEN NoRec
                ELSE [mem.files[g] EXCEPT 
                        !.target = IF g \in large THEN "separate" ELSE "manifest",
                        !.state = IF g \in moved THEN "changed" ELSE @]]
  <1>0. mem \in MemType /\ mem.files[f] \in FileRec
    BY MemFacts
  <1>1. mem'.files = files
    BY <1>0 DEF MarkManifestFiles, MemType
  <1>2. CASE f \notin Known
    BY <1>1, <1>2
  <1>3. CASE f \in Known
    <2> DEFINE t == IF f \in large THEN "separate" ELSE "manifest"
               s == IF f \in moved THEN "changed" ELSE mem.files[f].state
    <2>1. mem'.files[f] = [mem.files[f] EXCEPT !.target = t, !.state = s]
      BY <1>1, <1>3
    <2>2. f \in large /\ mem.files[f].target # "separate" /\ mem.files[f].uri = NoFile 
            => f \in moved
      BY <1>0 DEF FileRec
    <2> HIDE DEF large, moved
    <2>3. /\ mem'.files[f].target = t /\ mem'.files[f].state = s
          /\ mem'.files[f].uri = mem.files[f].uri
          /\ mem'.files[f].hash = mem.files[f].hash
      BY <1>0, <2>1 DEF FileRec
    <2> QED
      BY <1>3, <2>2, <2>3
  <1> QED
    BY <1>2, <1>3

LEMMA UriStep == SiteInv /\ UriInv /\ Next => UriInv'
  <1> SUFFICES ASSUME SiteInv, UriInv, Next PROVE UriInv'
    OBVIOUS
  <1>0. TypeOK /\ SaveInv /\ mem \in MemType
    BY MemFacts DEF SiteInv
  <1>s. ASSUME UNCHANGED mem PROVE Marked' <=> Marked
    BY <1>s DEF Marked, Known
  <1>t. ASSUME UNCHANGED mem PROVE ToInsert' = ToInsert
    BY <1>t DEF ToInsert
  <1>1. CASE Unlink \/ Rename
    <2>1. /\ At("mark")' => At("mark")
          /\ At("clear")' => At("clear") 
          /\ At("sitemap")' => At("sitemap") 
          /\ At("loop")' => At("loop")
          /\ At("manifest")' => At("manifest")
          /\ mem' = mem
      BY <1>0, <1>1, SaveSteps DEF SavePoints
    <2>2. (Marked' <=> Marked) /\ ToInsert' = ToInsert
      BY <1>s, <1>t, <2>1
    <2> QED
      BY <2>1, <2>2 DEF UriInv
  <1>2. CASE \/ \E n \in Names : JobDone(n) \/ JobFails(n) \/ RemoveJob(n)
             \/ \E f \in Files : Edit(f) \/ Delete(f)
    <2>1. mem' = mem /\ pc' = pc /\ after' = after
      BY <1>0, <1>2, NodeSteps, UserSteps, RemoveSteps
    <2> QED
      BY <1>s, <1>t, <2>1 DEF At, UriInv
  <1>3. CASE Scan
    <2>1. ~At("manifest")'
      BY <1>3 DEF Scan, Goto, Save, At
    <2> QED
      BY <1>0, <1>3, <2>1, ScanMarks DEF UriInv
  <1>4. CASE MarkManifestFiles
    <2>1. Marked /\ ~At("manifest")'
      BY <1>4 DEF MarkManifestFiles, Goto, At, UriInv
    <2>2. ASSUME NEW f \in Known'
          PROVE  /\ mem'.files[f].state # "waiting"
                 /\ mem'.files[f].target = "separate" /\ mem'.files[f].uri = NoFile
                      => mem'.files[f].state = "changed"
      <3>1. f \in Files /\ mem'.files[f].state # "unknown"
        BY <2>2 DEF Known
      <3>2. f \in Known
        BY <1>0, <1>4, <3>1, MarkedRecord DEF NoRec
      <3>3. /\ mem.files[f].state # "waiting"
            /\ mem.files[f].target = "separate" /\ mem.files[f].uri = NoFile
                 => mem.files[f].state = "changed"
        BY <2>1, <3>2 DEF Marked
      <3> QED
        BY <1>0, <1>4, <3>1, <3>2, <3>3, MarkedRecord
    <2>3. Marked'
      BY <2>2 DEF Marked
    <2> QED
      BY <2>1, <2>3 DEF UriInv
  <1>5. CASE GenIndexUri
    <2>1. Marked /\ mem' = mem /\ ~At("manifest")'
      BY <1>5 DEF GenIndexUri, Goto, Save, At, UriInv
    <2> QED
      BY <1>s, <2>1 DEF UriInv
  <1>10. CASE GenSitemapUri
    <2>1. Marked /\ ~At("manifest")'
      BY <1>10 DEF GenSitemapUri, Goto, At, UriInv
    <2>2. ASSUME NEW f \in Known'
          PROVE  /\ mem'.files[f].state # "waiting"
                 /\ mem'.files[f].target = "separate" /\ mem'.files[f].uri = NoFile
                      => mem'.files[f].state = "changed"
      <3>1. f \in Files /\ mem'.files[f].state # "unknown" /\ mem.files[f] \in FileRec
        BY <2>2, <1>0, MemFacts DEF Known
      <3>2. \/ mem'.files[f] = mem.files[f]
            \/ NeedsUri /\ mem'.files[f] = [mem.files[f] EXCEPT !.uri = Content(f)]
        BY <1>0, <1>10, <3>1 DEF GenSitemapUri, MemType
      <3>3. /\ mem'.files[f].state = mem.files[f].state 
            /\ mem'.files[f].target = mem.files[f].target
            /\ mem'.files[f].uri = NoFile => mem.files[f].uri = NoFile
        <4>1. CASE mem'.files[f] = mem.files[f]
          BY <4>1
        <4>2. CASE mem'.files[f] # mem.files[f]
          <5>1. f = Sitemap /\ NeedsUri
            BY <1>0, <1>10, <3>1, <4>2 DEF GenSitemapUri, MemType
          <5>2. mem.files[f].uri = NoFile
            BY <5>1 DEF NeedsUri
          <5> QED
            BY <3>1, <3>2, <4>2, <5>2 DEF FileRec
        <4> QED
          BY <4>1, <4>2
      <3> QED
        BY <2>1, <3>1, <3>3 DEF Marked, Known
    <2>3. Marked'
      BY <2>2 DEF Marked
    <2> QED
      BY <2>1, <2>3 DEF UriInv
  <1>11. CASE SaveInterrupted
    <2>1. /\ \A p \in {"mark", "sitemap", "loop", "manifest"} : At(p)' => At(p)
          /\ mem' = mem /\ ~At("clear")'
      BY <1>0, <1>11, InterruptSteps DEF SaveInterrupted, SaveInv, Goto, At, SavePoints
    <2>2. (Marked' <=> Marked) /\ ToInsert' = ToInsert
      BY <1>s, <1>t, <2>1
    <2> QED
      BY <2>1, <2>2 DEF UriInv
  <1>6. CASE \E f \in Files : QueueFile(f)
    <2> PICK f \in Files : QueueFile(f)
      BY <1>6
    <2>1. Marked /\ ~At("manifest")'
      BY DEF QueueFile, Goto, Save, At, UriInv
    <2>2. \A g \in Files \ {f} : mem'.files[g] = mem.files[g]
      BY <1>0 DEF QueueFile, MemType
    <2>3. mem'.files[f].state = "inserting" /\ mem'.files[f].uri # NoFile
      BY <1>0, MemFacts DEF QueueFile, MemType, FileRec
    <2>4. Marked'
      BY <2>1, <2>2, <2>3 DEF Marked, Known
    <2> QED
      BY <2>1, <2>4 DEF UriInv
  <1>7. CASE FilesQueued
    <2>1. Marked /\ mem' = mem /\ ToInsert = {}
      BY <1>7 DEF FilesQueued, At, UriInv
    <2> QED
      BY <1>s, <1>t, <2>1 DEF UriInv
  <1>8. CASE \/ Exit \/ Insert \/ Reinsert \/ Cleanup \/ CancelUpdate \/ UpToDate
             \/ SubmitManifest \/ CheckQueue \/ Abort \/ Crash 
             \/ \E c \in Commands : Load(c)
    <2>1. ~At("mark")' /\ ~At("clear")' /\ ~At("sitemap")' /\ ~At("loop")' /\ ~At("manifest")'
      BY <1>8 DEF Exit, Insert, LookAtQueue, Reinsert, Cleanup, CancelUpdate, UpToDate, 
         SubmitManifest, CheckQueue, Abort, Crash, Load, Forget, Goto, Save, At
    <2> QED
      BY <2>1 DEF UriInv
  <1>9. CASE \/ PendingDone \/ ManifestJobDone \/ ManifestJobFailed
             \/ (\E n \in Names : JobRunning(n)) \/ (\E f \in Files : FileJobEnded(f))
    <2>1. ~At("mark")' /\ ~At("clear")' /\ ~At("sitemap")' /\ ~At("loop")' /\ ~At("manifest")'
      BY <1>9 DEF PendingDone, ManifestJobDone, ManifestJobFailed, JobRunning, FileJobEnded,
         Look, Save, At
    <2> QED
      BY <2>1 DEF UriInv
  <1> QED
    BY <1>1, <1>2, <1>3, <1>4, <1>5, <1>6, <1>7, <1>8, <1>9, <1>10, <1>11 DEF Next, ProgramStep

LEMMA UriInvariance == Spec => []UriInv
  <1>1. Init => UriInv
    BY DEF Init, UriInv, At
  <1>2. SiteInv /\ UriInv /\ [Next]_vars => UriInv'
    <2>1. UriInv /\ UNCHANGED vars => UriInv'
      BY DEF UriInv, Marked, vars, progVars, At, Known, ToInsert
    <2> QED
      BY <2>1, UriStep
  <1> QED
    BY <1>1, <1>2, SiteInvariance, PTL DEF Spec

\* makeManifest leaves out a separate file without an URI; there is none: when the
\* manifest is submitted, it names every file that has a record.
THEOREM EveryFileNamed == Spec => ManifestComplete
  <1>1. SiteInv /\ UriInv /\ Next /\ pc = "manifest" /\ pc' = "unlink" =>
          \A f \in Known : manifest'[f] # NoFile
    <2> SUFFICES ASSUME SiteInv, UriInv, Next, pc = "manifest", pc' = "unlink",
                        NEW f \in Known
                 PROVE  manifest'[f] # NoFile
      OBVIOUS
    <2>1. SubmitManifest
      BY DEF Next, ProgramStep, Unlink, Rename, Exit, Insert, Reinsert, Cleanup, 
         CancelUpdate, RemoveJob, JobRunning, FileJobEnded, ManifestJobDone, 
         ManifestJobFailed, Look, PendingDone, Scan, MarkManifestFiles, UpToDate, GenIndexUri, 
         GenSitemapUri, QueueFile, FilesQueued, CheckQueue, Abort, SaveInterrupted, Crash, 
         Forget, Load, JobDone, JobFails, Edit, Delete, Goto, Save, progVars
    <2>2. Marked /\ ToInsert = {}
      BY DEF At, UriInv
    <2>3. f \in Files /\ mem.files[f] \in FileRec
      BY MemFacts DEF Known, SiteInv
    <2>4. CASE mem.files[f].target = "separate"
      <3>1. mem.files[f].uri # NoFile
        BY <2>2, <2>3, <2>4 DEF Marked, ToInsert
      <3> QED
        BY <2>1, <2>3, <2>4, <3>1 DEF SubmitManifest, Redirects
    <2>5. CASE mem.files[f].target = "manifest"
      <3>1. f \in Embedded /\ f \notin Redirects /\ Content(f) # NoFile
        BY <2>1, <2>5 DEF SubmitManifest, CanMake, Embedded, Redirects
      <3> QED
        BY <2>1, <2>3, <3>1 DEF SubmitManifest
    <2> QED
      BY <2>3, <2>4, <2>5 DEF FileRec
  <1>2. SiteInv /\ UriInv /\ [Next]_vars => 
          [pc = "manifest" /\ pc' = "unlink" => \A f \in Known : manifest'[f] # NoFile]_vars
    BY <1>1
  <1> QED
    BY <1>2, SiteInvariance, UriInvariance, PTL DEF Spec, ManifestComplete

(***************************************************************************)
(* The last manifest shows what was scanned                                *)
(***************************************************************************)
\* No file that has a CHK is taken into the manifest.
StaysOut == \A f \in Known \cap Pages : /\ mem.files[f].target = "separate" 
                             /\ mem.files[f].uri # NoFile
                             => mem'.files[f].target # "manifest"

\* The manifest that is on its way, or else the one inserted last.
Last == IF Busy(Manifest) THEN manifest ELSE site

\* The directory does not hold the content any more that was scanned, and will
\* not hold it again.
Past(r, f) == r.hash # Content(f)

\* A record is that of a file that was scanned: its CHK is the one of the
\* content scanned, of one that came after it, or an exception, unless it is to
\* be inserted again; and a file in the manifest has none.
Sound(r, f) ==
  IF r.state = "unknown" THEN r = NoRec
  ELSE /\ r.hash # NoFile /\ r.hash <= edits[f]
       /\ r.target = "manifest" => r.uri = NoFile
       /\ r.state \in {"inserting", "idle"} => 
            r.uri \in {NoFile, Failed, r.hash} \/ Past(r, f)

\* A job on the queue is the one whose CHK is in the record.
Matched(r, f) ==
  Busy(f) /\ r.state # "unknown" => 
    /\ r.target = "separate" /\ r.uri = raw[f] /\ raw[f] # NoFile
    /\ raw[f] = r.hash \/ Past(r, f)

Shown(r, f) == Last[f] = r.hash \/ (r.state # "unknown" /\ Past(r, f))

AllSound(F)   == \A f \in Pages : Sound(F[f], f)
AllMatched(F) == \A f \in Pages : Matched(F[f], f)
AllShown(F)   == \A f \in Pages : Shown(F[f], f)

Saving(p) == pc \in {"unlink", "rename"} /\ after = p
SavedFit  == disk.status = "readable" => 
               AllSound(disk.files) /\ AllMatched(disk.files) /\ AllShown(disk.files)

\* "No update required" may be said.
Exact == ~mem.insertingManifest /\ \A f \in Pages : Last[f] = mem.files[f].hash

SoundInv == pc # "off" => AllSound(mem.files)
Matching == \/ At("begin") \/ At("pending") \/ At("scan") \/ At("loop") \/ At("manifest")
            \/ At("check") \/ Saving("exit")
MatchInv == Matching => AllMatched(mem.files)
Showing  == At("begin") \/ At("pending") \/ At("scan")
Settling == At("check") \/ Saving("exit")
ShownInv == /\ Showing => AllShown(mem.files) \/ Retrying
            /\ Settling => AllShown(mem.files)
DiskInv  == /\ pc \in {"begin", "pending", "scan"} => SavedFit \/ Retrying
            /\ pc = "mark" => SavedFit \/ mem.needToUpdate
            /\ pc \in {"uptodate", "check", "exit", "off"} => SavedFit
ExactInv == /\ Saving("mark") => mem.needToUpdate
            /\ At("scan") => ~mem.insertingManifest \/ mem.needToUpdate
            /\ At("mark") => Exact \/ mem.needToUpdate
            /\ pc = "uptodate" => Exact
DoneInv  == queue[Manifest] = "done" => site = manifest

PubInv == DoneInv /\ (~interrupted => SoundInv /\ MatchInv /\ ShownInv /\ DiskInv /\ ExactInv)

(***************************************************************************)
(* What steps do to the records                                            *)
(***************************************************************************)
LEMMA Values == 
  ASSUME TypeOK, NEW f \in Files
  PROVE  /\ mem.files[f] \in FileRec /\ mem.files[f].hash \in Nat
         /\ edits[f] \in Nat /\ Content(f) \in {NoFile, edits[f]}
         /\ mem.files[f].uri \in Versions \cup {Failed}
         /\ raw[f] \in Versions /\ Content(f) \in Versions
  BY MemFacts, ContentType, SiteAssumption DEF TypeOK, FileRec, Versions, Content

\* A content that has gone does not come back.
LEMMA ContentMoves ==
  ASSUME TypeOK, NEW g \in Files, Edit(g) \/ Delete(g), NEW f \in Files, NEW h \in Nat,
         h # NoFile, h <= edits[f]
  PROVE  /\ h <= edits'[f]
         /\ h # Content(f) => h # Content(f)'
  BY SiteAssumption DEF TypeOK, Edit, Delete, Content, Versions, NoFile

\* The user changes nothing of what the records say.
LEMMA UserSound ==
  ASSUME TypeOK, NEW g \in Files, Edit(g) \/ Delete(g), NEW f \in Files, 
         Sound(mem.files[f], f)
  PROVE  Sound(mem.files[f], f)'
  <1>1. mem' = mem /\ mem.files[f].hash \in Nat
    BY UserSteps, Values
  <1> QED
    BY <1>1, ContentMoves DEF Sound, Past

\* A record stays, goes, or is marked.
LEMMA RecordSound ==
  ASSUME UNCHANGED userVars, NEW f \in Files, Sound(mem.files[f], f),
         \/ mem'.files[f] = mem.files[f]
         \/ mem'.files[f] = NoRec
         \/ /\ mem.files[f].state # "unknown"
            /\ mem'.files[f].state \in {"changed", "waiting"}
            /\ mem'.files[f].hash = mem.files[f].hash
            /\ mem'.files[f].uri = mem.files[f].uri
            /\ mem'.files[f].target = mem.files[f].target
  PROVE  Sound(mem.files[f], f)'
  <1>1. edits' = edits /\ Content(f)' = Content(f)
    BY DEF userVars, Content
  <1> QED
    BY <1>1 DEF Sound, Past, NoRec

LEMMA Marking ==
  ASSUME TypeOK, NEW F, NEW s \in {"changed", "waiting", "idle"}, NEW f \in Files
  PROVE  /\ f \notin F => Mark(F, s)[f] = mem.files[f]
         /\ f \in F => /\ Mark(F, s)[f].state = s
                       /\ Mark(F, s)[f].hash = mem.files[f].hash
                       /\ Mark(F, s)[f].uri = mem.files[f].uri
                       /\ Mark(F, s)[f].target = mem.files[f].target
  <1>1. mem.files[f] \in FileRec
    BY MemFacts
  <1>2. CASE f \in F
    <2>1. Mark(F, s)[f] = [mem.files[f] EXCEPT !.state = s]
      BY <1>2 DEF Mark
    <2> QED
      BY <1>1, <1>2, <2>1 DEF FileRec
  <1> QED
    BY <1>2 DEF Mark

\* What a scan makes of a record.
LEMMA ScannedRecord ==
  ASSUME TypeOK, Scan, NEW f \in Files
  PROVE  \/ mem'.files[f] = NoRec /\ Content(f) = NoFile
         \/ /\ mem'.files[f] = mem.files[f]
            /\ f \in Known => Content(f) = mem.files[f].hash
         \/ /\ Content(f) # NoFile /\ mem'.needToUpdate
            /\ mem'.files[f] = [mem.files[f] EXCEPT !.state = "changed", !.hash = Content(f)]
  <1> DEFINE Changing == {g \in Files : Content(g) # NoFile /\ Changed(g)}
             Removed == {g \in Known : Content(g) = NoFile}
             files == [g \in Files |-> 
                     IF g \in Removed THEN NoRec
                     ELSE IF g \in Changing 
                     THEN [mem.files[g] EXCEPT !.state = "changed", !.hash = Content(g)]
                     ELSE mem.files[g]]
  <1>1. \/ Changing \cup Removed # {} /\ mem'.files = files /\ mem'.needToUpdate
        \/ Changing \cup Removed = {} /\ mem' = mem
    BY MemFacts DEF Scan, MemType
  <1>2. CASE f \in Removed
    <2>1. mem'.files = files
      BY <1>1, <1>2
    <2> QED
      BY <1>2, <2>1, Zenon
  <1>3. CASE f \in Changing \ Removed
    <2>1. mem'.files = files /\ mem'.needToUpdate
      BY <1>1, <1>3
    <2>2. mem'.files[f] = [mem.files[f] EXCEPT !.state = "changed", !.hash = Content(f)]
      BY <1>3, <2>1
    <2> QED
      BY <1>3, <2>1, <2>2
  <1>4. CASE f \notin Changing \cup Removed
    <2>1. mem'.files[f] = mem.files[f]
      BY <1>1, <1>4
    <2>2. f \in Known => Content(f) = mem.files[f].hash
      BY <1>4 DEF Changed
    <2> QED
      BY <2>1, <2>2
  <1> QED
    BY <1>2, <1>3, <1>4

\* No step that is not interrupted leaves a record with the wrong CHK.
LEMMA SoundStep ==
  ASSUME SiteInv, UriInv, SoundInv, MatchInv, DiskInv, Next, ~interrupted',
         MarkManifestFiles => StaysOut
  PROVE  SoundInv'
  <1> SUFFICES ASSUME pc' # "off", NEW f \in Pages PROVE Sound(mem.files[f], f)'
    BY DEF SoundInv, AllSound
  <1> f \in Files
    BY DEF Pages
  <1>0. TypeOK /\ SaveInv /\ mem \in MemType /\ mem.files[f] \in FileRec
    BY MemFacts DEF SiteInv
  <1>r. pc # "off" => Sound(mem.files[f], f)
    BY DEF SoundInv, AllSound
  <1>1. CASE \E g \in Files : Edit(g) \/ Delete(g)
    <2>1. pc # "off"
      BY <1>1, UserSteps
    <2> QED
      BY <1>0, <1>1, <1>r, <2>1, UserSound
  <1>2. CASE \E c \in Commands : Load(c)
    <2>1. SavedFit /\ disk.status = "readable" /\ mem'.files = disk.files
      BY <1>2 DEF Load, DiskInv
    <2>2. Sound(disk.files[f], f)
      BY <2>1 DEF SavedFit, AllSound
    <2>3. edits' = edits /\ Content(f)' = Content(f)
      BY <1>2 DEF Load, userVars, Content
    <2> QED
      BY <2>1, <2>2, <2>3 DEF Sound, Past
  <1>3. CASE Exit \/ Abort \/ Crash
    BY <1>3 DEF Exit, Abort, Crash, Forget
  <1>4. CASE CancelUpdate \/ SaveInterrupted
    BY <1>4 DEF CancelUpdate, SaveInterrupted
  <1>13. CASE GenSitemapUri
    <2>1. mem'.files[f] = mem.files[f] /\ UNCHANGED userVars /\ pc # "off"
      BY <1>0, <1>13 DEF GenSitemapUri, MemType, Pages
    <2> QED
      BY <1>r, <2>1, RecordSound
  <1>5. CASE \/ Unlink \/ Rename \/ Insert \/ Cleanup \/ (\E n \in Names : JobRunning(n))
             \/ UpToDate \/ GenIndexUri \/ FilesQueued \/ CheckQueue
             \/ (\E n \in Names : JobDone(n) \/ JobFails(n) \/ RemoveJob(n))
             \/ ManifestJobDone \/ ManifestJobFailed
    <2>1. mem'.files = mem.files /\ UNCHANGED userVars
      BY <1>0, <1>5 DEF Unlink, Rename, Insert, Cleanup, JobRunning, UpToDate, GenIndexUri, 
         FilesQueued, CheckQueue, JobDone, JobFails, RemoveJob, Clearing, ManifestJobDone, 
         ManifestJobFailed, Look,
         MemType, progVars
    <2>2. pc # "off"
      BY <1>5 DEF Unlink, Rename, Insert, Cleanup, JobRunning, UpToDate, GenIndexUri, 
         FilesQueued, CheckQueue, JobDone, JobFails, RemoveJob, Clearing, ManifestJobDone, 
         ManifestJobFailed, Look,
         progVars
    <2> QED
      BY <1>r, <2>1, <2>2, RecordSound
  <1>6. CASE Reinsert
    <2>1. mem'.files = Mark(Known, "changed") /\ UNCHANGED userVars /\ pc # "off"
      BY <1>0, <1>6 DEF Reinsert, MemType
    <2>2. f \in Known => mem.files[f].state # "unknown"
      BY DEF Known
    <2> QED
      BY <1>0, <1>r, <2>1, <2>2, Marking, RecordSound
  <1>7. CASE PendingDone
    <2> DEFINE lost == {g \in Files : mem.files[g].state = "inserting"} \ queued
    <2>1. mem'.files = Mark(lost, "waiting") /\ UNCHANGED userVars /\ pc # "off"
      BY <1>0, <1>7 DEF PendingDone, MemType
    <2>2. f \in lost => mem.files[f].state # "unknown"
      OBVIOUS
    <2> HIDE DEF lost
    <2> QED
      BY <1>0, <1>r, <2>1, <2>2, Marking, RecordSound
  <1>8. CASE \E g \in Files : FileJobEnded(g)
    <2> PICK g \in Files : FileJobEnded(g)
      BY <1>8
    <2>1. UNCHANGED userVars /\ pc = "pending" /\ Busy(g)
      BY DEF FileJobEnded, Look, Busy
    <2>2. CASE f # g \/ f \notin Known
      <3>1. mem'.files[f] = mem.files[f]
        BY <1>0, <2>2 DEF FileJobEnded, MemType
      <3> QED
        BY <1>r, <2>1, <3>1, RecordSound
    <2>3. CASE f = g /\ f \in Known
      <3>1. Matched(mem.files[f], f)
        BY <2>1 DEF MatchInv, Matching, AllMatched, At
      <3>2. /\ mem.files[f].target = "separate" /\ mem.files[f].uri = raw[f]
            /\ raw[f] = mem.files[f].hash \/ Past(mem.files[f], f)
        BY <2>1, <2>3, <3>1 DEF Matched, Known
      <3>3. mem'.files[f] = Settled(mem.files[f], f)
        BY <1>0, <2>3 DEF FileJobEnded, MemType
      <3>4. /\ mem'.files[f].state = "idle" /\ mem'.files[f].target = "separate"
            /\ mem'.files[f].hash = mem.files[f].hash
            /\ mem'.files[f].uri \in {raw[f], Failed}
        BY <1>0, <3>2, <3>3 DEF Settled, FileRec
      <3>5. Sound(mem.files[f], f) /\ mem.files[f].state # "unknown"
        BY <1>r, <2>1, <2>3 DEF Known
      <3>6. edits' = edits /\ Content(f)' = Content(f)
        BY <2>1 DEF userVars, Content
      <3> QED
        BY <3>2, <3>4, <3>5, <3>6 DEF Sound, Past
    <2> QED
      BY <2>2, <2>3
  <1>9. CASE Scan
    <2>1. UNCHANGED userVars /\ pc # "off"
      BY <1>9 DEF Scan
    <2>2. CASE mem'.files[f] = NoRec \/ mem'.files[f] = mem.files[f]
      BY <1>r, <2>1, <2>2, RecordSound
    <2>3. CASE /\ Content(f) # NoFile
               /\ mem'.files[f] = [mem.files[f] EXCEPT !.state = "changed", !.hash = Content(f)]
      <3>1. /\ mem'.files[f].state = "changed" /\ mem'.files[f].hash = Content(f)
            /\ mem'.files[f].uri = mem.files[f].uri
            /\ mem'.files[f].target = mem.files[f].target
        BY <1>0, <2>3 DEF FileRec
      <3>2. edits' = edits /\ Content(f) <= edits[f]
        BY <1>0, <2>1, <2>3, Values DEF userVars
      <3>3. mem.files[f].target = "manifest" => mem.files[f].uri = NoFile
        BY <1>r, <2>1 DEF Sound, NoRec
      <3> QED
        BY <2>3, <3>1, <3>2, <3>3 DEF Sound
    <2> QED
      BY <1>0, <1>9, <2>2, <2>3, ScannedRecord
  <1>10. CASE MarkManifestFiles
    <2>1. UNCHANGED userVars /\ pc # "off"
      BY <1>10 DEF MarkManifestFiles
    <2>2. CASE f \notin Known
      BY <1>0, <1>10, <1>r, <2>1, <2>2, MarkedRecord, RecordSound
    <2>3. CASE f \in Known
      <3>1. Sound(mem.files[f], f) /\ mem.files[f].state # "unknown"
        BY <1>r, <2>1, <2>3 DEF Known
      <3>2. mem'.files[f].target = "manifest" => mem'.files[f].uri = NoFile
        <4>1. mem.files[f].target = "manifest" => mem.files[f].uri = NoFile
          BY <3>1 DEF Sound
        <4>2. mem.files[f].target \in {"manifest", "separate"}
          BY <1>0 DEF FileRec
        <4> QED
          BY <1>0, <1>10, <2>3, <4>1, <4>2, MarkedRecord DEF StaysOut
      <3>3. /\ mem'.files[f].uri = mem.files[f].uri
            /\ mem'.files[f].hash = mem.files[f].hash
            /\ \/ mem'.files[f].state = mem.files[f].state
               \/ mem'.files[f].state = "changed"
        BY <1>0, <1>10, <2>3, MarkedRecord
      <3>4. edits' = edits /\ Content(f)' = Content(f)
        BY <2>1 DEF userVars, Content
      <3> QED
        BY <3>1, <3>2, <3>3, <3>4 DEF Sound, Past
    <2> QED
      BY <2>2, <2>3
  <1>11. CASE \E g \in Files : QueueFile(g)
    <2> PICK g \in Files : QueueFile(g)
      BY <1>11
    <2>1. UNCHANGED userVars /\ pc # "off"
      BY DEF QueueFile
    <2>2. CASE f # g
      <3>1. mem'.files[f] = mem.files[f]
        BY <1>0, <2>2 DEF QueueFile, MemType
      <3> QED
        BY <1>r, <2>1, <3>1, RecordSound
    <2>3. CASE f = g
      <3>1. /\ mem'.files[f].state = "inserting" /\ mem'.files[f].uri = Content(f)
            /\ mem'.files[f].hash = mem.files[f].hash
            /\ mem'.files[f].target = mem.files[f].target
        BY <1>0, <2>3 DEF QueueFile, MemType, FileRec
      <3>2. mem.files[f].target = "separate" /\ mem.files[f].state = "changed"
        BY <2>3 DEF QueueFile, ToInsert
      <3>3. edits' = edits /\ Content(f)' = Content(f)
        BY <2>1 DEF userVars, Content
      <3> QED
        BY <1>r, <2>1, <3>1, <3>2, <3>3 DEF Sound, Past
    <2> QED
      BY <2>2, <2>3
  <1>12. CASE SubmitManifest
    <2>1. mem'.files = Mark(Redirects \cup Embedded, "idle") /\ UNCHANGED userVars /\ pc # "off"
      BY <1>0, <1>12 DEF SubmitManifest, MemType
    <2>2. CASE f \notin Redirects \cup Embedded
      BY <1>0, <1>r, <2>1, <2>2, Marking, RecordSound
    <2>3. CASE f \in Redirects \cup Embedded
      <3>1. /\ mem'.files[f].state = "idle" /\ mem'.files[f].uri = mem.files[f].uri
            /\ mem'.files[f].hash = mem.files[f].hash
            /\ mem'.files[f].target = mem.files[f].target
        BY <1>0, <2>1, <2>3, Marking
      <3>2. Sound(mem.files[f], f) /\ mem.files[f].state # "unknown"
        BY <1>r, <2>1, <2>3 DEF Redirects, Embedded, Known
      <3>3. mem.files[f].uri = NoFile \/ mem.files[f].state \in {"inserting", "idle"}
        <4>1. CASE mem.files[f].target = "manifest"
          BY <3>2, <4>1 DEF Sound
        <4>2. CASE mem.files[f].target = "separate"
          <5>1. Marked /\ ToInsert = {}
            BY <1>12 DEF SubmitManifest, UriInv, At
          <5> QED
            BY <1>0, <3>2, <4>2, <5>1 DEF Marked, Known, ToInsert, FileRec
        <4> QED
          BY <1>0, <4>1, <4>2 DEF FileRec
      <3>4. edits' = edits /\ Content(f)' = Content(f)
        BY <2>1 DEF userVars, Content
      <3> QED
        BY <3>1, <3>2, <3>3, <3>4 DEF Sound, Past
    <2> QED
      BY <2>2, <2>3
  <1> QED
    BY <1>1, <1>2, <1>3, <1>4, <1>5, <1>6, <1>7, <1>8, <1>9, <1>10, <1>11, <1>12, <1>13
    DEF Next, ProgramStep

(***************************************************************************)
(* Jobs and records                                                        *)
(***************************************************************************)
LEMMA UserMatched ==
  ASSUME TypeOK, NEW g \in Files, Edit(g) \/ Delete(g), NEW f \in Files, 
         Sound(mem.files[f], f), Matched(mem.files[f], f)
  PROVE  Matched(mem.files[f], f)'
  <1>1. /\ mem' = mem /\ mem.files[f].hash \in Nat /\ raw' = raw
        /\ Busy(f)' <=> Busy(f)
    BY UserSteps, Values DEF Edit, Delete, nodeVars, Busy
  <1> QED
    BY <1>1, ContentMoves DEF Sound, Matched, Past

LEMMA RecordMatched ==
  ASSUME UNCHANGED userVars, NEW f \in Files, Matched(mem.files[f], f),
         Busy(f)' => Busy(f) /\ raw'[f] = raw[f],
         \/ mem'.files[f] = mem.files[f]
         \/ /\ mem.files[f].state # "unknown"
            /\ mem'.files[f].hash = mem.files[f].hash
            /\ mem'.files[f].uri = mem.files[f].uri
            /\ mem'.files[f].target = mem.files[f].target
  PROVE  Matched(mem.files[f], f)'
  <1>1. Content(f)' = Content(f)
    BY DEF userVars, Content
  <1> QED
    BY <1>1 DEF Matched, Past, NoRec

LEMMA RemoveKeeps ==
  ASSUME TypeOK, NEW n \in Names, RemoveJob(n), NEW f \in Files
  PROVE  Busy(f)' => Busy(f) /\ raw'[f] = raw[f]
  <1>1. f \in Names
    BY DEF Names
  <1> QED
    BY <1>1 DEF TypeOK, RemoveJob, ClearJob, Busy

LEMMA MatchStep ==
  ASSUME SiteInv, SoundInv, MatchInv, DiskInv, Next, ~interrupted'
  PROVE  MatchInv'
  <1> SUFFICES ASSUME Matching', NEW f \in Pages PROVE Matched(mem.files[f], f)'
    BY DEF MatchInv, AllMatched
  <1> f \in Files
    BY DEF Pages
  <1>0. TypeOK /\ SaveInv /\ mem \in MemType /\ mem.files[f] \in FileRec
    BY MemFacts DEF SiteInv
  <1>n. Manifest \in Names /\ Manifest \notin Files /\ Files \subseteq Names
    BY SiteAssumption DEF Names
  <1>r. Matching => Matched(mem.files[f], f)
    BY DEF MatchInv, AllMatched
  <1>1. CASE \E g \in Files : Edit(g) \/ Delete(g)
    <2>1. Matching /\ pc # "off"
      BY <1>1, UserSteps DEF Matching, At, Saving
    <2>2. Sound(mem.files[f], f)
      BY <2>1 DEF SoundInv, AllSound
    <2> QED
      BY <1>0, <1>1, <1>r, <2>1, <2>2, UserMatched
  <1>2. CASE \E n \in Names : JobDone(n) \/ JobFails(n)
    <2>1. Matching
      BY <1>0, <1>2, NodeSteps DEF Matching, At, Saving
    <2>2. /\ Busy(f)' <=> Busy(f)
          /\ raw' = raw /\ mem' = mem /\ UNCHANGED userVars
      BY <1>0, <1>2, <1>n, NodeSteps DEF JobDone, JobFails
    <2> QED
      BY <1>r, <2>1, <2>2, RecordMatched
  <1>3. CASE Unlink \/ Rename
    <2>1. Matching
      <3>1. \A p \in SavePoints : At(p)' => At(p)
        BY <1>0, <1>3, SaveSteps
      <3>2. Saving("exit")' => Saving("exit")
        BY <1>3 DEF Unlink, Rename, Saving, Goto
      <3> QED
        BY <3>1, <3>2 DEF Matching, SavePoints
    <2>2. mem' = mem /\ raw' = raw /\ queue' = queue /\ UNCHANGED userVars
      BY <1>3 DEF Unlink, Rename, nodeVars
    <2> QED
      BY <1>r, <2>1, <2>2, RecordMatched DEF Busy
  <1>4. CASE \E c \in Commands : Load(c)
    <2>1. SavedFit /\ disk.status = "readable" /\ mem'.files = disk.files
      BY <1>4 DEF Load, DiskInv
    <2>2. Matched(disk.files[f], f)
      BY <2>1 DEF SavedFit, AllMatched
    <2>3. Content(f)' = Content(f) /\ raw' = raw /\ queue' = queue
      BY <1>4 DEF Load, userVars, nodeVars, Content
    <2> QED
      BY <2>1, <2>2, <2>3 DEF Matched, Past, Busy
  <1>5. CASE Exit \/ Abort \/ Crash \/ CancelUpdate \/ GenIndexUri \/ SaveInterrupted
    BY <1>5 DEF GenIndexUri, SaveInterrupted, Goto, Save, Exit, Abort, Crash, Forget, CancelUpdate, Matching, At, Saving
  <1>6. CASE Scan \/ UpToDate
    BY <1>6 DEF Scan, UpToDate, Goto, Save, Matching, At, Saving
  <1>7. CASE MarkManifestFiles
    BY <1>7 DEF MarkManifestFiles, Goto, Matching, At, Saving
  <1>8. CASE Insert \/ Cleanup
    <2>1. Matching
      BY <1>8 DEF Insert, Cleanup, Matching, At
    <2>2. mem' = mem /\ UNCHANGED userVars
      BY <1>8 DEF Insert, Cleanup
    <2>3. raw' = raw /\ queue' = queue
      BY <1>8 DEF Insert, Cleanup, LookAtQueue, Goto, Matching, At, Saving
    <2> QED
      BY <1>r, <2>1, <2>2, <2>3, RecordMatched DEF Busy
  <1>9. CASE Reinsert
    <2>1. /\ mem'.files = Mark(Known, "changed") /\ Matching
          /\ UNCHANGED <<userVars, queue, raw>>
      BY <1>0, <1>9 DEF Reinsert, MemType, nodeVars, Matching, At
    <2>2. f \in Known => mem.files[f].state # "unknown"
      BY DEF Known
    <2> QED
      BY <1>0, <1>r, <2>1, <2>2, Marking, RecordMatched DEF Busy
  <1>10. CASE \E n \in Names : JobRunning(n)
    <2>1. UNCHANGED <<userVars, mem, queue, raw>> /\ Matching
      BY <1>10 DEF JobRunning, Look, Matching, At
    <2> QED
      BY <1>r, <2>1, RecordMatched DEF Busy
  <1>11. CASE \E g \in Files : FileJobEnded(g)
    <2> PICK g \in Files : FileJobEnded(g)
      BY <1>11
    <2>1. UNCHANGED userVars /\ Matching
      BY DEF FileJobEnded, Look, Matching, At
    <2>2. CASE f # g
      <3>1. mem'.files[f] = mem.files[f]
        BY <1>0, <2>2 DEF FileJobEnded, MemType
      <3>2. queue'[f] = queue[f] /\ raw'[f] = raw[f]
        BY <1>0, <1>n, <2>2 DEF FileJobEnded, ClearJob, TypeOK
      <3> QED
        BY <1>r, <2>1, <3>1, <3>2, RecordMatched DEF Busy
    <2>3. CASE f = g
      <3>1. ~Busy(f)'
        BY <1>0, <1>n, <2>3 DEF FileJobEnded, ClearJob, TypeOK, Busy
      <3> QED
        BY <3>1 DEF Matched
    <2> QED
      BY <2>2, <2>3
  <1>12. CASE ManifestJobDone \/ ManifestJobFailed
    <2>1. UNCHANGED userVars /\ Matching /\ mem'.files = mem.files
      BY <1>0, <1>12 DEF ManifestJobDone, ManifestJobFailed, Look, Matching, At, MemType
    <2>2. queue'[f] = queue[f] /\ raw'[f] = raw[f]
      BY <1>0, <1>n, <1>12 DEF ManifestJobDone, ManifestJobFailed, ClearJob, TypeOK
    <2> QED
      BY <1>r, <2>1, <2>2, RecordMatched DEF Busy
  <1>13. CASE PendingDone
    <2> DEFINE lost == {g \in Files : mem.files[g].state = "inserting"} \ queued
    <2>1. /\ mem'.files = Mark(lost, "waiting") /\ Matching
          /\ UNCHANGED <<userVars, queue, raw>>
      BY <1>0, <1>13 DEF PendingDone, MemType, nodeVars, Matching, At
    <2>2. f \in lost => mem.files[f].state # "unknown"
      OBVIOUS
    <2> HIDE DEF lost
    <2> QED
      BY <1>0, <1>r, <2>1, <2>2, Marking, RecordMatched DEF Busy
  <1>14. CASE GenSitemapUri
    <2>1. ~Busy(f)'
      BY <1>14, <1>n DEF GenSitemapUri, SiteInv, FreeInv, Cleared, At, Busy, nodeVars
    <2> QED
      BY <2>1 DEF Matched
  <1>18. CASE \E n \in Names : RemoveJob(n)
    <2> PICK n \in Names : RemoveJob(n)
      BY <1>18
    <2>1. UNCHANGED <<userVars, mem, pc, after>>
      BY <1>0, RemoveSteps DEF RemoveJob
    <2>2. Matching
      BY <2>1 DEF Matching, At, Saving
    <2>3. Busy(f)' => Busy(f) /\ raw'[f] = raw[f]
      BY <1>0, <1>n, RemoveKeeps
    <2> QED
      BY <1>r, <2>1, <2>2, <2>3, RecordMatched
  <1>15. CASE \E g \in Files : QueueFile(g)
    <2> PICK g \in Files : QueueFile(g)
      BY <1>15
    <2>1. UNCHANGED userVars /\ Matching
      BY DEF QueueFile, Matching, At
    <2>2. CASE f # g
      <3>1. mem'.files[f] = mem.files[f]
        BY <1>0, <2>2 DEF QueueFile, MemType
      <3>2. queue'[f] = queue[f] /\ raw'[f] = raw[f]
        BY <1>0, <1>n, <2>2 DEF QueueFile, TypeOK
      <3> QED
        BY <1>r, <2>1, <3>1, <3>2, RecordMatched DEF Busy
    <2>3. CASE f = g
      <3>1. /\ mem'.files[f].uri = Content(f)
            /\ mem'.files[f].hash = mem.files[f].hash
            /\ mem'.files[f].target = mem.files[f].target
        BY <1>0, <2>3 DEF QueueFile, MemType, FileRec
      <3>2. mem.files[f].target = "separate" /\ Content(f) # NoFile
        BY <2>3 DEF QueueFile, ToInsert
      <3>3. raw'[f] = Content(f)
        BY <1>0, <2>3 DEF QueueFile, TypeOK
      <3>4. Content(f)' = Content(f)
        BY <2>1 DEF userVars, Content
      <3> QED
        BY <3>1, <3>2, <3>3, <3>4 DEF Matched, Past
    <2> QED
      BY <2>2, <2>3
  <1>16. CASE FilesQueued \/ CheckQueue
    <2>1. UNCHANGED <<userVars, mem, queue, raw>> /\ Matching
      BY <1>16 DEF FilesQueued, CheckQueue, nodeVars, Matching, At
    <2> QED
      BY <1>r, <2>1, RecordMatched DEF Busy
  <1>17. CASE SubmitManifest
    <2>1. /\ mem'.files = Mark(Redirects \cup Embedded, "idle") 
          /\ UNCHANGED <<userVars, raw>> /\ Matching
      BY <1>0, <1>17 DEF SubmitManifest, MemType, Matching, At
    <2>2. queue'[f] = queue[f]
      BY <1>0, <1>n, <1>17 DEF SubmitManifest, TypeOK
    <2>3. f \in Redirects \cup Embedded => mem.files[f].state # "unknown"
      BY DEF Redirects, Embedded, Known
    <2>4. \/ mem'.files[f] = mem.files[f]
          \/ /\ mem.files[f].state # "unknown"
             /\ mem'.files[f].hash = mem.files[f].hash
             /\ mem'.files[f].uri = mem.files[f].uri
             /\ mem'.files[f].target = mem.files[f].target
      BY <1>0, <2>1, <2>3, Marking
    <2> QED
      BY <1>r, <2>1, <2>2, <2>4, RecordMatched DEF Busy
  <1> QED
    BY <1>1, <1>2, <1>3, <1>4, <1>5, <1>6, <1>7, <1>8, <1>9, <1>10, <1>11, <1>12, <1>13, 
       <1>14, <1>15, <1>16, <1>17, <1>18
    DEF Next, ProgramStep

(***************************************************************************)
(* The last manifest and the records                                       *)
(***************************************************************************)
\* The node publishes the manifest that was on its way, and nothing else.
LEMMA NodeLast ==
  ASSUME TypeOK, NEW n \in Names, JobDone(n) \/ JobFails(n)
  PROVE  Last' = Last
  <1>n. Manifest \in Names
    BY DEF Names
  <1>1. (Busy(Manifest)' <=> Busy(Manifest)) /\ manifest' = manifest
    BY <1>n, NodeSteps DEF JobDone, JobFails
  <1>2. ~Busy(Manifest) => site' = site
    BY <1>n DEF JobDone, JobFails, Busy
  <1> QED
    BY <1>1, <1>2 DEF Last

LEMMA UserShown ==
  ASSUME TypeOK, NEW g \in Files, Edit(g) \/ Delete(g), AllSound(mem.files), AllShown(mem.files)
  PROVE  AllShown(mem.files)'
  <1> SUFFICES ASSUME NEW f \in Pages PROVE Shown(mem.files[f], f)'
    BY DEF AllShown
  <1> f \in Files
    BY DEF Pages
  <1>1. mem' = mem /\ mem.files[f].hash \in Nat
    BY UserSteps, Values
  <1>2. Last' = Last
    BY DEF Edit, Delete, nodeVars, Last, Busy
  <1>3. Sound(mem.files[f], f) /\ Shown(mem.files[f], f)
    BY DEF AllSound, AllShown
  <1> QED
    BY <1>1, <1>2, <1>3, ContentMoves DEF Sound, Shown, Past

LEMMA RecordsShown ==
  ASSUME UNCHANGED userVars, Last' = Last, AllShown(mem.files),
         \A f \in Files : \/ mem'.files[f] = mem.files[f]
                          \/ /\ mem'.files[f].state # "unknown"
                             /\ mem'.files[f].hash = mem.files[f].hash
  PROVE  AllShown(mem.files)'
  <1> SUFFICES ASSUME NEW f \in Pages PROVE Shown(mem.files[f], f)'
    BY DEF AllShown
  <1> f \in Files
    BY DEF Pages
  <1>1. Content(f)' = Content(f) /\ Shown(mem.files[f], f)
    BY DEF userVars, Content, AllShown
  <1> QED
    BY <1>1 DEF Shown, Past

\* The manifest just made names what was scanned, or what came after it.
LEMMA SubmitShown ==
  ASSUME SiteInv, UriInv, AllSound(mem.files), SubmitManifest
  PROVE  AllShown(mem.files)'
  <1> SUFFICES ASSUME NEW f \in Pages PROVE Shown(mem.files[f], f)'
    BY DEF AllShown
  <1> f \in Files
    BY DEF Pages
  <1>0. TypeOK /\ mem \in MemType /\ mem.files[f] \in FileRec
    BY MemFacts DEF SiteInv
  <1>1. Last' = manifest'
    <2>1. Manifest \in Names /\ queue \in [Names -> Statuses]
      BY <1>0 DEF Names, TypeOK, Statuses
    <2>2. queue'[Manifest] = "running"
      BY <2>1 DEF SubmitManifest
    <2> QED
      BY <2>2 DEF Last, Busy
  <1>2. /\ Marked /\ ToInsert = {} /\ Sound(mem.files[f], f)
        /\ Content(f)' = Content(f)
    BY DEF SubmitManifest, UriInv, At, AllSound, userVars, Content
  <1>3. mem'.files = Mark(Redirects \cup Embedded, "idle")
    BY <1>0 DEF SubmitManifest, MemType
  <1>4. ASSUME f \in Redirects \cup Embedded
        PROVE  mem'.files[f].state # "unknown" /\ mem'.files[f].hash = mem.files[f].hash
    BY <1>0, <1>3, <1>4, Marking
  <1>5. CASE f \in Redirects
    <2>1. manifest'[f] = mem.files[f].uri
      BY <1>5 DEF SubmitManifest
    <2>2. /\ f \in Known /\ mem.files[f].target = "separate"
          /\ mem.files[f].uri # NoFile /\ mem.files[f].uri # Failed
      BY <1>5 DEF SubmitManifest, CanMake, Redirects
    <2>3. mem.files[f].state \in {"inserting", "idle"}
      BY <1>0, <1>2, <2>2 DEF Marked, Known, ToInsert, FileRec
    <2>4. mem.files[f].uri = mem.files[f].hash \/ Past(mem.files[f], f)
      BY <1>2, <2>2, <2>3 DEF Sound
    <2> QED
      BY <1>1, <1>2, <1>4, <1>5, <2>1, <2>4 DEF Shown, Past
  <1>6. CASE f \in Embedded \ Redirects
    <2>1. manifest'[f] = Content(f)
      BY <1>6 DEF SubmitManifest
    <2> QED
      BY <1>1, <1>2, <1>4, <1>6, <2>1 DEF Shown, Past
  <1>7. CASE f \notin Redirects \cup Embedded
    <2>1. manifest'[f] = NoFile
      BY <1>7 DEF SubmitManifest
    <2>2. f \notin Known
      BY <1>0, <1>2, <1>7 DEF Marked, ToInsert, Redirects, Embedded, FileRec
    <2>3. mem'.files[f] = NoRec
      <3>1. mem.files[f] = NoRec
        BY <1>2, <2>2 DEF Known, Sound
      <3> QED
        BY <1>0, <1>3, <1>7, <3>1, Marking
    <2> QED
      BY <1>1, <2>1, <2>3 DEF Shown, NoRec
  <1> QED
    BY <1>5, <1>6, <1>7

\* A cleanup finds no manifest to remove.
LEMMA RemoveLast ==
  ASSUME SiteInv, ~interrupted, NEW n \in Names, RemoveJob(n), command # "cancel", pc # "clear"
  PROVE  Last' = Last
  <1>1. TypeOK /\ FlagsInv /\ KnowsInv
    BY ResumeParts DEF SiteInv
  <1>2. pc = "begin" /\ command = "cleanup" /\ ~mem.updateInProgress
    BY DEF RemoveJob, Clearing
  <1>3. ~Busy(Manifest)
    BY <1>1, <1>2 DEF KnowsInv, FlagsInv, Agree, Retrying, At
  <1>4. n # Manifest /\ Manifest \in Names
    BY <1>3 DEF RemoveJob, Names
  <1>5. (Busy(Manifest)' <=> Busy(Manifest)) /\ site' = site
    BY <1>1, <1>4, RemoveSteps DEF RemoveJob
  <1> QED
    BY <1>3, <1>5 DEF Last

LEMMA ShownStep ==
  ASSUME SiteInv, UriInv, SoundInv, ShownInv, DiskInv, DoneInv, Next, 
         ~interrupted, ~interrupted'
  PROVE  ShownInv'
  <1>0. TypeOK /\ SaveInv /\ mem \in MemType
    BY MemFacts DEF SiteInv
  <1>n. Manifest \in Names /\ Manifest \notin Files /\ Files \subseteq Names
    BY SiteAssumption DEF Names
  <1>r. /\ Showing => AllShown(mem.files) \/ Retrying
        /\ Settling => AllShown(mem.files)
    BY DEF ShownInv
  <1>1. CASE \E g \in Files : Edit(g) \/ Delete(g)
    <2>1. UNCHANGED <<queue, mem, command, pc, after, disk, interrupted>>
      BY <1>1, UserSteps
    <2>2. (Showing' <=> Showing) /\ (Settling' <=> Settling) /\ (Retrying' <=> Retrying)
      BY <2>1 DEF Showing, Settling, At, Saving, Retrying
    <2>3. Showing \/ Settling => AllSound(mem.files)
      BY DEF SoundInv, Showing, Settling, At, Saving
    <2>4. Showing \/ Settling => (AllShown(mem.files) => AllShown(mem.files)')
      BY <1>0, <1>1, <2>3, UserShown
    <2> QED
      BY <1>r, <2>2, <2>4 DEF ShownInv
  <1>2. CASE \E n \in Names : JobDone(n) \/ JobFails(n)
    <2>1. UNCHANGED <<mem, command, pc, after>> /\ Last' = Last /\ UNCHANGED userVars
      BY <1>0, <1>2, NodeSteps, NodeLast DEF JobDone, JobFails
    <2>2. (Showing' <=> Showing) /\ (Settling' <=> Settling) /\ (Retrying' <=> Retrying)
      BY <2>1 DEF Showing, Settling, At, Saving, Retrying
    <2>3. AllShown(mem.files) => AllShown(mem.files)'
      BY <2>1, RecordsShown
    <2> QED
      BY <1>r, <2>2, <2>3 DEF ShownInv
  <1>3. CASE Unlink \/ Rename
    <2>1. UNCHANGED <<mem, command, userVars>> /\ Last' = Last
      BY <1>3 DEF Unlink, Rename, nodeVars, Last, Busy
    <2>2. Showing' => Showing
      BY <1>0, <1>3, SaveSteps DEF Showing, SavePoints
    <2>3. Settling' => Settling
      <3>1. At("check")' => At("check")
        BY <1>0, <1>3, SaveSteps DEF SavePoints
      <3>2. Saving("exit")' => Saving("exit")
        BY <1>3 DEF Unlink, Rename, Saving, Goto
      <3> QED
        BY <3>1, <3>2 DEF Settling
    <2>4. AllShown(mem.files) => AllShown(mem.files)'
      BY <2>1, RecordsShown
    <2>5. Retrying' <=> Retrying
      BY <2>1 DEF Retrying
    <2> QED
      BY <1>r, <2>2, <2>3, <2>4, <2>5 DEF ShownInv
  <1>4. CASE \E c \in Commands : Load(c)
    <2>1. SavedFit /\ disk.status = "readable" /\ mem'.files = disk.files
      BY <1>4 DEF Load, DiskInv
    <2>2. UNCHANGED userVars /\ Last' = Last
      BY <1>4 DEF Load, nodeVars, Last, Busy
    <2>3. ASSUME NEW f \in Pages PROVE Shown(mem.files[f], f)'
      <3>1. Content(f)' = Content(f) /\ Shown(disk.files[f], f)
        BY <2>1, <2>2 DEF userVars, Content, SavedFit, AllShown
      <3> QED
        BY <2>1, <2>2, <3>1 DEF Shown, Past
    <2> QED
      BY <2>3 DEF ShownInv, AllShown
  <1>5. CASE Exit \/ Abort \/ Crash \/ CancelUpdate \/ SaveInterrupted
    BY <1>5 DEF Exit, Abort, Crash, Forget, CancelUpdate, SaveInterrupted, ShownInv, Showing, Settling, At, Saving
  <1>6. CASE Scan \/ UpToDate \/ GenIndexUri \/ GenSitemapUri \/ FilesQueued 
             \/ \E f \in Files : QueueFile(f)
    BY <1>6 DEF Scan, UpToDate, GenIndexUri, GenSitemapUri, FilesQueued, QueueFile, Goto, Save, ShownInv, 
       Showing, Settling, At, Saving
  <1>7. CASE MarkManifestFiles
    BY <1>7 DEF MarkManifestFiles, Goto, ShownInv, Showing, Settling, At, Saving
  <1>8. CASE Insert \/ Cleanup
    <2>1. ~Settling' /\ (Showing' => UNCHANGED <<queue, manifest>>)
      BY <1>8 DEF Insert, Cleanup, LookAtQueue, Goto, Showing, Settling, At, Saving
    <2>2. Showing /\ UNCHANGED <<userVars, mem, command, site>>
      BY <1>8 DEF Insert, Cleanup, Showing, At
    <2>3. Showing' => Last' = Last
      BY <2>1, <2>2 DEF Last, Busy
    <2>4. Showing' /\ AllShown(mem.files) => AllShown(mem.files)'
      BY <2>2, <2>3, RecordsShown
    <2>5. Retrying' <=> Retrying
      BY <2>2 DEF Retrying
    <2> QED
      BY <1>r, <2>1, <2>2, <2>4, <2>5 DEF ShownInv
  <1>9. CASE Reinsert
    <2>1. Retrying' /\ ~Settling'
      BY <1>0, <1>9 DEF Reinsert, Retrying, MemType, Save, Settling, At, Saving
    <2> QED
      BY <2>1 DEF ShownInv
  <1>10. CASE \E n \in Names : JobRunning(n)
    <2>1. UNCHANGED <<userVars, mem, command>> /\ Showing /\ ~Settling' /\ Last' = Last
      BY <1>10 DEF JobRunning, Look, Showing, Settling, At, Saving, Last, Busy
    <2>2. AllShown(mem.files) => AllShown(mem.files)'
      BY <2>1, RecordsShown
    <2>3. Retrying' <=> Retrying
      BY <2>1 DEF Retrying
    <2> QED
      BY <1>r, <2>1, <2>2, <2>3 DEF ShownInv
  <1>11. CASE \E g \in Files : FileJobEnded(g)
    <2> PICK g \in Files : FileJobEnded(g)
      BY <1>11
    <2>1. UNCHANGED <<userVars, command, site>> /\ Showing /\ ~Settling' 
      BY DEF FileJobEnded, Look, Showing, Settling, At, Saving
    <2>2. Last' = Last
      BY <1>0, <1>n, <2>1 DEF FileJobEnded, ClearJob, TypeOK, Last, Busy
    <2>3. Retrying => Retrying'
      BY <1>0, <2>1 DEF FileJobEnded, Retrying, MemType
    <2>4. ASSUME NEW f \in Files 
          PROVE  \/ mem'.files[f] = mem.files[f]
                 \/ /\ mem'.files[f].state # "unknown"
                    /\ mem'.files[f].hash = mem.files[f].hash
      <3>1. CASE f # g \/ f \notin Known
        BY <1>0, <3>1 DEF FileJobEnded, MemType
      <3>2. CASE f = g /\ f \in Known
        <4>1. mem'.files[f] = Settled(mem.files[f], f)
          BY <1>0, <3>2 DEF FileJobEnded, MemType
        <4> QED
          BY <1>0, <4>1, MemFacts DEF Settled, FileRec
      <3> QED
        BY <3>1, <3>2
    <2>5. AllShown(mem.files) => AllShown(mem.files)'
      BY <2>1, <2>2, <2>4, RecordsShown
    <2> QED
      BY <1>r, <2>1, <2>3, <2>5 DEF ShownInv
  <1>12. CASE ManifestJobDone
    <2>1. /\ UNCHANGED <<userVars, command, site>> /\ Showing /\ ~Settling'
          /\ mem'.files = mem.files /\ mem'.needToUpdate = mem.needToUpdate
      BY <1>0, <1>12 DEF ManifestJobDone, Look, Showing, Settling, At, Saving, Save, MemType
    <2>2. Last' = Last
      <3>1. Last = manifest /\ site = manifest
        BY <1>12 DEF ManifestJobDone, Last, Busy, DoneInv
      <3>2. ~Busy(Manifest)'
        BY <1>0, <1>n, <1>12 DEF ManifestJobDone, ClearJob, Busy, TypeOK
      <3> QED
        BY <2>1, <3>1, <3>2 DEF Last
    <2>3. AllShown(mem.files) => AllShown(mem.files)'
      BY <2>1, <2>2, RecordsShown
    <2>4. Retrying' <=> Retrying
      BY <2>1 DEF Retrying
    <2> QED
      BY <1>r, <2>1, <2>3, <2>4 DEF ShownInv
  <1>13. CASE ManifestJobFailed
    <2>1. Retrying' /\ ~Settling'
      BY <1>0, <1>13 DEF ManifestJobFailed, Look, Retrying, MemType, Settling, At, Saving
    <2> QED
      BY <2>1 DEF ShownInv
  <1>14. CASE PendingDone
    <2> DEFINE lost == {g \in Files : mem.files[g].state = "inserting"} \ queued
    <2>1. mem'.files = Mark(lost, "waiting") /\ UNCHANGED <<userVars, nodeVars, command>>
      BY <1>0, <1>14 DEF PendingDone, MemType
    <2>2. /\ Showing /\ ~Saving("exit") /\ (mem.needToUpdate => mem'.needToUpdate)
          /\ Settling' => ~Retrying
      BY <1>0, <1>14 DEF PendingDone, Showing, Settling, At, Saving, Save, Retrying, MemType
    <2> HIDE DEF lost
    <2>3. ASSUME NEW f \in Files 
          PROVE  \/ mem'.files[f] = mem.files[f]
                 \/ /\ mem'.files[f].state # "unknown"
                    /\ mem'.files[f].hash = mem.files[f].hash
      BY <1>0, <2>1, Marking
    <2>4. Last' = Last
      BY <2>1 DEF nodeVars, Last, Busy
    <2>5. AllShown(mem.files) => AllShown(mem.files)'
      BY <2>1, <2>3, <2>4, RecordsShown
    <2>6. Retrying => Retrying'
      BY <2>1, <2>2 DEF Retrying
    <2> QED
      BY <1>r, <2>2, <2>5, <2>6 DEF ShownInv
  <1>17. CASE \E n \in Names : RemoveJob(n)
    <2> PICK n \in Names : RemoveJob(n)
      BY <1>17
    <2>1. UNCHANGED <<userVars, mem, command, pc, after, site>>
      BY <1>0, RemoveSteps DEF RemoveJob
    <2>2. (Showing' <=> Showing) /\ ~Settling' /\ (Retrying' <=> Retrying)
      BY <2>1 DEF RemoveJob, Clearing, Showing, Settling, At, Saving, Retrying
    <2>3. Showing => Last' = Last
      BY <1>0, <1>n, <2>1, RemoveLast DEF Showing, At, RemoveJob, Clearing
    <2>4. Showing /\ AllShown(mem.files) => AllShown(mem.files)'
      BY <2>1, <2>3, RecordsShown
    <2> QED
      BY <1>r, <2>2, <2>4 DEF ShownInv
  <1>15. CASE SubmitManifest
    <2>1. AllSound(mem.files)
      BY <1>15 DEF SubmitManifest, SoundInv
    <2> QED
      BY <1>15, <2>1, SubmitShown DEF ShownInv
  <1>16. CASE CheckQueue
    <2>1. UNCHANGED <<userVars, mem, nodeVars>> /\ Settling /\ ~Showing'
      BY <1>16 DEF CheckQueue, Save, Settling, Showing, At, Saving
    <2>2. Last' = Last
      BY <2>1 DEF nodeVars, Last, Busy
    <2>3. AllShown(mem.files)'
      BY <1>r, <2>1, <2>2, RecordsShown
    <2> QED
      BY <2>1, <2>3 DEF ShownInv
  <1> QED
    BY <1>1, <1>2, <1>3, <1>4, <1>5, <1>6, <1>7, <1>8, <1>9, <1>10, <1>11, <1>12, <1>13, 
       <1>14, <1>15, <1>16, <1>17
    DEF Next, ProgramStep

(***************************************************************************)
(* The state file                                                          *)
(***************************************************************************)
LEMMA DiskKept ==
  ASSUME UNCHANGED <<disk, userVars>>, Last' = Last, SavedFit,
         \A f \in Files : Busy(f)' => Busy(f) /\ raw'[f] = raw[f]
  PROVE  SavedFit'
  <1> SUFFICES ASSUME disk.status = "readable"
               PROVE  AllSound(disk.files)' /\ AllMatched(disk.files)' /\ AllShown(disk.files)'
    BY DEF SavedFit
  <1>1. AllSound(disk.files) /\ AllMatched(disk.files) /\ AllShown(disk.files)
    BY DEF SavedFit
  <1> SUFFICES ASSUME NEW f \in Pages 
               PROVE  /\ Sound(disk.files[f], f)' 
                      /\ Matched(disk.files[f], f)' 
                      /\ Shown(disk.files[f], f)'
    BY DEF AllSound, AllMatched, AllShown
  <1> f \in Files
    BY DEF Pages
  <1>2. /\ Sound(disk.files[f], f) /\ Matched(disk.files[f], f) /\ Shown(disk.files[f], f)
        /\ edits' = edits /\ Content(f)' = Content(f)
    BY <1>1 DEF AllSound, AllMatched, AllShown, userVars, Content
  <1> QED
    BY <1>2 DEF Sound, Matched, Shown, Past

LEMMA DiskUser ==
  ASSUME TypeOK, NEW g \in Files, Edit(g) \/ Delete(g), SavedFit
  PROVE  SavedFit'
  <1> SUFFICES ASSUME disk.status = "readable"
               PROVE  AllSound(disk.files)' /\ AllMatched(disk.files)' /\ AllShown(disk.files)'
    BY UserSteps DEF SavedFit
  <1>1. AllSound(disk.files) /\ AllMatched(disk.files) /\ AllShown(disk.files)
    BY DEF SavedFit
  <1> SUFFICES ASSUME NEW f \in Pages 
               PROVE  /\ Sound(disk.files[f], f)' 
                      /\ Matched(disk.files[f], f)' 
                      /\ Shown(disk.files[f], f)'
    BY DEF AllSound, AllMatched, AllShown
  <1> f \in Files
    BY DEF Pages
  <1>2. Sound(disk.files[f], f) /\ Matched(disk.files[f], f) /\ Shown(disk.files[f], f)
    BY <1>1 DEF AllSound, AllMatched, AllShown
  <1>3. /\ disk' = disk /\ raw' = raw /\ queue' = queue /\ Last' = Last 
        /\ Busy(f)' <=> Busy(f)
    BY DEF Edit, Delete, nodeVars, Last, Busy
  <1>4. disk.files[f].hash \in Nat
    BY SiteAssumption DEF TypeOK, FileRec, Versions
  <1>5. Sound(disk.files[f], f)'
    BY <1>2, <1>3, <1>4, ContentMoves DEF Sound, Past
  <1>6. Matched(disk.files[f], f)' /\ Shown(disk.files[f], f)'
    BY <1>2, <1>3, <1>4, ContentMoves DEF Sound, Matched, Shown, Past
  <1> QED
    BY <1>5, <1>6

\* A save writes what the program holds.
LEMMA DiskWritten ==
  ASSUME Rename, AllSound(mem.files), AllMatched(mem.files), AllShown(mem.files)
  PROVE  SavedFit'
  <1> SUFFICES ASSUME disk'.status = "readable"
               PROVE  AllSound(disk.files)' /\ AllMatched(disk.files)' /\ AllShown(disk.files)'
    BY DEF SavedFit
  <1>1. disk'.files = mem.files
    BY DEF Rename
  <1>2. UNCHANGED <<userVars, nodeVars>>
    BY DEF Rename
  <1> SUFFICES ASSUME NEW f \in Pages 
               PROVE  /\ Sound(disk.files[f], f)' 
                      /\ Matched(disk.files[f], f)' 
                      /\ Shown(disk.files[f], f)'
    BY DEF AllSound, AllMatched, AllShown
  <1> f \in Files
    BY DEF Pages
  <1>3. /\ Sound(mem.files[f], f) /\ Matched(mem.files[f], f) /\ Shown(mem.files[f], f)
        /\ edits' = edits /\ Content(f)' = Content(f) /\ Last' = Last /\ raw' = raw
        /\ Busy(f)' <=> Busy(f)
    BY <1>2 DEF AllSound, AllMatched, AllShown, userVars, nodeVars, Content, Last, Busy
  <1> QED
    BY <1>1, <1>3 DEF Sound, Matched, Shown, Past

LEMMA DiskStep ==
  ASSUME SiteInv, SoundInv, MatchInv, ShownInv, DiskInv, ExactInv, Next, 
         ~interrupted, ~interrupted'
  PROVE  DiskInv'
  <1>0. TypeOK /\ SaveInv /\ mem \in MemType /\ FlagsInv /\ KnowsInv
    BY MemFacts, ResumeParts DEF SiteInv
  <1>n. Manifest \in Names /\ Manifest \notin Files /\ Files \subseteq Names
    BY SiteAssumption DEF Names
  <1>1. CASE \E g \in Files : Edit(g) \/ Delete(g)
    <2>1. UNCHANGED <<mem, command, pc>>
      BY <1>1, UserSteps
    <2>2. SavedFit => SavedFit'
      BY <1>0, <1>1, DiskUser
    <2> QED
      BY <2>1, <2>2 DEF DiskInv, Retrying
  <1>2. CASE \E n \in Names : JobDone(n) \/ JobFails(n)
    <2>1. UNCHANGED <<mem, command, pc, disk, raw>> /\ Last' = Last /\ UNCHANGED userVars
      BY <1>0, <1>2, NodeSteps, NodeLast DEF JobDone, JobFails
    <2>2. \A f \in Files : Busy(f)' <=> Busy(f)
      BY <1>0, <1>n, <1>2, NodeSteps
    <2>3. SavedFit => SavedFit'
      BY <2>1, <2>2, DiskKept
    <2> QED
      BY <2>1, <2>3 DEF DiskInv, Retrying
  <1>3. CASE Rename
    <2>1. pc = "rename" /\ pc' = after /\ UNCHANGED <<mem, command>> /\ after \in SavePoints
      BY <1>0, <1>3 DEF Rename, Goto, SaveInv
    <2>2. AllSound(mem.files)
      BY <2>1 DEF SoundInv
    <2>3. CASE after \in {"begin", "pending", "scan"}
      <3>1. AllMatched(mem.files) /\ (AllShown(mem.files) \/ Retrying)
        BY <2>1, <2>3 DEF MatchInv, Matching, ShownInv, Showing, At
      <3> QED
        BY <1>3, <2>1, <2>2, <2>3, <3>1, DiskWritten DEF DiskInv, Retrying
    <2>4. CASE after = "mark"
      BY <2>1, <2>4 DEF DiskInv, ExactInv, Saving
    <2>5. CASE after \in {"check", "exit"}
      <3>1. AllMatched(mem.files) /\ AllShown(mem.files)
        BY <2>1, <2>5 DEF MatchInv, Matching, ShownInv, Settling, At, Saving
      <3> QED
        BY <1>3, <2>1, <2>2, <2>5, <3>1, DiskWritten DEF DiskInv
    <2>6. CASE after \in {"sitemap", "loop", "manifest"}
      BY <2>1, <2>6 DEF DiskInv
    <2> QED
      BY <2>1, <2>3, <2>4, <2>5, <2>6 DEF SavePoints
  <1>4. CASE \/ Unlink \/ Reinsert \/ CancelUpdate \/ ManifestJobDone \/ PendingDone 
             \/ GenIndexUri \/ FilesQueued \/ SubmitManifest \/ CheckQueue 
             \/ GenSitemapUri
             \/ (\E f \in Files : QueueFile(f)) \/ (\E c \in Commands : Load(c))
    <2>1. pc' \in {"unlink", "rename", "sitemap", "loop"}
      BY <1>4 DEF Unlink, Reinsert, CancelUpdate, ManifestJobDone, PendingDone, GenIndexUri,
         GenSitemapUri, FilesQueued, SubmitManifest, CheckQueue, QueueFile, Load, Goto, Save
    <2> QED
      BY <2>1 DEF DiskInv
  <1>5. CASE Abort \/ Crash \/ SaveInterrupted
    BY <1>5 DEF Abort, Crash, SaveInterrupted
  <1>6. CASE Exit \/ UpToDate
    <2>1. SavedFit /\ UNCHANGED <<userVars, disk, nodeVars>> /\ pc' \in {"exit", "off"}
      BY <1>6 DEF Exit, Forget, UpToDate, Goto, DiskInv
    <2>2. SavedFit'
      BY <2>1, DiskKept DEF nodeVars, Last, Busy
    <2> QED
      BY <2>1, <2>2 DEF DiskInv
  <1>7. CASE Insert \/ (Cleanup /\ mem.updateInProgress) \/ \E n \in Names : JobRunning(n)
    <2>1. /\ UNCHANGED <<userVars, disk, mem, command, queue, raw, manifest, site>>
          /\ pc \in {"begin", "pending"} /\ pc' \in {"pending", "scan"}
      BY <1>7 DEF Insert, Cleanup, JobRunning, Look, LookAtQueue, Goto
    <2>2. SavedFit => SavedFit'
      BY <2>1, DiskKept DEF Last, Busy
    <2> QED
      BY <2>1, <2>2 DEF DiskInv, Retrying
  <1>8. CASE Cleanup /\ ~mem.updateInProgress
    <2>1. pc = "begin" /\ pc' = "exit" /\ ~Retrying /\ UNCHANGED <<userVars, disk, site>>
      BY <1>8 DEF Cleanup, Goto, Retrying
    <2>2. SavedFit /\ UNCHANGED <<queue, raw, manifest>>
      BY <1>8, <2>1 DEF Cleanup, DiskInv
    <2>5. SavedFit'
      BY <2>1, <2>2, DiskKept DEF Last, Busy
    <2> QED
      BY <2>1, <2>5 DEF DiskInv
  <1>9. CASE \E g \in Files : FileJobEnded(g)
    <2> PICK g \in Files : FileJobEnded(g)
      BY <1>9
    <2>1. UNCHANGED <<userVars, disk, command, site, pc>> /\ pc = "pending"
      BY DEF FileJobEnded, Look
    <2>2. Last' = Last
      BY <1>0, <1>n, <2>1 DEF FileJobEnded, ClearJob, TypeOK, Last, Busy
    <2>3. \A f \in Files : Busy(f)' => Busy(f) /\ raw'[f] = raw[f]
      BY <1>0, <1>n DEF FileJobEnded, ClearJob, TypeOK, Busy
    <2>4. Retrying => Retrying'
      BY <1>0, <2>1 DEF FileJobEnded, Retrying, MemType
    <2>5. SavedFit => SavedFit'
      BY <2>1, <2>2, <2>3, DiskKept
    <2> QED
      BY <2>1, <2>4, <2>5 DEF DiskInv
  <1>13. CASE \E n \in Names : RemoveJob(n)
    <2> PICK n \in Names : RemoveJob(n)
      BY <1>13
    <2>1. UNCHANGED <<userVars, mem, command, pc, disk>>
      BY <1>0, RemoveSteps DEF RemoveJob
    <2>2. pc = "clear" \/ (pc = "begin" /\ command = "cleanup")
      BY DEF RemoveJob, Clearing
    <2>3. ASSUME pc = "begin" PROVE SavedFit => SavedFit'
      <3>1. Last' = Last
        BY <2>2, <2>3, RemoveLast
      <3>2. \A f \in Files : Busy(f)' => Busy(f) /\ raw'[f] = raw[f]
        BY <1>0, RemoveKeeps
      <3> QED
        BY <2>1, <3>1, <3>2, DiskKept
    <2> QED
      BY <2>1, <2>2, <2>3 DEF DiskInv, Retrying
  <1>10. CASE ManifestJobFailed
    <2>1. Retrying' /\ pc' = "pending"
      BY <1>0, <1>10 DEF ManifestJobFailed, Look, Retrying, MemType
    <2> QED
      BY <2>1 DEF DiskInv
  <1>11. CASE Scan
    <2>1. pc' = "unlink" \/ (pc' = "mark" /\ mem' = mem)
      BY <1>11 DEF Scan, Goto, Save
    <2>2. pc = "scan" /\ UNCHANGED <<userVars, disk, nodeVars>>
      BY <1>11 DEF Scan
    <2>3. SavedFit => SavedFit'
      BY <2>2, DiskKept DEF nodeVars, Last, Busy
    <2> QED
      BY <2>1, <2>2, <2>3 DEF DiskInv, Retrying
  <1>12. CASE MarkManifestFiles
    <2>1. /\ pc = "mark" /\ UNCHANGED <<userVars, disk, nodeVars>>
          /\ \/ pc' = "uptodate" /\ ~mem'.needToUpdate
             \/ pc' = "clear"
          /\ mem.needToUpdate => mem'.needToUpdate
      BY <1>0, <1>12 DEF MarkManifestFiles, Goto, MemType
    <2>2. SavedFit => SavedFit'
      BY <2>1, DiskKept DEF nodeVars, Last, Busy
    <2> QED
      BY <2>1, <2>2 DEF DiskInv
  <1> QED
    BY <1>1, <1>2, <1>3, <1>4, <1>5, <1>6, <1>7, <1>8, <1>9, <1>10, <1>11, <1>12, <1>13
    DEF Next, ProgramStep

(***************************************************************************)
(* Nothing to do                                                           *)
(***************************************************************************)
LEMMA ExactStep ==
  ASSUME SiteInv, SoundInv, ShownInv, ExactInv, Next, ~interrupted, ~interrupted'
  PROVE  ExactInv'
  <1>0. TypeOK /\ SaveInv /\ mem \in MemType /\ FlagsInv /\ KnowsInv
    BY MemFacts, ResumeParts DEF SiteInv
  <1>1. CASE \/ \E g \in Files : Edit(g) \/ Delete(g)
             \/ \E n \in Names : JobDone(n) \/ JobFails(n)
    <2>1. UNCHANGED <<mem, pc, after>> /\ Last' = Last
      BY <1>0, <1>1, NodeSteps, NodeLast, UserSteps DEF Edit, Delete, nodeVars, Last, Busy
    <2> QED
      BY <2>1 DEF ExactInv, Exact, At, Saving
  <1>2. CASE Unlink \/ Rename
    <2>1. mem' = mem /\ Last' = Last
      BY <1>2 DEF Unlink, Rename, nodeVars, Last, Busy
    <2>2. \A p \in SavePoints : At(p)' => At(p)
      BY <1>0, <1>2, SaveSteps
    <2>3. (Saving("mark")' => Saving("mark")) /\ pc' # "uptodate"
      BY <1>0, <1>2 DEF Unlink, Rename, Goto, Saving, SaveInv, SavePoints
    <2>4. Exact' <=> Exact
      BY <2>1 DEF Exact
    <2> QED
      BY <2>1, <2>2, <2>3, <2>4 DEF ExactInv, SavePoints
  <1>3. CASE Insert
    <2>1. /\ mem' = mem /\ ~Saving("mark")' /\ ~At("mark")' /\ pc' # "uptodate"
          /\ At("scan")' => ~mem.updateInProgress
      BY <1>3 DEF Insert, LookAtQueue, Goto, Saving, At
    <2> QED
      BY <1>0, <2>1 DEF ExactInv, FlagsInv
  <1>4. CASE PendingDone
    <2>1. /\ ~Saving("mark")' /\ ~At("mark")' /\ pc' # "uptodate"
      BY <1>4 DEF PendingDone, Save, Saving, At
    <2>2. At("scan")' => ~mem'.insertingManifest \/ mem'.needToUpdate
      BY <1>0, <1>4 DEF PendingDone, Save, At, MemType
    <2> QED
      BY <2>1, <2>2 DEF ExactInv
  <1>5. CASE Scan
    <2>1. ~At("scan")' /\ pc' # "uptodate"
      BY <1>5 DEF Scan, Goto, Save, At
    <2>2. mem'.needToUpdate \/ (mem' = mem /\ ~mem.needToUpdate /\ ~Saving("mark")')
      BY <1>0, <1>5 DEF Scan, Goto, Save, Saving, MemType
    <2>3. ASSUME mem' = mem, ~mem.needToUpdate
          PROVE  Exact'
      <3>1. ~mem.insertingManifest
        BY <1>5, <2>3 DEF Scan, ExactInv, At
      <3>2. AllShown(mem.files) /\ AllSound(mem.files)
        BY <1>5, <2>3 DEF Scan, ShownInv, Showing, SoundInv, Retrying, At
      <3>3. Last' = Last
        BY <1>5 DEF Scan, nodeVars, Last, Busy
      <3>4. ASSUME NEW f \in Pages PROVE Last[f] = mem.files[f].hash
        <4> f \in Files
          BY DEF Pages
        <4>1. CASE f \notin Known
          BY <3>2, <4>1 DEF AllShown, Shown, Known
        <4>2. CASE f \in Known
          <5>1. Content(f) = mem.files[f].hash
            <6>1. mem.files[f] \in FileRec
              BY <1>0, MemFacts
            <6>2. mem'.files[f] # NoRec
              BY <2>3, <4>2 DEF Known, NoRec
            <6> QED
              BY <1>0, <1>5, <2>3, <4>2, <6>1, <6>2, ScannedRecord
          <5> QED
            BY <3>2, <5>1 DEF AllShown, Shown, Past
        <4> QED
          BY <4>1, <4>2
      <3> QED
        BY <2>3, <3>1, <3>3, <3>4 DEF Exact
    <2> QED
      BY <2>1, <2>2, <2>3 DEF ExactInv
  <1>6. CASE MarkManifestFiles
    <2>1. /\ ~Saving("mark")' /\ ~At("scan")' /\ ~At("mark")'
          /\ pc' = "uptodate" => ~mem'.needToUpdate
      BY <1>6 DEF MarkManifestFiles, Goto, At, Saving
    <2>2. /\ mem.needToUpdate => mem'.needToUpdate
          /\ mem'.insertingManifest = mem.insertingManifest
          /\ Last' = Last /\ pc = "mark"
      BY <1>0, <1>6 DEF MarkManifestFiles, nodeVars, Last, Busy, MemType
    <2>3. ASSUME NEW f \in Pages PROVE mem'.files[f].hash = mem.files[f].hash
      <3> f \in Files
        BY DEF Pages
      <3>1. f \notin Known => mem.files[f] = NoRec
        BY <2>2 DEF SoundInv, AllSound, Sound, Known
      <3> QED
        BY <1>0, <1>6, <3>1, MarkedRecord
    <2>4. Exact => Exact'
      BY <2>2, <2>3 DEF Exact
    <2> QED
      BY <2>1, <2>2, <2>4 DEF ExactInv, At
  <1>7. CASE \/ Exit \/ Abort \/ Crash \/ Reinsert \/ CancelUpdate \/ Cleanup \/ UpToDate
             \/ GenIndexUri \/ GenSitemapUri \/ SaveInterrupted \/ FilesQueued \/ SubmitManifest \/ CheckQueue
             \/ (\E f \in Files : QueueFile(f)) \/ (\E c \in Commands : Load(c))
    <2>1. ~Saving("mark")' /\ ~At("scan")' /\ ~At("mark")' /\ pc' # "uptodate"
      BY <1>7 DEF Exit, Abort, Crash, Forget, Reinsert, CancelUpdate, Cleanup, LookAtQueue, 
         UpToDate, GenIndexUri, GenSitemapUri, SaveInterrupted, FilesQueued, SubmitManifest, 
         CheckQueue, QueueFile, Load, 
         Goto, Save, At, Saving
    <2> QED
      BY <2>1 DEF ExactInv
  <1>8. CASE \/ (\E n \in Names : JobRunning(n)) \/ (\E f \in Files : FileJobEnded(f))
             \/ ManifestJobDone \/ ManifestJobFailed \/ (\E n \in Names : RemoveJob(n))
    <2>1. ~Saving("mark")' /\ ~At("scan")' /\ ~At("mark")' /\ pc' # "uptodate"
      BY <1>8 DEF RemoveJob, Clearing, progVars, JobRunning, FileJobEnded, ManifestJobDone, ManifestJobFailed, Look, Save,
         At, Saving
    <2> QED
      BY <2>1 DEF ExactInv
  <1> QED
    BY <1>1, <1>2, <1>3, <1>4, <1>5, <1>6, <1>7, <1>8 DEF Next, ProgramStep

LEMMA DoneStep ==
  ASSUME SiteInv, DoneInv, Next
  PROVE  DoneInv'
  <1>0. TypeOK
    BY DEF SiteInv
  <1>n. Manifest \in Names /\ Manifest \notin Files /\ Files \subseteq Names
    BY SiteAssumption DEF Names
  <1>1. CASE \E n \in Names : JobDone(n) \/ JobFails(n)
    BY <1>0, <1>1, <1>n DEF JobDone, JobFails, TypeOK, DoneInv
  <1>2. CASE UNCHANGED nodeVars
    BY <1>2 DEF nodeVars, DoneInv
  <1>3. CASE SubmitManifest
    BY <1>0, <1>n, <1>3 DEF SubmitManifest, TypeOK, DoneInv
  <1>4. CASE \E f \in Files : QueueFile(f)
    BY <1>0, <1>n, <1>4 DEF QueueFile, TypeOK, DoneInv
  <1>5. CASE \E f \in Files : FileJobEnded(f)
    BY <1>0, <1>n, <1>5 DEF FileJobEnded, Look, ClearJob, TypeOK, DoneInv
  <1>6. CASE ManifestJobDone \/ ManifestJobFailed
    BY <1>0, <1>n, <1>6 DEF ManifestJobDone, ManifestJobFailed, ClearJob, TypeOK, DoneInv
  <1>7. CASE Insert \/ Cleanup
    BY <1>n, <1>7 DEF Insert, Cleanup, LookAtQueue, DoneInv
  <1>10. CASE \E n \in Names : RemoveJob(n)
    BY <1>0, <1>n, <1>10 DEF RemoveJob, ClearJob, TypeOK, DoneInv
  <1>8. CASE \E n \in Names : JobRunning(n)
    BY <1>8 DEF JobRunning, Look, DoneInv
  <1>9. CASE \/ Unlink \/ Rename \/ Exit \/ Reinsert \/ PendingDone \/ Scan 
             \/ MarkManifestFiles \/ UpToDate \/ FilesQueued \/ CheckQueue \/ Abort \/ Crash
             \/ CancelUpdate \/ GenIndexUri \/ GenSitemapUri \/ SaveInterrupted
             \/ (\E c \in Commands : Load(c)) \/ (\E f \in Files : Edit(f) \/ Delete(f))
    BY <1>2, <1>9 DEF Unlink, Rename, Exit, Reinsert, PendingDone, Scan, MarkManifestFiles, 
       UpToDate, FilesQueued, CheckQueue, Abort, Crash, Load, Edit, Delete,
       CancelUpdate, GenIndexUri, GenSitemapUri, SaveInterrupted
  <1> QED
    BY <1>1, <1>3, <1>4, <1>5, <1>6, <1>7, <1>8, <1>9, <1>10 DEF Next, ProgramStep

LEMMA PubInit == Init => PubInv
  <1> SUFFICES ASSUME Init PROVE PubInv
    OBVIOUS
  <1>1. DoneInv
    BY DEF Init, DoneInv, Names
  <1>2. SoundInv /\ MatchInv /\ ShownInv /\ ExactInv
    BY DEF Init, SoundInv, MatchInv, Matching, ShownInv, Showing, Settling, ExactInv, At, Saving
  <1>3. SavedFit
    <2>1. disk.files = NoRecs /\ ~Busy(Manifest) /\ site = NoManifest
      BY DEF Init, Busy, Names
    <2> SUFFICES ASSUME NEW f \in Pages
                 PROVE  /\ Sound(disk.files[f], f) /\ Matched(disk.files[f], f)
                        /\ Shown(disk.files[f], f)
      BY DEF SavedFit, AllSound, AllMatched, AllShown
    <2> f \in Files
      BY DEF Pages
    <2>2. disk.files[f] = NoRec /\ Last[f] = NoFile
      BY <2>1 DEF NoRecs, Last, NoManifest
    <2> QED
      BY <2>2 DEF Sound, Matched, Shown, NoRec
  <1>4. DiskInv
    BY <1>3 DEF DiskInv
  <1> QED
    BY <1>1, <1>2, <1>4 DEF PubInv

LEMMA PubStutter == PubInv /\ UNCHANGED vars => PubInv'
  <1> SUFFICES ASSUME PubInv, UNCHANGED vars PROVE PubInv'
    OBVIOUS
  <1>1. /\ mem' = mem /\ pc' = pc /\ after' = after /\ disk' = disk /\ command' = command
        /\ queue' = queue /\ raw' = raw /\ manifest' = manifest /\ site' = site
        /\ edits' = edits /\ gone' = gone /\ interrupted' = interrupted
    BY DEF vars, userVars, progVars, nodeVars
  <1>2. AllSound(mem.files)' <=> AllSound(mem.files)
    BY <1>1 DEF AllSound, Sound, Past, Content
  <1>3. AllMatched(mem.files)' <=> AllMatched(mem.files)
    BY <1>1 DEF AllMatched, Matched, Past, Content, Busy
  <1>4. AllShown(mem.files)' <=> AllShown(mem.files)
    BY <1>1 DEF AllShown, Shown, Past, Content, Last, Busy
  <1>5. SavedFit' <=> SavedFit
    BY <1>1 DEF SavedFit, AllSound, AllMatched, AllShown, Sound, Matched, Shown, Past, Content, 
       Last, Busy
  <1>6. (Exact' <=> Exact) /\ (Retrying' <=> Retrying)
    BY <1>1 DEF Exact, Last, Busy, Retrying
  <1> QED
    BY <1>1, <1>2, <1>3, <1>4, <1>5, <1>6 DEF PubInv, DoneInv, SoundInv, MatchInv, Matching, 
       ShownInv, Showing, Settling, DiskInv, ExactInv, At, Saving

LEMMA PubShows == SiteInv /\ PubInv => UpToDateIsPublished
  <1> SUFFICES ASSUME SiteInv, PubInv, pc = "uptodate", ~interrupted, NEW f \in Pages
               PROVE  site[f] = mem.files[f].hash
    BY DEF UpToDateIsPublished
  <1> f \in Files
    BY DEF Pages
  <1>1. Exact /\ Agree
    BY ResumeParts DEF PubInv, ExactInv, SiteInv, KnowsInv, At
  <1> QED
    BY <1>1 DEF Exact, Agree, Last

\* "No update required" is true: unless an update was interrupted, the last
\* manifest inserted shows every file as it has just been scanned -- as long as
\* no file that has a CHK is taken into the manifest, for such a file keeps the
\* CHK of an old content for the time it is too large again.
THEOREM NothingToDo == Spec /\ [][StaysOut]_vars => []UpToDateIsPublished
  <1>1. SiteInv /\ UriInv /\ PubInv /\ [Next]_vars /\ [StaysOut]_vars => PubInv'
    <2> SUFFICES ASSUME SiteInv, UriInv, PubInv, Next, UNCHANGED vars \/ StaysOut PROVE PubInv'
      BY PubStutter
    <2>1. CASE UNCHANGED vars
      BY <2>1, PubStutter
    <2>2. CASE StaysOut
      <3>1. DoneInv'
        BY DoneStep DEF PubInv
      <3>2. ASSUME ~interrupted'
            PROVE  SoundInv' /\ MatchInv' /\ ShownInv' /\ DiskInv' /\ ExactInv'
        <4>1. TypeOK
          BY DEF SiteInv
        <4>2. ~interrupted
          BY <3>2, <4>1, HistoryStep
        <4> QED
          BY <2>2, <3>2, <4>2, SoundStep, MatchStep, ShownStep, DiskStep, ExactStep DEF PubInv
      <3> QED
        BY <3>1, <3>2 DEF PubInv
    <2> QED
      BY <2>1, <2>2
  <1> QED
    BY SiteInvariance, UriInvariance, PubInit, PubShows, <1>1, PTL DEF Spec
================================================================================

----------------------------- MODULE ManifestPlan ------------------------------
(***************************************************************************)
(* Which files of a freesite go into its manifest: markManifestFiles of    *)
(* src/fcp3/sitemgr.py, with the parts of scan, insert,                    *)
(* createIndexAndSitemapIfNeeded and makeManifest that set or use what it  *)
(* decides.                                                                *)
(*                                                                         *)
(* One update after the other is planned and carried out, the user editing *)
(* files in between.  A file is a number, in the order of the names; of    *)
(* its contents the size counts, of the index page also what it mentions.  *)
(* Inserts succeed and no run is cut short: for that, see SiteInsert.  A   *)
(* site has an index page of its own: without one, markManifestFiles fails *)
(* at line 1479, before any page is generated.                             *)
(***************************************************************************)
EXTENDS FiniteSets, FiniteSetsExt, Naturals

CONSTANTS
  Names,              \* the names of files, as numbers
  Index, Activelink, Sitemap,
  Css, Html,          \* the names that end so
  Sizes,
  Texts,              \* what an index page may mention: sets of names
  RedirectSize, MetadataSize,
  MaxManifestSize, MaxNumberSeparate

ASSUME PlanAssumption ==
  /\ Names \subseteq Nat /\ IsFiniteSet(Names) /\ Index \in Names
  /\ Index \notin {Activelink, Sitemap} /\ Activelink # Sitemap
  /\ Sizes \subseteq Nat /\ Texts \subseteq SUBSET Names
  /\ {RedirectSize, MetadataSize, MaxManifestSize, MaxNumberSeparate} \subseteq Nat

Targets == {"none", "manifest", "separate"}
Special == {Index, Activelink}
NoPlan  == [f \in Names |-> "none"]

VARIABLES
  disk, size,      \* the directory: the files in it, and the sizes
  mentioned,       \* the names that occur in the text of the index page
  files,           \* names that have a record
  target,          \* rec['target'], "none" for a record without it
  uri,             \* files whose record has a CHK
  changed,         \* files to be found, or already in state, "changed"
  needToUpdate,
  pc,
  totalsize, maxsize,
  left,            \* files not looked at yet
  forced,          \* files put into the manifest to have fewer separate ones
  named,           \* files the manifest names: inside, and as redirects
  inserted,        \* history: files whose CHK in the record was inserted
  plan             \* history: the targets of the last plan, until an edit

dirVars  == <<disk, size, mentioned>>
recVars  == <<files, target, uri, changed, needToUpdate>>
planVars == <<totalsize, maxsize, left, forced>>
vars     == <<dirVars, recVars, planVars, named, inserted, plan, pc>>

Inside   == {f \in files : target[f] = "manifest"}
Separate == files \ Inside

Init ==
  /\ disk \in SUBSET Names /\ Index \in disk
  /\ size \in [disk -> Sizes]
  /\ mentioned \in Texts
  /\ files = {} /\ target = NoPlan /\ uri = {} /\ changed = {}
  /\ needToUpdate = FALSE
  /\ pc = "idle" /\ totalsize = 0 /\ maxsize = 0 /\ left = {} /\ forced = {}
  /\ named = [inside |-> {}, redirects |-> {}]
  /\ inserted = {} /\ plan = NoPlan

--------------------------------------------------------------------------------
(***************************************************************************)
(* The user                                                                *)
(***************************************************************************)
\* A file is changed, or made.
Edit(f, s) ==
  /\ pc = "idle"
  /\ disk' = disk \cup {f}
  /\ size' = [g \in disk' |-> IF g = f THEN s ELSE size[g]]
  /\ changed' = changed \cup ({f} \cap files)
  /\ IF f = Index THEN mentioned' \in Texts ELSE UNCHANGED mentioned
  /\ plan' = NoPlan
  /\ UNCHANGED <<files, target, uri, needToUpdate, planVars, named, inserted, pc>>

Delete(f) ==
  /\ pc = "idle" /\ f \in disk \ {Index}
  /\ disk' = disk \ {f}
  /\ size' = [g \in disk' |-> size[g]]
  /\ plan' = NoPlan
  /\ UNCHANGED <<mentioned, recVars, planVars, named, inserted, pc>>

--------------------------------------------------------------------------------
(***************************************************************************)
(* scan and markManifestFiles                                              *)
(***************************************************************************)
\* Variant: the record goes, its CHK stays.
ScanKeeping ==
  /\ pc = "idle" /\ pc' = "mark"
  /\ files' = disk
  /\ target' = [f \in Names |-> IF f \in disk THEN target[f] ELSE "none"]
  /\ changed' = (changed \cap disk) \cup (disk \ files) \cup (disk \ (Inside \cup uri))
  /\ needToUpdate' = (~ files \subseteq disk \/ changed' # {})
  /\ UNCHANGED <<dirVars, uri, inserted, planVars, named, plan>>

\* A new run.  Records of files that are gone go; a file without an URI that is
\* not in the manifest counts as changed.
Scan ==
  /\ pc = "idle" /\ pc' = "mark"
  /\ files' = disk
  /\ target' = [f \in Names |-> IF f \in disk THEN target[f] ELSE "none"]
  /\ uri' = uri \cap disk /\ inserted' = inserted \cap disk
  /\ changed' = (changed \cap disk) \cup (disk \ files) \cup (disk \ (Inside \cup uri))
  /\ needToUpdate' = (~ files \subseteq disk \/ changed' # {})
  /\ UNCHANGED <<dirVars, planVars, named, plan>>

\* The index page first, then the activelink if it fits.
MarkSpecial ==
  /\ pc = "mark" /\ pc' = "choose"
  /\ LET room  == MaxManifestSize + RedirectSize
         taken == MetadataSize + size[Index]
         fits  == /\ Activelink \in files
                  /\ size[Activelink] + taken + RedirectSize * Cardinality(files)
                        <= room + RedirectSize
     IN
     /\ target' = [f \in Names |-> IF f = Index \/ (f = Activelink /\ fits)
                                   THEN "manifest" ELSE target[f]]
     /\ totalsize' = IF fits THEN size[Activelink] ELSE taken
     /\ maxsize' = IF fits THEN room + RedirectSize ELSE room
  /\ left' = files /\ forced' = {}
  /\ UNCHANGED <<dirVars, files, uri, changed, needToUpdate, named, inserted, plan>>

\* CSS files the index page mentions, then others it mentions, then HTML files.
Class(f) == IF f \in mentioned THEN (IF f \in Css THEN 1 ELSE 2)
                               ELSE (IF f \in Html THEN 3 ELSE 4)

Smaller(f, g) == size[f] < size[g] \/ (size[f] = size[g] /\ f < g)

Before(f, g) == Class(f) < Class(g) \/ (Class(f) = Class(g) /\ Smaller(f, g))

\* Variant: room for a redirect to each file not chosen yet.
FitsTwice(f) == size[f] + totalsize + RedirectSize * Cardinality(Separate)
                  <= maxsize + RedirectSize

\* Variant: until the limit is reached, so that the last file may go beyond it.
FitsBefore(f) == totalsize + RedirectSize * Cardinality(files)
                   <= maxsize + RedirectSize

\* The limit has room for a redirect to each file that is not in the manifest.
Fits(f) == size[f] + totalsize + RedirectSize * Cardinality(files)
             <= maxsize + RedirectSize

IsNext(f) == f \in left /\ \A g \in left \ {f} : Before(f, g)

\* Variant: a file that leaves the manifest is not marked.
ConsiderQuietly(f) ==
  /\ pc = "choose" /\ IsNext(f)
  /\ left' = left \ {f}
  /\ LET in == f \in Special \/ Fits(f) IN
     /\ target' = [target EXCEPT ![f] = IF in THEN "manifest" ELSE "separate"]
     /\ totalsize' = IF in /\ f \notin Special THEN totalsize + size[f] ELSE totalsize
     /\ maxsize' = IF in /\ f \notin Special THEN maxsize + RedirectSize ELSE maxsize
  /\ UNCHANGED <<dirVars, files, uri, changed, needToUpdate, forced, named, inserted,
                 plan, pc>>

\* The loop over recByIndexAndSize.
Consider(f) ==
  /\ pc = "choose" /\ IsNext(f)
  /\ left' = left \ {f}
  /\ \/ /\ f \in Special
        /\ target' = [target EXCEPT ![f] = "manifest"]
        /\ UNCHANGED <<totalsize, maxsize, changed, needToUpdate>>
     \/ /\ f \notin Special /\ Fits(f)
        /\ target' = [target EXCEPT ![f] = "manifest"]
        /\ totalsize' = totalsize + size[f]
        /\ maxsize' = maxsize + RedirectSize
        /\ UNCHANGED <<changed, needToUpdate>>
     \/ /\ f \notin Special /\ ~ Fits(f)
        /\ target' = [target EXCEPT ![f] = "separate"]
        /\ LET again == f \in Inside \ uri IN
           /\ changed' = IF again THEN changed \cup {f} ELSE changed
           /\ needToUpdate' = (needToUpdate \/ again)
        /\ UNCHANGED <<totalsize, maxsize>>
  /\ UNCHANGED <<dirVars, files, uri, forced, named, inserted, plan, pc>>

\* Variant: fewer than the limit.
TooManyOrAsMany == Cardinality(Separate) >= MaxNumberSeparate

TooMany == Cardinality(Separate) > MaxNumberSeparate

\* The smallest separate files are taken in until few enough remain.
TakeBack(f) ==
  /\ pc = "choose" /\ left = {} /\ TooMany
  /\ f \in Separate /\ \A g \in Separate \ {f} : Smaller(f, g)
  /\ target' = [target EXCEPT ![f] = "manifest"]
  /\ totalsize' = totalsize + size[f]
  /\ forced' = forced \cup {f}
  /\ UNCHANGED <<dirVars, files, uri, changed, needToUpdate, maxsize, left, named,
                 inserted, plan, pc>>

Planned == pc = "choose" /\ left = {} /\ ~ TooMany

--------------------------------------------------------------------------------
(***************************************************************************)
(* insert                                                                  *)
(***************************************************************************)
\* What markManifestFiles counted with is forgotten.
Done ==
  /\ pc' = "idle" /\ plan' = target /\ needToUpdate' = FALSE
  /\ totalsize' = 0 /\ maxsize' = 0 /\ left' = {} /\ forced' = {}

NoUpdate ==
  /\ Planned /\ ~ needToUpdate /\ Done
  /\ UNCHANGED <<dirVars, files, target, uri, changed, named, inserted>>

\* createIndexAndSitemapIfNeeded gives the pages a CHK if they have none; the
\* changed files outside the manifest get one and are inserted.
Upload ==
  /\ Planned /\ needToUpdate
  /\ pc' = "upload"
  /\ uri' = uri \cup ({Index, Sitemap} \cap files) \cup (changed \ Inside)
  /\ inserted' = inserted \cup (changed \ Inside)
  /\ UNCHANGED <<dirVars, files, target, changed, needToUpdate, planVars, named, plan>>

\* Variant: only files with an URI are done.
MakeManifestByUri ==
  /\ pc = "upload" /\ Done
  /\ named' = [inside |-> Inside, redirects |-> Separate \cap uri]
  /\ changed' = changed \ uri
  /\ UNCHANGED <<dirVars, files, target, uri, inserted>>

\* makeManifest: files without an URI are left out, and stay changed.  A sitemap
\* that was generated is inserted like a file, and is not in the records.
MakeManifest ==
  /\ pc = "upload" /\ Done
  /\ named' = [inside |-> Inside, redirects |-> Separate \cap uri]
  /\ changed' = changed \ (Inside \cup uri \cup {Index, Sitemap})
  /\ UNCHANGED <<dirVars, files, target, uri, inserted>>

Next ==
  \/ \E f \in Names, s \in Sizes : Edit(f, s)
  \/ \E f \in Names : Delete(f) \/ Consider(f) \/ TakeBack(f)
  \/ Scan \/ MarkSpecial \/ NoUpdate \/ Upload \/ MakeManifest

Spec == Init /\ [][Next]_vars

--------------------------------------------------------------------------------
(***************************************************************************)
(* Properties                                                              *)
(***************************************************************************)
TypeOK ==
  /\ disk \subseteq Names /\ Index \in disk /\ files \subseteq Names
  /\ pc # "idle" => files = disk
  /\ size \in [disk -> Nat] /\ mentioned \subseteq Names
  /\ target \in [Names -> Targets]
  /\ uri \subseteq files /\ changed \subseteq files /\ inserted \subseteq uri
  /\ needToUpdate \in BOOLEAN
  /\ pc \in {"idle", "mark", "choose", "upload"}
  /\ totalsize \in Nat /\ maxsize \in Nat
  /\ left \subseteq Names /\ forced \subseteq Names
  /\ named.inside \subseteq Names /\ named.redirects \subseteq Names
  /\ plan \in [Names -> Targets]

\* "The manifest goes above the max size if that is necessary to avoid having
\* more than maxNumberSeparateFiles redirects" (1442), and never otherwise: the
\* files taken back are the smallest of those left out, each of them was needed
\* to get down to the limit, and a file of the classes before is in when one
\* after it of the same class is.
WellChosen ==
  Planned =>
    /\ forced # {} => Cardinality(Separate) = MaxNumberSeparate
    /\ \A f \in forced, g \in Separate : Smaller(f, g)
    /\ \A f \in Inside \ Special, g \in Separate :
         Class(f) = Class(g) => Smaller(f, g)

\* Planning the same directory again gives the same manifest, whatever the
\* records say of the last one: nothing of a plan leaks into the next.
SamePlan == Planned /\ plan # NoPlan => target = plan

\* "bail if site is already up to date" (809): a run over an unchanged directory
\* inserts nothing, unless files are in the manifest only to have fewer redirects.
QuietUnlessForced == Planned /\ plan # NoPlan /\ needToUpdate => forced # {}

\* Whatever went in and out of manifests before, a manifest names every file of
\* the scan, and its redirects lead to something that was inserted.  The sitemap
\* is an exception: gensitemapuri gives it a CHK while it is in the manifest,
\* and when it has to leave that counts as inserted.
NothingLeftOut ==
  pc = "idle" /\ plan # NoPlan =>
    /\ named.inside \cup named.redirects = files
    /\ named.redirects \ {Sitemap} \subseteq inserted

SumOf(w, S) == MapThenSumSet(LAMBDA f : w[f], S)

\* The size that ContainerSizeEstimator, which the constants are taken from,
\* gives the manifest.
Estimate ==
  MetadataSize + SumOf(size, Inside) + RedirectSize * Cardinality(Separate)

\* "Files are selected for the manifest until the manifest reaches
\* maxManifestSizeBytes" (1431): it stays below its limit unless the index page
\* alone is too large or files had to be taken back.  Where there is an
\* activelink the index page may come on top, and the activelink itself when it
\* did not fit: line 1471 forgets the one, line 1516 takes the other anyway.
LimitKept ==
  Planned /\ forced = {} =>
    \/ Inside \subseteq Special
    \/ Estimate <= MaxManifestSize
    \/ /\ Activelink \in files
       /\ Estimate <= MaxManifestSize + MetadataSize + size[Index] + size[Activelink]
================================================================================
